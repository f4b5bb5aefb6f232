---- MODULE StreamSender ----
(***************************************************************************)
(* The send part of one QUIC stream: QuicStreamSender in quic/stream.py,   *)
(* and the part of connection.py that turns it into frames and drops it.   *)
(*                                                                         *)
(* A RangeSet is the set of the offsets it covers.  Its first range is the *)
(* run of consecutive offsets that begins at the least one, because add()  *)
(* merges ranges that touch.  Bytes are told apart by their offset: the    *)
(* byte the application writes at offset k is k.                           *)
(*                                                                         *)
(* Each frame sent travels in one packet, whose fate is reported once:     *)
(* QuicDeliveryState is ACKED or LOST.                                     *)
(***************************************************************************)
EXTENDS Integers, Sequences

CONSTANTS
  MaxBytes,   \* bound: bytes the application writes in all
  MaxLost,    \* bound: frames reported lost
  Aborts      \* what may cut the stream short: "reset" and "stop"

ASSUME SenderAssumption ==
  /\ MaxBytes \in Nat /\ MaxLost \in Nat
  /\ Aborts \subseteq {"reset", "stop"}

VARIABLES
  bufferStart, bufferStop,  \* the offsets that bound the buffer
  buffer,                   \* the bytes between them
  bufferFin,                \* where the stream ends, or None
  pending, acked,           \* offsets
  pendingEof,               \* the end is still to be sent
  highestOffset,            \* the highest offset sent
  bufferIsEmpty,            \* the connection need not look here
  senderFinished,
  resetCalled, resetPending,
  senderGone,               \* the connection has discarded the stream
  sent,                     \* every frame sent so far
  inFlight,                 \* those whose fate is not known yet
  confirmed,                \* those reported ACKED, kept for the properties
  lost                      \* bound: loss reports so far

bufferVars == <<bufferStart, bufferStop, buffer, bufferFin>>
resetVars == <<resetCalled, resetPending>>
senderVars == <<bufferVars, pending, acked, pendingEof, highestOffset, bufferIsEmpty,
                senderFinished, resetVars, senderGone, sent, inFlight, confirmed, lost>>

None == -1

\* The offsets of range(start, stop), and the first range of a RangeSet.
Offsets(start, stop) == start..(stop - 1)
First(S) == CHOOSE x \in S : \A y \in S : x <= y
RunStopAtLast(S, start, bound) == CHOOSE k \in (start + 1)..bound :   \* (mutant)
                                    k - 1 \in S /\ \A j \in S : j < k
RunStop(S, start, bound) == CHOOSE k \in (start + 1)..bound :
                              Offsets(start, k) \subseteq S /\ k \notin S

DataFrame(start, stop, fin, data) ==
  [kind |-> "data", start |-> start, stop |-> stop, fin |-> fin, data |-> data]
ResetFrame(size) ==
  [kind |-> "reset", start |-> size, stop |-> size, fin |-> FALSE, data |-> << >>]

Frames == [kind : {"data", "reset"}, start : Nat, stop : Nat, fin : BOOLEAN,
           data : Seq(Nat)]

SenderFlagsOK ==
  {pendingEof, bufferIsEmpty, senderFinished, resetCalled, resetPending, senderGone}
    \subseteq BOOLEAN

SenderTypeOK ==
  /\ bufferStart \in Nat /\ bufferStop \in Nat
  /\ buffer \in Seq(Nat)
  /\ bufferFin \in Nat \cup {None}
  /\ pending \subseteq Nat /\ acked \subseteq Nat
  /\ highestOffset \in Nat
  /\ SenderFlagsOK
  /\ sent \in Seq(Frames)
  /\ inFlight \subseteq 1..Len(sent) /\ confirmed \subseteq 1..Len(sent)
  /\ lost \in Nat

SenderInit ==
  /\ bufferStart = 0 /\ bufferStop = 0 /\ buffer = << >> /\ bufferFin = None
  /\ pending = {} /\ acked = {} /\ pendingEof = FALSE /\ highestOffset = 0
  /\ bufferIsEmpty = TRUE /\ senderFinished = FALSE
  /\ resetCalled = FALSE /\ resetPending = FALSE /\ senderGone = FALSE
  /\ sent = << >> /\ inFlight = {} /\ confirmed = {} /\ lost = 0
----
(* The application. *)

\* write(): neither after the end nor after reset() (both are asserted).
Write(size, end) ==
  /\ ~senderGone /\ bufferFin = None /\ ~resetCalled
  /\ size > 0 \/ end
  /\ bufferStop + size <= MaxBytes
  /\ bufferStop' = bufferStop + size
  /\ buffer' = buffer \o [k \in 1..size |-> bufferStop + k - 1]
  /\ pending' = pending \cup Offsets(bufferStop, bufferStop + size)
  /\ bufferFin' = IF end THEN bufferStop + size ELSE None
  /\ pendingEof' = (end \/ pendingEof)
  /\ bufferIsEmpty' = FALSE
  /\ UNCHANGED <<bufferStart, acked, highestOffset, senderFinished, resetVars,
                 senderGone, sent, inFlight, confirmed, lost>>

\* reset(), called by the application or for a STOP_SENDING frame.
Reset ==
  /\ ~senderGone /\ ~resetCalled
  /\ resetCalled' = TRUE /\ resetPending' = TRUE
  /\ UNCHANGED <<bufferVars, pending, acked, pendingEof, highestOffset, bufferIsEmpty,
                 senderFinished, senderGone, sent, inFlight, confirmed, lost>>
----
(* The connection writes a packet. *)

\* The bytes at these offsets, and whether the stream ends with them.
Slice(start, stop) == SubSeq(buffer, start - bufferStart + 1, stop - bufferStart)
EndsStream(stop) == bufferFin = stop

Send(frame) ==
  /\ sent' = Append(sent, frame)
  /\ inFlight' = inFlight \cup {Len(sent) + 1}

\* _write_application asks for data while no RESET_STREAM is due.
MayWrite == ~senderGone /\ ~resetPending /\ ~bufferIsEmpty

\* get_frame() takes what fits from the first pending range; flow control, the
\* congestion window and the packet decide what fits.
SendData(stop) ==
  /\ MayWrite
  /\ pending # {}
  /\ stop > First(pending) /\ Offsets(First(pending), stop) \subseteq pending
  /\ LET start == First(pending) IN
     /\ pending' = pending \ Offsets(start, stop)
     /\ Send(DataFrame(start, stop, EndsStream(stop), Slice(start, stop)))
  /\ highestOffset' = IF stop > highestOffset THEN stop ELSE highestOffset
  /\ pendingEof' = (pendingEof /\ bufferFin # stop)
  /\ UNCHANGED <<bufferVars, acked, bufferIsEmpty, senderFinished, resetVars,
                 senderGone, confirmed, lost>>

\* get_frame() with only the end left to send.  When the packet has no room for
\* it, start_frame raises after get_frame has returned.
SendFin ==
  /\ MayWrite
  /\ pending = {} /\ pendingEof
  /\ pendingEof' = FALSE
  /\ \/ Send(DataFrame(bufferFin, bufferFin, TRUE, << >>))
     \/ UNCHANGED <<sent, inFlight>>
  /\ UNCHANGED <<bufferVars, pending, acked, highestOffset, bufferIsEmpty,
                 senderFinished, resetVars, senderGone, confirmed, lost>>

NothingToSendEarly ==   \* (mutant: the end is overlooked)
  /\ MayWrite
  /\ pending = {}
  /\ bufferIsEmpty' = TRUE
  /\ UNCHANGED <<bufferVars, pending, acked, pendingEof, highestOffset, senderFinished,
                 resetVars, senderGone, sent, inFlight, confirmed, lost>>

NothingToSend ==
  /\ MayWrite
  /\ pending = {} /\ ~pendingEof
  /\ bufferIsEmpty' = TRUE
  /\ UNCHANGED <<bufferVars, pending, acked, pendingEof, highestOffset, senderFinished,
                 resetVars, senderGone, sent, inFlight, confirmed, lost>>

\* get_reset_frame()
SendReset ==
  /\ ~senderGone /\ resetPending
  /\ resetPending' = FALSE
  /\ Send(ResetFrame(highestOffset))
  /\ UNCHANGED <<bufferVars, pending, acked, pendingEof, highestOffset, bufferIsEmpty,
                 senderFinished, resetCalled, senderGone, confirmed, lost>>

\* A finished stream is discarded when its receive part is finished as well.
DiscardSender ==
  /\ senderFinished /\ ~senderGone
  /\ senderGone' = TRUE
  /\ UNCHANGED <<bufferVars, pending, acked, pendingEof, highestOffset, bufferIsEmpty,
                 senderFinished, resetVars, sent, inFlight, confirmed, lost>>
----
(* The fate of a frame is reported. *)

\* on_data_delivery(ACKED): acknowledged bytes leave the front of the buffer.
DataAcked(i) ==
  /\ i \in inFlight /\ sent[i].kind = "data"
  /\ inFlight' = inFlight \ {i} /\ confirmed' = confirmed \cup {i}
  /\ bufferIsEmpty' = FALSE
  /\ LET known == acked \cup Offsets(sent[i].start, sent[i].stop)
         shift == sent[i].stop > sent[i].start /\ First(known) = bufferStart
         start == IF shift THEN RunStop(known, bufferStart, bufferStop) ELSE bufferStart
     IN /\ acked' = known \ Offsets(bufferStart, start)
        /\ bufferStart' = start
        /\ buffer' = SubSeq(buffer, start - bufferStart + 1, Len(buffer))
        /\ senderFinished' = (senderFinished \/ start = bufferFin)
  /\ UNCHANGED <<bufferStop, bufferFin, pending, pendingEof, highestOffset, resetVars,
                 senderGone, sent, lost>>

\* on_data_delivery(LOST)
DataLost(i) ==
  /\ i \in inFlight /\ sent[i].kind = "data"
  /\ lost < MaxLost /\ lost' = lost + 1
  /\ inFlight' = inFlight \ {i}
  /\ bufferIsEmpty' = FALSE
  /\ pending' = pending \cup Offsets(sent[i].start, sent[i].stop)
  /\ pendingEof' = (pendingEof \/ sent[i].stop = bufferFin)
  /\ UNCHANGED <<bufferVars, acked, highestOffset, senderFinished, resetVars,
                 senderGone, sent, confirmed>>

\* on_reset_delivery
ResetAcked(i) ==
  /\ i \in inFlight /\ sent[i].kind = "reset"
  /\ inFlight' = inFlight \ {i} /\ confirmed' = confirmed \cup {i}
  /\ senderFinished' = TRUE
  /\ UNCHANGED <<bufferVars, pending, acked, pendingEof, highestOffset, bufferIsEmpty,
                 resetVars, senderGone, sent, lost>>

ResetLostForgotten(i) ==   \* (mutant: RESET_STREAM is not sent again)
  /\ i \in inFlight /\ sent[i].kind = "reset"
  /\ lost < MaxLost /\ lost' = lost + 1
  /\ inFlight' = inFlight \ {i}
  /\ UNCHANGED <<bufferVars, pending, acked, pendingEof, highestOffset, bufferIsEmpty,
                 senderFinished, resetVars, senderGone, sent, confirmed>>

ResetLost(i) ==
  /\ i \in inFlight /\ sent[i].kind = "reset"
  /\ lost < MaxLost /\ lost' = lost + 1
  /\ inFlight' = inFlight \ {i}
  /\ resetPending' = TRUE
  /\ UNCHANGED <<bufferVars, pending, acked, pendingEof, highestOffset, bufferIsEmpty,
                 senderFinished, resetCalled, senderGone, sent, confirmed>>

WritePacket ==
  \/ \E stop \in 1..MaxBytes : SendData(stop)
  \/ SendFin \/ NothingToSend \/ SendReset

Report(i) == DataAcked(i) \/ DataLost(i) \/ ResetAcked(i) \/ ResetLost(i)

SenderNext ==
  \/ \E size \in 0..MaxBytes, end \in BOOLEAN : Write(size, end)
  \/ Aborts # {} /\ Reset
  \/ WritePacket
  \/ DiscardSender
  \/ \E i \in inFlight : Report(i)

SenderSpec == SenderInit /\ [][SenderNext]_senderVars
----
(* What must hold of the sender. *)

FrameOffsets(i) == IF sent[i].kind = "data" THEN Offsets(sent[i].start, sent[i].stop)
                   ELSE {}
FlightOffsets == UNION {FrameOffsets(i) : i \in inFlight}

\* Every byte written and not yet dropped from the buffer is in exactly one
\* place: to be sent, on its way in exactly one frame, or acknowledged out of
\* order.  No loss report, however late or wrong, may lose or duplicate one.
SenderAccounts ==
  /\ pending \cup acked \cup FlightOffsets = Offsets(bufferStart, bufferStop)
  /\ pending \cap acked = {}
  /\ \A i \in inFlight : FrameOffsets(i) \cap (pending \cup acked) = {}
  /\ \A i, j \in inFlight : i # j => FrameOffsets(i) \cap FrameOffsets(j) = {}

\* The index arithmetic on the buffer is right: a frame carries the bytes its
\* offsets name, also when the buffer has moved on since they were written.
FramesCarryTheirBytes ==
  \A i \in 1..Len(sent) : sent[i].kind = "data" =>
    sent[i].data = [k \in 1..(sent[i].stop - sent[i].start) |-> sent[i].start + k - 1]

\* The buffer is the bytes between its two offsets, and what can be dropped from
\* its front has been.
BufferMatches ==
  /\ bufferStart <= bufferStop
  /\ Len(buffer) = bufferStop - bufferStart
  /\ \A k \in 1..Len(buffer) : buffer[k] = bufferStart + k - 1
  /\ bufferStart \notin acked

\* The connection skips a stream that says it is empty, so nothing may be left
\* to send in one that does.
EmptyHasNothingToSend == bufferIsEmpty => pending = {} /\ ~pendingEof

\* The last byte has left in a frame that does not end the stream, which was
\* closed only afterwards, by an empty write: the end needs a frame of its own.
EndApart ==
  \E i \in 1..Len(sent) :
    sent[i].kind = "data" /\ sent[i].stop = bufferFin /\ ~sent[i].fin

\* The end of the stream was taken out of the sender and is in no frame, or the
\* stream was discarded with its end still to be sent: it will not be sent again.
EndMissed ==
  /\ bufferFin # None
  /\ IF pendingEof THEN senderGone
     ELSE /\ bufferFin - 1 \notin pending
          /\ \A i \in inFlight \cup confirmed : ~sent[i].fin

\* stream.py:166: the sender finishes "upon acknowledgement of a data frame with
\* the FIN bit set".
FinishedByFin ==
  senderFinished /\ ~resetCalled =>
    \E i \in confirmed : sent[i].fin

\* The inductive invariant behind the first three.
SenderInv ==
  /\ SenderTypeOK
  /\ \A i \in 1..Len(sent) : sent[i].start <= sent[i].stop
  /\ SenderAccounts
  /\ BufferMatches
  /\ FramesCarryTheirBytes
  /\ EmptyHasNothingToSend
  /\ pendingEof => bufferFin # None
====
