---- MODULE StreamPipe ----
(***************************************************************************)
(* One direction of a QUIC stream between two endpoints: StreamSender and  *)
(* StreamReceiver over a network that may lose, delay, repeat and reorder  *)
(* the packets, and that the sender may believe to have lost one which is  *)
(* still to arrive.  STOP_SENDING frames travel the other way.             *)
(***************************************************************************)
EXTENDS StreamSender, StreamReceiver

VARIABLES
  arrived,     \* data and reset frames that have been received at least once
  stopsSent,   \* STOP_SENDING frames sent so far; they carry nothing
  stopsOpen,   \* those whose fate is not known yet
  stopsSeen    \* those that have been received at least once

networkVars == <<arrived, stopsSent, stopsOpen, stopsSeen>>
pipe == <<senderVars, receiverVars, networkVars>>

PipeTypeOK ==
  /\ SenderTypeOK /\ ReceiverTypeOK
  /\ arrived \subseteq 1..Len(sent)
  /\ stopsSent \in Nat
  /\ stopsOpen \subseteq 1..stopsSent /\ stopsSeen \subseteq 1..stopsSent

Init ==
  /\ SenderInit /\ ReceiverInit
  /\ arrived = {} /\ stopsSent = 0 /\ stopsOpen = {} /\ stopsSeen = {}

\* Anything sent may arrive, at any time and any number of times.
Arrive(i) ==
  /\ IF sent[i].kind = "data" THEN ReceiveData(sent[i].start, sent[i].data, sent[i].fin)
                              ELSE ReceiveReset(sent[i].start)
  /\ arrived' = arrived \cup {i}
  /\ UNCHANGED <<senderVars, stopsSent, stopsOpen, stopsSeen>>

\* A frame can be acknowledged once it has been received; it can be reported
\* lost at any time.
FrameReported(i) ==
  /\ \/ i \in arrived /\ (DataAcked(i) \/ ResetAcked(i))
     \/ DataLost(i) \/ ResetLost(i)
  /\ UNCHANGED <<receiverVars, networkVars>>

\* The receiving application gives up the stream (stop_stream), once.
AppStops ==
  /\ "stop" \in Aborts
  /\ ~stopPending /\ stopsSent = 0
  /\ Stop
  /\ UNCHANGED <<senderVars, networkVars>>

StopLeaves ==
  /\ SendStop
  /\ stopsSent' = stopsSent + 1
  /\ stopsOpen' = stopsOpen \cup {stopsSent + 1}
  /\ UNCHANGED <<senderVars, arrived, stopsSeen>>

\* _handle_stop_sending_frame: reset(), whose assertion fails on a stream that
\* is being reset already.
StopArrives(i) ==
  /\ stopsSeen' = stopsSeen \cup {i}
  /\ IF senderGone \/ resetCalled THEN UNCHANGED senderVars ELSE Reset
  /\ UNCHANGED <<receiverVars, arrived, stopsSent, stopsOpen>>

StopReported(i) ==
  /\ i \in stopsOpen
  /\ stopsOpen' = stopsOpen \ {i}
  /\ \/ i \in stopsSeen /\ UNCHANGED <<senderVars, receiverVars>>
     \/ /\ lost < MaxLost /\ lost' = lost + 1
        /\ StopLost
        /\ UNCHANGED <<bufferVars, pending, acked, pendingEof, highestOffset,
                       bufferIsEmpty, senderFinished, resetVars, senderGone, sent,
                       inFlight, confirmed>>
  /\ UNCHANGED <<arrived, stopsSent, stopsSeen>>

\* The steps of one endpoint alone.
SenderSteps ==
  /\ \/ \E size \in 0..MaxBytes, end \in BOOLEAN : Write(size, end)
     \/ "reset" \in Aborts /\ Reset
     \/ WritePacket
     \/ DiscardSender
  /\ UNCHANGED <<receiverVars, networkVars>>

ReceiverSteps ==
  /\ DiscardReceiver
  /\ UNCHANGED <<senderVars, networkVars>>

Next ==
  \/ SenderSteps \/ ReceiverSteps
  \/ \E i \in 1..Len(sent) : Arrive(i)
  \/ \E i \in inFlight : FrameReported(i)
  \/ AppStops \/ StopLeaves
  \/ \E i \in 1..stopsSent : StopArrives(i)
  \/ \E i \in stopsOpen : StopReported(i)

Spec == Init /\ [][Next]_pipe

\* The connection goes on writing packets.  Nothing is assumed of the
\* applications, nor of the network: see FatesAreTold.
FairSpec == Spec /\ WF_pipe(WritePacket /\ UNCHANGED <<receiverVars, networkVars>>)

----
\* The two endpoints are a pipe of bytes, whatever the network does.
Pipe == INSTANCE BytePipe WITH
          written <- bufferStop, closed <- bufferFin # None,
          out <- delivered, ended <- ended, aborted <- resetCalled
IsBytePipe == Pipe!PipeSpec

\* stream.py:268: when the sender is done, the reader has been told the end, so
\* that the bytes may go from the buffer and the stream may be discarded.  Only an
\* end that was written after the last byte had left may be missing.
FinishedMeansReceived ==
  senderFinished /\ ~resetCalled => ended \/ EndApart

\* What the sender dropped from its buffer has been received, unless it was
\* reset: the receiver ignores what comes after a reset it has seen.
DroppedWasReceived ==
  ~resetCalled => \A k \in 0..(bufferStart - 1) : k < rStart \/ k \in ranges

\* What is sent is reported, sooner or later.  The code does not see to this: it
\* learns of a loss only from the ACK of a later packet, because its timer is
\* never armed (asyncio/protocol.py:121-127).  A hypothesis, then, that holds of
\* connections on which the peer goes on acknowledging packets.
FatesAreTold == []<>(inFlight = {})

\* As long as fates are told, a stream whose end was written is read to its end,
\* although frames are lost, unless it is reset or its end is one of those that
\* stream.py:209 and :268 lose.
EndIsRead ==
  FatesAreTold => (bufferFin # None ~> ended \/ resetCalled \/ EndMissed)

\* As long as fates are told, a reset stream is finished with, although
\* RESET_STREAM frames are lost and the sender goes on sending what it has.
ResetFinishes == FatesAreTold => (resetCalled ~> senderFinished)

\* stream.py:28: the receiver finishes "upon reception of a STREAM_RESET frame",
\* so that an abort reaches the reader as long as fates are told.
ResetIsSeen == FatesAreTold => (resetCalled ~> receiverFinished)

\* stream.py:61 "we should receive no more data beyond FIN!": without resets two
\* endpoints of this code never make each other raise a FinalSizeError.
FinalSizeKept ==
  [][\A i \in 1..Len(sent) :
       Arrive(i) /\ ~receiverGone /\ ~resetCalled =>
         ~BreaksFinalSize(sent[i].stop, sent[i].fin)]_pipe

\* stream.py:292 asserts that reset() is called once: the STOP_SENDING frame of
\* the peer, and the application, reset a stream that is not being reset yet.
ResetOnce ==
  [][\A i \in 1..stopsSent : StopArrives(i) => senderGone \/ ~resetCalled]_pipe
====
