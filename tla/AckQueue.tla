---- MODULE AckQueue ----
(***************************************************************************)
(* What a connection remembers of the packets it received, for the ACK     *)
(* frames it sends: the part of receive_datagram that reads and records a  *)
(* packet number, the queue of each packet space, and the effect of the    *)
(* peer's word that an ACK frame arrived.                                  *)
(*                                                                         *)
(* The peer and the network are modelled from what the code accepts: the   *)
(* peer numbers its packets upwards and writes as many bits of a number as *)
(* it must given what it knows was received; packets may be lost, late and *)
(* repeated.  A packet whose number is read wrongly cannot be decrypted.   *)
(***************************************************************************)
EXTENDS RangeSet, FiniteSets

CONSTANTS
  Spaces,     \* packet number spaces
  Window,     \* 2^bits of the packet number in a header
  NumberBound \* numbers are below this, 2^62 in the code

ASSUME AckAssumption ==
  /\ Window \in Nat \ {0} /\ Window % 2 = 0
  /\ NumberBound \in Nat /\ NumberBound > Window

VARIABLES
  ackQueue, ackDue, expectedNumber, largestReceived,  \* of each space
  arrived,    \* the numbers ackQueue stands for, kept for the properties
  flying,     \* of each space: packets of the peer that may still arrive
  peerNumber, \* the last one the peer has used
  peerKnows,  \* the largest one it knows was received
  ackFrames   \* the ACK frames sent: written, heard by the peer, confirmed

peerVars == <<flying, peerNumber, peerKnows>>
queueVars == <<ackQueue, ackDue, expectedNumber, largestReceived, arrived>>
ackVars == <<queueVars, peerVars, ackFrames>>

NoFrame == 0
EachSpace(x) == [s \in Spaces |-> x]

AckInit ==
  /\ ackQueue = EachSpace(<< >>) /\ ackDue = EachSpace(FALSE)
  /\ expectedNumber = EachSpace(0) /\ largestReceived = EachSpace(-1)
  /\ arrived = EachSpace({})
  /\ flying = EachSpace({}) /\ peerNumber = EachSpace(-1) /\ peerKnows = EachSpace(-1)
  /\ ackFrames = << >>
----
\* The peer sends a packet, which may say that one of our ACK frames arrived.  Its
\* numbers end before NumberBound.
PeerSends(s, eliciting, confirms) ==
  LET n == peerNumber[s] + 1 IN
  /\ n < NumberBound
  /\ n - peerKnows[s] <= Window \div 2
  /\ confirms = NoFrame \/ (confirms \in DOMAIN ackFrames /\ ackFrames[confirms].space = s
                              /\ ackFrames[confirms].heard)
  /\ peerNumber' = [peerNumber EXCEPT ![s] = n]
  /\ flying' = [flying EXCEPT ![s] =
       @ \cup {[number |-> n, eliciting |-> eliciting, confirms |-> confirms]}]
  /\ UNCHANGED <<queueVars, peerKnows, ackFrames>>

\* The peer hears an ACK frame.
AckHeard(i) ==
  /\ i \in DOMAIN ackFrames /\ ~ackFrames[i].heard
  /\ LET frame == ackFrames[i]
         known == Last(PullAck(frame.wire)).stop - 1
     IN peerKnows' = [peerKnows EXCEPT ![frame.space] = Larger(@, known)]
  /\ ackFrames' = [ackFrames EXCEPT ![i].heard = TRUE]
  /\ UNCHANGED <<queueVars, flying, peerNumber>>

\* The number in a packet as decrypt_packet reads it.
ReadNumber(s, n) ==
  DecodePacketNumber(n % Window, Window, expectedNumber[s], NumberBound)

\* _on_ack_delivery, the first time the peer acknowledges the packet of a frame.
Freed(s, i) == IF i = NoFrame \/ ackFrames[i].confirmed THEN 0
               ELSE ackFrames[i].highest + 1
Without(ranges, below) == IF below > 0 THEN Subtract(ranges, 0, below) ELSE ranges

\* A packet is decrypted; its frames are handled before its number is recorded.
\* The expected number lags behind when the packet is exactly the expected one.
Receive(s, packet) ==
  LET n == packet.number
      below == Freed(s, packet.confirms)
  IN /\ packet \in flying[s]
     /\ ReadNumber(s, n) = n
     /\ expectedNumber' = [expectedNumber EXCEPT ![s] = IF n > @ THEN n + 1 ELSE @]
     /\ largestReceived' = [largestReceived EXCEPT ![s] = Larger(@, n)]
     /\ ackQueue' = [ackQueue EXCEPT ![s] = Add(Without(@, below), n, n + 1)]
     /\ arrived' = [arrived EXCEPT ![s] = {m \in @ : m >= below} \cup {n}]
     /\ ackDue' = [ackDue EXCEPT ![s] = @ \/ packet.eliciting]
     /\ ackFrames' = IF below = 0 THEN ackFrames
                     ELSE [ackFrames EXCEPT ![packet.confirms].confirmed = TRUE]
     /\ UNCHANGED peerVars

\* A packet whose number is read wrongly fails decryption and is dropped.
Misread(s, packet) ==
  /\ packet \in flying[s]
  /\ ReadNumber(s, packet.number) # packet.number
  /\ flying' = [flying EXCEPT ![s] = @ \ {packet}]
  /\ UNCHANGED <<queueVars, peerNumber, peerKnows, ackFrames>>

\* _write_ack_frame.
AckFrame(s) == [space |-> s, wire |-> PushAck(ackQueue[s]), told |-> arrived[s],
                highest |-> largestReceived[s], heard |-> FALSE, confirmed |-> FALSE]
WriteAck(s) ==
  /\ ackFrames' = Append(ackFrames, AckFrame(s))
  /\ ackDue' = [ackDue EXCEPT ![s] = FALSE]
  /\ UNCHANGED <<ackQueue, expectedNumber, largestReceived, arrived, peerVars>>
----
(***************************************************************************)
(* AcksAreExact: what the peer reads from an ACK frame is exactly what had *)
(* arrived and was not yet known to be acknowledged, the queue stays in    *)
(* order without ranges that touch, and an ACK is never due while there is *)
(* nothing to acknowledge (push_ack_frame would raise).                    *)
(***************************************************************************)
AcksAreExact ==
  /\ \A i \in DOMAIN ackFrames : Covered(PullAck(ackFrames[i].wire)) = ackFrames[i].told
  /\ \A s \in Spaces :
       /\ Covered(ackQueue[s]) = arrived[s]
       /\ \A i, j \in DOMAIN ackQueue[s] : i < j => ackQueue[s][i].stop < ackQueue[s][j].start
       /\ ackDue[s] => ackQueue[s] # << >>

(***************************************************************************)
(* NewNumbersAreRead: a packet newer than all that arrived is never        *)
(* misread, though expected_packet_number lags behind by one when packets  *)
(* come in order.                                                          *)
(***************************************************************************)
NewNumbersAreRead ==
  \A s \in Spaces : \A packet \in flying[s] :
    packet.number > largestReceived[s] => ReadNumber(s, packet.number) = packet.number
====
