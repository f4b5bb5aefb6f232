---- MODULE PacketWriter ----
(***************************************************************************)
(* datagrams_to_send in quic/connection.py with the methods it writes      *)
(* packets with, the letters of the mapper that ask for particular         *)
(* packets, and what is due to be sent.                                    *)
(*                                                                         *)
(* One call of datagrams_to_send is taken step by step, about one frame at *)
(* a time, because QuicPacketBuilderStop may end it after any of them; it  *)
(* runs to its end before anything else happens.  Flow control, pacing     *)
(* (never in the way in this fork), deliveries and finished streams belong *)
(* to other modules.  A crypto stream is a stream named by its epoch.      *)
(***************************************************************************)
EXTENDS PacketBuilder, AckQueue

CONSTANTS
  StreamOrder,   \* the streams of the application, in the order of _streams
  Scenes         \* what there is to do, see scene

Epochs == {"initial", "handshake", "zeroRtt", "oneRtt"}
Streams == Range(StreamOrder) \cup Epochs

\* The frames _write_application writes when they are due, in its order; those of
\* EarlyKinds only once the handshake is complete.  Capacity asked for, and size.
EarlyKinds == <<"done", "challenge", "response", "newId", "retire", "blocked", "limit">>
LateKinds == <<"streamLimit", "ping", "probe">>
FrameKinds == Range(EarlyKinds) \cup Range(LateKinds)
Capacity == [done |-> 1, challenge |-> 9, response |-> 9, newId |-> 54, retire |-> 9,
             blocked |-> 9, limit |-> 9, streamLimit |-> 17, ping |-> 1, probe |-> 1,
             ack |-> MaxAck, close |-> MaxClose, stop |-> 17, reset |-> 25]
Size == [done |-> 1, challenge |-> 9, response |-> 9, newId |-> 28, retire |-> 2,
         blocked |-> 3, limit |-> 5, streamLimit |-> 6, ping |-> 1, probe |-> 1,
         close |-> 4, stop |-> 3, reset |-> 5]
AckSize(wire) == 6 + 2 * Len(wire.rest)

\* A frame: its kind, the stream or packet space it is about, what it carries.
AskedKinds == FrameKinds \cup {"reset", "stop", "datagram"}
FrameRecords ==
  [kind : AskedKinds \cup {"zeroRttAck", "close"}] \cup [kind : {"ack"}, of : Spaces]
    \cup [kind : {"crypto"}, of : Epochs, length : Nat]
    \cup [kind : {"stream"}, of : Streams, length : Nat, fin : BOOLEAN]
Options == [isClient : BOOLEAN, padAll : BOOLEAN, padACK : BOOLEAN,
            malformed : {None, "empty", "unexpected"}, from : Nat]
Packets == [type : Types, start : Nat, number : Nat, frames : Seq(FrameRecords),
            eliciting : BOOLEAN, size : Nat, padding : Nat, options : Options]
ASSUME NoneAssumption == None \notin Epochs \cup {"empty", "unexpected"} /\ None \notin Packets

\* A packet space for every epoch but 0-RTT, which shares that of 1-RTT; a scene
\* asks for what there is.
ASSUME SpacesAssumption == Epochs \ {"zeroRtt"} \subseteq Spaces
ASSUME ScenesAssumption ==
  /\ StreamOrder \in Seq(STRING)
  /\ \A s \in Scenes :
       /\ s.keys \subseteq Epochs /\ s.isClient \in BOOLEAN
       /\ DOMAIN s.wants \subseteq FrameKinds /\ \A kind \in DOMAIN s.wants : s.wants[kind] \in Nat
       /\ s.sizes \subseteq Nat /\ s.datagrams \subseteq Nat /\ s.messages \subseteq Nat
       /\ s.hello \in Nat

VARIABLES
  scene,     \* role, keys and progress of the connection; requests allowed in it
  sendEpochType, padAll, padACK, malformed, closePending, zeroRttAck,
  due,       \* how many frames of each kind are to be sent
  left,      \* of each stream: bytes to be sent
  endDue, resetDue, stopDue,  \* streams whose end, reset, stop is to be sent
  datagramsDue,
  packetNumber,
  pc, todo,  \* where datagrams_to_send is, the epochs and streams it has before it
  turns,
  builder,
  letter,    \* the mapper waits for it, to reset its choices
  outbox,    \* datagrams sent so far
  asked, written, ended,  \* what was ever asked for, kept for the properties
  requests, calls         \* bounds: requests made, calls of datagrams_to_send

choiceVars == <<sendEpochType, padAll, padACK, malformed, closePending, zeroRttAck>>
dueVars == <<due, left, endDue, resetDue, stopDue, datagramsDue>>
historyVars == <<asked, written, ended, requests>>
callVars == <<pc, todo, turns, builder, letter, calls>>
vars == <<scene, choiceVars, dueVars, packetNumber, callVars, outbox, historyVars, ackVars>>

Zero(S) == [x \in S |-> 0]

Init ==
  /\ scene \in Scenes
  /\ sendEpochType = None /\ padAll = TRUE /\ padACK = TRUE /\ malformed = None
  /\ closePending = FALSE /\ zeroRttAck = FALSE
  /\ due = Zero(FrameKinds) /\ left = Zero(Streams)
  /\ endDue = {} /\ resetDue = {} /\ stopDue = {} /\ datagramsDue = << >>
  /\ packetNumber = 0
  /\ pc = "idle" /\ todo = << >> /\ turns = << >>
  /\ builder = NewBuilder(0, None) /\ letter = FALSE
  /\ outbox = << >>
  /\ asked = Zero(AskedKinds) /\ written = Zero(Streams) /\ ended = {}
  /\ requests = 0 /\ calls = 0
  /\ AckInit
----
(* What comes to be due.  The scene says what it may ask for, and how often. *)

Request == pc = "idle" /\ requests < scene.requests /\ requests' = requests + 1
Quiet == UNCHANGED <<scene, packetNumber, pc, todo, turns, builder, outbox, calls, ackVars>>

\* A frame of the connection: a path challenge, a limit that has grown, a ping...
\* Only some are kept in lists.
Want(kind) ==
  /\ Request /\ kind \in DOMAIN scene.wants
  /\ due[kind] = 0 \/ kind \in {"newId", "retire"}
  /\ due' = [due EXCEPT ![kind] = @ + scene.wants[kind]]
  /\ asked' = [asked EXCEPT ![kind] = @ + scene.wants[kind]]
  /\ UNCHANGED <<choiceVars, left, endDue, resetDue, stopDue, datagramsDue, letter,
                 written, ended>>
  /\ Quiet

Wrote(x, n) == /\ left' = [left EXCEPT ![x] = @ + n]
               /\ written' = [written EXCEPT ![x] = @ + n]

\* send_stream_data: nothing follows the end or a reset (both are asserted).
SendStream(x, n, end) ==
  /\ Request /\ x \in scene.streams /\ n \in scene.sizes
  /\ x \notin ended /\ asked["reset"] = 0
  /\ n > 0 \/ end
  /\ Wrote(x, n)
  /\ ended' = IF end THEN ended \cup {x} ELSE ended
  /\ endDue' = IF end THEN endDue \cup {x} ELSE endDue
  /\ UNCHANGED <<choiceVars, due, resetDue, stopDue, datagramsDue, letter, asked>>
  /\ Quiet

\* reset_stream and stop_stream, once for a stream.
AbortStream(x, kind) ==
  /\ Request /\ x \in scene.streams /\ scene.aborts
  /\ asked[kind] = 0
  /\ asked' = [asked EXCEPT ![kind] = 1]
  /\ resetDue' = IF kind = "reset" THEN {x} ELSE resetDue
  /\ stopDue' = IF kind = "stop" THEN {x} ELSE stopDue
  /\ UNCHANGED <<choiceVars, due, left, endDue, datagramsDue, letter, written, ended>>
  /\ Quiet

\* send_datagram_frame.  Bound: one that fits no packet would stay for ever, and
\* all that follow.
SendDatagram(n) ==
  /\ Request /\ n \in scene.datagrams
  /\ datagramsDue' = Append(datagramsDue, n)
  /\ asked' = [asked EXCEPT !["datagram"] = @ + 1]
  /\ UNCHANGED <<choiceVars, due, left, endDue, resetDue, stopDue, letter, written, ended>>
  /\ Quiet

\* configureInitialPacketsPadding, and resetPadInitialACK after a response.
ConfigurePadding ==
  /\ Request /\ "padding" \in scene.letters
  /\ padAll' = ~padAll
  /\ UNCHANGED <<sendEpochType, padACK, malformed, closePending, zeroRttAck, dueVars, letter,
                 asked, written, ended>>
  /\ Quiet
ResetPadInitialACK ==
  /\ pc = "idle" /\ padACK' = TRUE
  /\ UNCHANGED <<sendEpochType, padAll, malformed, closePending, zeroRttAck, dueVars, letter,
                 historyVars>>
  /\ Quiet
----
(* The letters of the mapper: each asks and calls transmit() at once. *)

\* Bound: calls of datagrams_to_send.
Begin == pc = "idle" /\ calls < scene.calls /\ pc' = "begin"
Idle == UNCHANGED <<scene, packetNumber, todo, turns, builder, outbox, calls>>
Letter(name) == Request /\ name \in scene.letters /\ Begin /\ letter' = TRUE /\ Idle

\* iClientHelloValidInitialAck, iClientHelloInvalidInitialAck; sendFinished and
\* the other messages of the handshake.
ClientHello(pad) ==
  /\ Letter("hello")
  /\ padACK' = pad /\ sendEpochType' = "initial"
  /\ Wrote("initial", scene.hello)
  /\ UNCHANGED <<padAll, malformed, closePending, zeroRttAck, due, endDue, resetDue, stopDue,
                 datagramsDue, asked, ended, ackVars>>
HandshakeMessage(n) ==
  /\ Letter("finished") /\ n \in scene.messages
  /\ sendEpochType' = "handshake"
  /\ Wrote("handshake", n)
  /\ UNCHANGED <<padAll, padACK, malformed, closePending, zeroRttAck, due, endDue, resetDue,
                 stopDue, datagramsDue, asked, ended, ackVars>>

\* probe(): only in an epoch with keys.
Probe(epoch) ==
  /\ Letter("probe") /\ epoch \in scene.keys
  /\ sendEpochType' = epoch
  /\ due' = [due EXCEPT !["probe"] = 1]
  /\ UNCHANGED <<padAll, padACK, malformed, closePending, zeroRttAck, left, endDue, resetDue,
                 stopDue, datagramsDue, asked, written, ended, ackVars>>

\* emptyPayloadPacket and unexpectedFrameTypePacket, in any long header epoch.
Malformed(epoch, kind) ==
  /\ Letter("malformed")
  /\ sendEpochType' = epoch /\ malformed' = kind
  /\ UNCHANGED <<padAll, padACK, closePending, zeroRttAck, dueVars, asked, written, ended,
                 ackVars>>

\* close(): in the epoch asked for if it has keys, else in the one the handshake
\* has reached.
HandshakeSent == \E i \in DOMAIN outbox : \E j \in DOMAIN outbox[i].packets :
                   outbox[i].packets[j].type = "handshake"
Close(epoch) ==
  /\ Letter("close") /\ epoch \in scene.keys \cup {None}
  /\ closePending' = TRUE
  /\ sendEpochType' = IF epoch # None THEN epoch
                      ELSE IF ~HandshakeSent THEN sendEpochType
                      ELSE IF scene.confirmed THEN "oneRtt" ELSE "handshake"
  /\ UNCHANGED <<padAll, padACK, malformed, zeroRttAck, dueVars, asked, written, ended,
                 ackVars>>

\* ackFrame(): an ACK in a 0-RTT packet.
AckInZeroRtt ==
  /\ Letter("zeroRttAck")
  /\ sendEpochType' = "zeroRtt" /\ zeroRttAck' = TRUE
  /\ UNCHANGED <<padAll, padACK, malformed, closePending, dueVars, asked, written, ended,
                 ackVars>>

\* transmit() without a letter, and after a datagram was received.
Transmit ==
  /\ Begin /\ Idle
  /\ UNCHANGED <<choiceVars, dueVars, letter, historyVars, ackVars>>
DatagramReceived(s, packet) ==
  /\ Receive(s, packet)
  /\ Begin /\ Idle
  /\ UNCHANGED <<choiceVars, dueVars, letter, historyVars>>
DatagramMisread(s, packet) ==
  /\ Misread(s, packet)
  /\ Begin /\ Idle
  /\ UNCHANGED <<choiceVars, dueVars, letter, historyVars>>

\* The peer.  Bounds: packets in each space; only some scenes tell ACK frames that
\* are heard from others and packets that need an ACK from others.
Peer ==
  /\ pc = "idle"
  /\ \/ \E s \in Spaces, eliciting \in BOOLEAN, confirms \in 0..Len(ackFrames) :
          /\ peerNumber[s] + 1 < scene.arrivals[s]
          /\ scene.hears \/ (eliciting /\ confirms = NoFrame)
          /\ PeerSends(s, eliciting, confirms)
     \/ \E i \in DOMAIN ackFrames : scene.hears /\ AckHeard(i)
  /\ UNCHANGED <<scene, choiceVars, dueVars, packetNumber, callVars, outbox, historyVars>>
----
(* datagrams_to_send: which packets it will write. *)

InLong == sendEpochType \in {"initial", "handshake"}
LongEpochs == IF ~scene.confirmed \/ InLong THEN <<"initial", "handshake">> ELSE << >>

PacketEpochs ==
  LongEpochs \o (IF sendEpochType = "zeroRtt" THEN <<"zeroRtt">> ELSE << >>) \o <<"oneRtt">>
CloseEpochs ==
  IF sendEpochType = "zeroRtt" /\ "zeroRtt" \in scene.keys THEN <<"zeroRtt">>
  ELSE LongEpochs \o <<"oneRtt">>

Rest == UNCHANGED <<scene, packetNumber, letter, outbox, historyVars, calls>>
NoAck == UNCHANGED ackVars

\* The options of the builder, and the number of the first packet of this call.
DatagramsToSend ==
  /\ pc = "begin" /\ calls' = calls + 1
  /\ builder' = NewBuilder(packetNumber,
       [isClient |-> scene.isClient, padAll |-> padAll, padACK |-> padACK,
        malformed |-> malformed, from |-> packetNumber])
  /\ IF closePending THEN pc' = "close" /\ todo' = CloseEpochs
     ELSE IF malformed # None THEN pc' = "malformed" /\ todo' = <<sendEpochType>>
     ELSE pc' = "packet" /\ todo' = PacketEpochs
  /\ UNCHANGED <<scene, choiceVars, dueVars, packetNumber, turns, letter, outbox, historyVars>>
  /\ NoAck

\* _write_connection_close_frame, in the epoch asked for or in all, if it has keys; then
\* nothing is pending.
CloseHere == Head(todo) \in scene.keys /\ sendEpochType \in {Head(todo), None}
ClosePacket ==
  /\ pc = "close" /\ todo # << >>
  /\ builder' = IF ~CloseHere THEN builder
                ELSE WithFrame(StartPacket(builder, Head(todo), FALSE),
                               [kind |-> "close"], Size.close)
  /\ todo' = Tail(todo)
  /\ UNCHANGED <<choiceVars, dueVars, pc, turns>> /\ Rest /\ NoAck
CloseWritten ==
  /\ pc = "close" /\ todo = << >>
  /\ closePending' = FALSE /\ sendEpochType' = None
  /\ pc' = "flush"
  /\ UNCHANGED <<padAll, padACK, malformed, zeroRttAck, dueVars, todo, turns, builder>>
  /\ Rest /\ NoAck

\* _write_malformed_packet.
MalformedPacket ==
  /\ pc = "malformed"
  /\ builder' = IF Head(todo) \in scene.keys THEN StartPacket(builder, Head(todo), FALSE)
                ELSE builder
  /\ pc' = "flush" /\ todo' = << >>
  /\ UNCHANGED <<choiceVars, dueVars, turns>> /\ Rest /\ NoAck

NoKeys ==
  /\ pc = "packet" /\ todo # << >> /\ Head(todo) \notin scene.keys
  /\ todo' = Tail(todo)
  /\ UNCHANGED <<choiceVars, dueVars, pc, turns, builder>> /\ Rest /\ NoAck

\* The end of the try block: reached only if nothing raised.
PacketsWritten ==
  /\ pc = "packet" /\ todo = << >>
  /\ sendEpochType' = None
  /\ pc' = "flush"
  /\ UNCHANGED <<padAll, padACK, malformed, closePending, zeroRttAck, dueVars, todo, turns,
                 builder>>
  /\ Rest /\ NoAck

\* The last packet ends; its number is used up only if there is a datagram.
\* (mutant)
FlushBuilderLate ==
  /\ pc = "flush"
  /\ LET flushed == Flush(builder) IN
     /\ outbox' = outbox \o flushed.datagrams
     /\ packetNumber' = IF flushed.datagrams = << >> THEN packetNumber ELSE builder.number
  /\ builder' = NewBuilder(0, None)
  /\ pc' = "idle" /\ letter' = FALSE
  /\ IF letter THEN sendEpochType' = None /\ malformed' = None
     ELSE UNCHANGED <<sendEpochType, malformed>>
  /\ UNCHANGED <<scene, padAll, padACK, closePending, zeroRttAck, dueVars, todo, turns,
                 historyVars, calls>>
  /\ NoAck
FlushBuilder ==
  /\ pc = "flush"
  /\ LET flushed == Flush(builder) IN
     /\ outbox' = outbox \o flushed.datagrams
     /\ packetNumber' = IF flushed.datagrams = << >> THEN packetNumber ELSE flushed.number
  /\ builder' = NewBuilder(0, None)
  /\ pc' = "idle" /\ letter' = FALSE
  /\ IF letter THEN sendEpochType' = None /\ malformed' = None   \* resetSendEpochType
     ELSE UNCHANGED <<sendEpochType, malformed>>
  /\ UNCHANGED <<scene, padAll, padACK, closePending, zeroRttAck, dueVars, todo, turns,
                 historyVars, calls>>
  /\ NoAck
----
(* _write_handshake: one packet with all its frames, until one stays empty. *)

OffsetSize(n) == IF n < 64 THEN 1 ELSE 2
CryptoOverhead(x) == 3 + OffsetSize(written[x] - left[x])

\* get_frame: as much as fits; a fragment of nothing is no frame.
Fragment(b, x, overhead) == Larger(0, Smaller(left[x], Remaining(b) - overhead))
WithCrypto(b, x) ==
  LET n == Fragment(b, x, CryptoOverhead(x))
  IN IF n = 0 THEN b
     ELSE WithFrame(b, [kind |-> "crypto", of |-> x, length |-> n], CryptoOverhead(x) + n)
WithAck(b, s) ==
  IF ackDue[s] THEN WithFrame(b, [kind |-> "ack", of |-> s], AckSize(AckFrame(s).wire)) ELSE b
WithPing(b, pings) == IF pings THEN WithFrame(b, [kind |-> "probe"], 1) ELSE b

HandshakePacket ==
  /\ pc = "packet" /\ todo # << >> /\ Head(todo) \in {"initial", "handshake"} \cap scene.keys
  /\ LET e == Head(todo)
         acked == WithAck(StartPacket(builder, e, TRUE), e)
         n == Fragment(acked, e, CryptoOverhead(e))
         pings == sendEpochType = e /\ due["probe"] > 0 /\ n = 0
     IN /\ builder' = WithPing(WithCrypto(acked, e), pings)
        /\ left' = [left EXCEPT ![e] = @ - n]
        /\ due' = IF pings \/ n > 0 THEN [due EXCEPT !["probe"] = 0] ELSE due
        /\ sendEpochType' = IF pings THEN None ELSE sendEpochType
        /\ IF ackDue[e] THEN WriteAck(e) ELSE NoAck
        /\ todo' = IF PacketIsEmpty(builder') THEN Tail(todo) ELSE todo
  /\ UNCHANGED <<padAll, padACK, malformed, closePending, zeroRttAck, endDue, resetDue, stopDue,
                 datagramsDue, pc, turns>>
  /\ Rest
----
(* _write_application: packets of 0-RTT or 1-RTT, until one stays empty. *)

StartApplication ==
  /\ pc = "packet" /\ todo # << >> /\ Head(todo) \in {"zeroRtt", "oneRtt"} \cap scene.keys
  /\ builder' = StartPacket(builder, Head(todo), FALSE)
  /\ pc' = "control"
  /\ UNCHANGED <<choiceVars, dueVars, todo, turns>> /\ Rest /\ NoAck

\* An ACK in 0-RTT takes the place of all that a complete handshake allows.
ZeroRttAckHere == Head(todo) = "zeroRtt"
                    /\ (zeroRttAck \/ [kind |-> "zeroRttAck"] \in Range(builder.packet.frames))
Complete == scene.complete /\ ~ZeroRttAckHere
NextKinds == (IF Complete THEN EarlyKinds ELSE << >>) \o LateKinds
DueKinds == {i \in DOMAIN NextKinds : due[NextKinds[i]] > 0}

WriteZeroRttAck ==
  /\ pc = "control" /\ Head(todo) = "zeroRtt" /\ zeroRttAck
  /\ builder' = IF Fits(builder, Capacity.ack)
                  THEN WithFrame(builder, [kind |-> "zeroRttAck"], 6) ELSE builder
  /\ zeroRttAck' = FALSE
  /\ UNCHANGED <<sendEpochType, padAll, padACK, malformed, closePending, dueVars, pc, todo,
                 turns>>
  /\ Rest /\ NoAck

AckIsFirst == Complete /\ ackDue["oneRtt"]
WriteApplicationAck ==
  /\ pc = "control" /\ ~(Head(todo) = "zeroRtt" /\ zeroRttAck) /\ AckIsFirst
  /\ IF Fits(builder, Capacity.ack)
       THEN builder' = WithAck(builder, "oneRtt") /\ WriteAck("oneRtt") /\ pc' = pc
       ELSE builder' = builder /\ NoAck /\ pc' = "flush"
  /\ UNCHANGED <<choiceVars, dueVars, todo, turns>> /\ Rest

\* A frame is written and only then is it no longer due; without room for it
\* QuicPacketBuilderStop ends datagrams_to_send.
WriteControl ==
  /\ pc = "control" /\ ~(Head(todo) = "zeroRtt" /\ zeroRttAck) /\ ~AckIsFirst
  /\ DueKinds # {}
  /\ LET k == NextKinds[Min(DueKinds)] IN
     IF Fits(builder, Capacity[k])
       THEN /\ builder' = WithFrame(builder, [kind |-> k], Size[k])
            /\ due' = [due EXCEPT ![k] = @ - 1]
            /\ pc' = pc
       ELSE builder' = builder /\ due' = due /\ pc' = "flush"
  /\ UNCHANGED <<choiceVars, left, endDue, resetDue, stopDue, datagramsDue, todo, turns>>
  /\ Rest /\ NoAck

\* The CRYPTO frame of the epoch.
ControlWritten ==
  /\ pc = "control" /\ ~(Head(todo) = "zeroRtt" /\ zeroRttAck) /\ ~AckIsFirst
  /\ DueKinds = {}
  /\ builder' = WithCrypto(builder, Head(todo))
  /\ left' = [left EXCEPT ![Head(todo)] =
                @ - Fragment(builder, Head(todo), CryptoOverhead(Head(todo)))]
  /\ pc' = "datagrams"
  /\ UNCHANGED <<choiceVars, due, endDue, resetDue, stopDue, datagramsDue, todo, turns>>
  /\ Rest /\ NoAck

\* DATAGRAM frames while they fit: here the missing room is not the end.
DatagramSize(n) == 1 + OffsetSize(n) + n
WriteDatagram ==
  /\ pc = "datagrams"
  /\ IF datagramsDue # << >> /\ Fits(builder, DatagramSize(Head(datagramsDue)))
       THEN /\ builder' = WithFrame(builder, [kind |-> "datagram"],
                                    DatagramSize(Head(datagramsDue)))
            /\ datagramsDue' = Tail(datagramsDue)
            /\ UNCHANGED <<pc, turns>>
       ELSE /\ pc' = "streams" /\ turns' = StreamOrder
            /\ UNCHANGED <<builder, datagramsDue>>
  /\ UNCHANGED <<choiceVars, due, left, endDue, resetDue, stopDue, todo>> /\ Rest /\ NoAck

\* STOP_SENDING, then RESET_STREAM or else STREAM.
WriteStop ==
  /\ pc = "streams" /\ turns # << >> /\ Head(turns) \in stopDue
  /\ IF Fits(builder, Capacity.stop)
       THEN /\ builder' = WithFrame(builder, [kind |-> "stop"], Size.stop)
            /\ stopDue' = stopDue \ {Head(turns)} /\ pc' = pc
       ELSE builder' = builder /\ stopDue' = stopDue /\ pc' = "flush"
  /\ UNCHANGED <<choiceVars, due, left, endDue, resetDue, datagramsDue, todo, turns>>
  /\ Rest /\ NoAck
\* (mutant)
WriteResetTaken ==
  /\ pc = "streams" /\ turns # << >> /\ Head(turns) \in resetDue \ stopDue
  /\ resetDue' = resetDue \ {Head(turns)}
  /\ IF Fits(builder, Capacity.reset)
       THEN /\ builder' = WithFrame(builder, [kind |-> "reset"], Size.reset)
            /\ turns' = Tail(turns) /\ pc' = pc
       ELSE UNCHANGED <<builder, turns>> /\ pc' = "flush"
  /\ UNCHANGED <<choiceVars, due, left, endDue, stopDue, datagramsDue, todo>> /\ Rest /\ NoAck
WriteReset ==
  /\ pc = "streams" /\ turns # << >> /\ Head(turns) \in resetDue \ stopDue
  /\ IF Fits(builder, Capacity.reset)
       THEN /\ builder' = WithFrame(builder, [kind |-> "reset"], Size.reset)
            /\ resetDue' = resetDue \ {Head(turns)}
            /\ turns' = Tail(turns) /\ pc' = pc
       ELSE UNCHANGED <<builder, resetDue, turns>> /\ pc' = "flush"
  /\ UNCHANGED <<choiceVars, due, left, endDue, stopDue, datagramsDue, todo>> /\ Rest /\ NoAck

\* get_frame gives out the end before start_frame looks for room.
StreamOverhead(x) ==
  LET offset == written[x] - left[x] IN 4 + (IF offset = 0 THEN 0 ELSE OffsetSize(offset))
StreamFrame(x, n, fin) == [kind |-> "stream", of |-> x, length |-> n, fin |-> fin]
WriteStream ==
  /\ pc = "streams" /\ turns # << >> /\ Head(turns) \notin resetDue \cup stopDue
  /\ LET x == Head(turns)
         n == Fragment(builder, x, StreamOverhead(x))
         fin == x \in endDue /\ n = left[x]
     IN IF n > 0 \/ (fin /\ Fits(builder, StreamOverhead(x)))
          THEN /\ builder' = WithFrame(builder, StreamFrame(x, n, fin), StreamOverhead(x) + n)
               /\ left' = [left EXCEPT ![x] = @ - n]
               /\ endDue' = IF fin THEN endDue \ {x} ELSE endDue
               /\ turns' = Tail(turns) /\ pc' = pc
        ELSE IF fin
          THEN /\ endDue' = endDue \ {x} /\ pc' = "flush"
               /\ UNCHANGED <<builder, left, turns>>
        ELSE turns' = Tail(turns) /\ UNCHANGED <<builder, left, endDue, pc>>
  /\ UNCHANGED <<choiceVars, due, resetDue, stopDue, datagramsDue, todo>> /\ Rest /\ NoAck

StreamsWritten ==
  /\ pc = "streams" /\ turns = << >>
  /\ todo' = IF PacketIsEmpty(builder) THEN Tail(todo) ELSE todo
  /\ pc' = "packet"
  /\ UNCHANGED <<choiceVars, dueVars, turns, builder>> /\ Rest /\ NoAck
----
Requests ==
  \/ \E kind \in FrameKinds : Want(kind)
  \/ \E x \in Range(StreamOrder), n \in scene.sizes, end \in BOOLEAN : SendStream(x, n, end)
  \/ \E x \in Range(StreamOrder), kind \in {"reset", "stop"} : AbortStream(x, kind)
  \/ \E n \in scene.datagrams : SendDatagram(n)
  \/ ConfigurePadding \/ ResetPadInitialACK
  \/ \E pad \in BOOLEAN : ClientHello(pad)
  \/ \E n \in scene.messages : HandshakeMessage(n)
  \/ \E epoch \in Epochs : Probe(epoch)
  \/ \E epoch \in LongTypes, kind \in {"empty", "unexpected"} : Malformed(epoch, kind)
  \/ \E epoch \in Epochs \cup {None} : Close(epoch)
  \/ AckInZeroRtt
  \/ Transmit
  \/ \E s \in Spaces : \E packet \in flying[s] :
       \/ DatagramReceived(s, packet) \/ DatagramMisread(s, packet)
  \/ Peer

Step ==
  \/ DatagramsToSend \/ FlushBuilder
  \/ ClosePacket \/ CloseWritten \/ MalformedPacket
  \/ NoKeys \/ PacketsWritten \/ HandshakePacket
  \/ StartApplication \/ WriteZeroRttAck \/ WriteApplicationAck \/ WriteControl
  \/ ControlWritten \/ WriteDatagram
  \/ WriteStop \/ WriteReset \/ WriteStream \/ StreamsWritten

Next == Requests \/ Step
Spec == Init /\ [][Next]_vars

\* A call of datagrams_to_send is code that runs.
FairSpec == Spec /\ WF_vars(Step)
----
PacketsOf(datagrams) == FlattenSeq([i \in DOMAIN datagrams |-> datagrams[i].packets])
SentPackets == PacketsOf(outbox)
WrittenPackets == SentPackets \o PacketsOf(builder.datagrams) \o builder.current
                \o (IF builder.packet = None THEN << >> ELSE <<builder.packet>>)
Frames == LET packets == WrittenPackets
          IN FlattenSeq([i \in DOMAIN packets |-> packets[i].frames])
Count(frames, kind) == Cardinality({i \in DOMAIN frames : frames[i].kind = kind})
Bytes(frame, x) ==
  IF frame.kind \in {"crypto", "stream"} /\ frame.of = x THEN frame.length ELSE 0
Carried(frames, x) ==
  LET upTo[i \in 0..Len(frames)] == IF i = 0 THEN 0 ELSE upTo[i - 1] + Bytes(frames[i], x)
  IN upTo[Len(frames)]

(***************************************************************************)
(* RequestedIsDueOrSent: whatever QuicPacketBuilderStop interrupts, every  *)
(* frame and every byte ever asked for is still to be sent or is in a      *)
(* packet, once: none is forgotten between being taken and being written.  *)
(* Pings of the mapper are left out (CRYPTO data makes one unnecessary)    *)
(* and so is the end of a stream, see EndIsDueOrSent.                      *)
(***************************************************************************)
RequestedIsDueOrSent ==
  LET frames == Frames IN
  /\ \A kind \in FrameKinds \ {"probe"} : asked[kind] = due[kind] + Count(frames, kind)
  /\ asked["reset"] = Cardinality(resetDue) + Count(frames, "reset")
  /\ asked["stop"] = Cardinality(stopDue) + Count(frames, "stop")
  /\ asked["datagram"] = Len(datagramsDue) + Count(frames, "datagram")
  /\ \A x \in Streams : written[x] = left[x] + Carried(frames, x)

(***************************************************************************)
(* EndIsDueOrSent: the end of a stream that was asked for with end_stream  *)
(* is still to be sent, or a frame carries the FIN bit.                    *)
(***************************************************************************)
EndIsDueOrSent ==
  \A x \in ended \ endDue : \E i \in DOMAIN Frames :
    Frames[i].kind = "stream" /\ Frames[i].of = x /\ Frames[i].fin

(***************************************************************************)
(* PaddingAsConfigured: a well-formed INITIAL packet of the client fills   *)
(* its datagram if the option that applies to it says so, and has no byte  *)
(* of padding if not: the option for packets with an ACK frame (a letter   *)
(* may switch it off) from the first one of a call that holds one, and     *)
(* until then the one for all others.  No other packet, of this call or an *)
(* earlier one, has a say in it.                                           *)
(***************************************************************************)
HasAck(packet) == \E i \in DOMAIN packet.frames : packet.frames[i].kind = "ack"
FillsDatagram(packet) == packet.start + packet.size = PACKET_MAX_SIZE
PaddingChosen(packet) == packet.type = "initial" /\ packet.options.isClient
                           /\ packet.options.malformed = None
AckInCall(packets, i) ==
  \E j \in packets[i].options.from + 1..i : packets[j].type = "initial" /\ HasAck(packets[j])
PaddedAs(packet, padding) == IF padding THEN FillsDatagram(packet) ELSE packet.padding = 0
PaddingAsConfigured ==
  \A i \in DOMAIN SentPackets :
    LET packet == SentPackets[i]
    IN PaddingChosen(packet) =>
         PaddedAs(packet, IF AckInCall(SentPackets, i) THEN packet.options.padACK
                          ELSE packet.options.padAll)

(***************************************************************************)
(* PaddedForItsFrames: what packet_builder.py says of frameInPacket, that  *)
(* it tracks what frames are in the packet.  Then the option would go by   *)
(* the frames of the packet alone; with an ACK in the first packet of two  *)
(* (the scene long) it does not.                                           *)
(***************************************************************************)
PaddedForItsFrames ==
  \A i \in DOMAIN SentPackets :
    LET packet == SentPackets[i]
    IN PaddingChosen(packet) =>
         PaddedAs(packet, IF HasAck(packet) THEN packet.options.padACK
                          ELSE packet.options.padAll)

(***************************************************************************)
(* PacketsAddUp: packet numbers (with the key they make the nonce) go up   *)
(* by one from packet to packet over all calls, even those that end early  *)
(* or cancel packets; each packet lies in one datagram, of no more than    *)
(* PACKET_MAX_SIZE bytes, and none follows one with a short header.        *)
(***************************************************************************)
PacketsAddUp ==
  /\ \A i \in DOMAIN SentPackets : SentPackets[i].number = i - 1
  /\ packetNumber = Len(SentPackets)
  /\ \A i \in DOMAIN outbox :
       LET packets == outbox[i].packets IN
       /\ outbox[i].size <= PACKET_MAX_SIZE
       /\ packets # << >>
       /\ \A j \in DOMAIN packets :
            /\ packets[j].start + packets[j].size =
                 IF j = Len(packets) THEN outbox[i].size ELSE packets[j + 1].start
            /\ packets[j].type = "oneRtt" => j = Len(packets)

(***************************************************************************)
(* Returns: every call of datagrams_to_send comes to an end, though it     *)
(* goes on writing packets as long as one is not empty.                    *)
(***************************************************************************)
Returns == pc # "idle" ~> pc = "idle"
====
