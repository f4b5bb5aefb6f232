---- MODULE PacketBuilder ----
(***************************************************************************)
(* QuicPacketBuilder (quic/packet_builder.py): frames are put into packets *)
(* and packets into datagrams.  A builder is a record and a method of the  *)
(* class an operator from builders to builders; raising                    *)
(* QuicPacketBuilderStop is the caller's choice on Fits.                   *)
(*                                                                         *)
(* Sizes are real bytes.  max_flight_bytes and max_total_bytes are set     *)
(* nowhere in this fork, so the flight capacity is the buffer's and the    *)
(* counters kept for them are left out, as are the bytes of headers and    *)
(* frames, encryption (which adds a tag) and logging.  A builder remembers *)
(* which packets lie in which datagram, and a packet how many bytes of     *)
(* padding it has and the options it was written with; the code only knows *)
(* the bytes.                                                              *)
(***************************************************************************)
EXTENDS Integers, SequencesExt

CONSTANTS
  PACKET_MAX_SIZE,  \* 1280
  MIN_ROOM,         \* 128, the least room a packet is started in
  TAG_SIZE,         \* 16
  CID_LENGTH, TOKEN_LENGTH,
  None

LongTypes == {"initial", "handshake", "zeroRtt"}

\* start_packet: the flags, version, two connection IDs, a token, the length and
\* four bytes of packet number; a short header has no more than flags, ID, number.
HeaderSize(type) ==
  CASE type = "oneRtt" -> 5 + CID_LENGTH
    [] type = "initial" -> 13 + 2 * CID_LENGTH + TOKEN_LENGTH + (IF TOKEN_LENGTH < 64 THEN 1 ELSE 2)
    [] OTHER -> 13 + 2 * CID_LENGTH

Types == LongTypes \cup {"oneRtt"}
MaxClose == 25   \* room asked for a CONNECTION_CLOSE frame
MaxAck == 64     \* and for an ACK frame

\* A header and a CONNECTION_CLOSE always fit in the least room (a longer Retry
\* token is left out), and in a new datagram an ACK besides.
ASSUME BuilderAssumption ==
  /\ {PACKET_MAX_SIZE, MIN_ROOM, TAG_SIZE, CID_LENGTH, TOKEN_LENGTH} \subseteq Nat
  /\ MIN_ROOM + MaxAck <= PACKET_MAX_SIZE
  /\ \A type \in Types : HeaderSize(type) + MaxClose + TAG_SIZE <= MIN_ROOM

NewBuilder(number, options) ==
  [pos |-> 0, packet |-> None, number |-> number, ackSeen |-> FALSE,
   current |-> << >>, datagrams |-> << >>, options |-> options]

\* remaining_buffer_space, remaining_flight_space, packet_is_empty.
Remaining(b) == PACKET_MAX_SIZE - b.pos - TAG_SIZE
PacketIsEmpty(b) == b.pos - b.packet.start <= HeaderSize(b.packet.type)

\* start_frame: whether there is room, and the frame written.  frameInPacket is
\* never cleared: ackSeen says that some packet of this builder has an ACK frame.
NonAckEliciting == {"ack", "zeroRttAck", "close"}
Fits(b, capacity) == Remaining(b) >= capacity
WithFrame(b, frame, size) ==
  [b EXCEPT !.pos = @ + size,
            !.packet.frames = Append(@, frame),
            !.packet.eliciting = @ \/ frame.kind \notin NonAckEliciting,
            !.ackSeen = @ \/ frame.kind \in {"ack", "zeroRttAck"}]

\* _flush_current_datagram.
FlushedDatagram(b) ==
  IF b.pos = 0 THEN b
  ELSE [b EXCEPT !.datagrams = Append(@, [size |-> b.pos, packets |-> b.current]),
                 !.current = << >>, !.pos = 0]

\* _end_packet: INITIAL packets of the client fill their datagram if the option
\* for packets with, or without, an ACK frame says so.  A malformed packet gets
\* no padding, but two bytes of an unknown frame type if that is asked for.
PaddingElicitingOnly(b) ==   \* (mutant)
  IF b.options.padAll /\ b.options.isClient /\ b.packet.type = "initial"
       /\ b.packet.eliciting /\ Remaining(b) > 0
    THEN Remaining(b) ELSE 0
Padding(b) ==
  IF (IF b.ackSeen THEN b.options.padACK ELSE b.options.padAll)
       /\ b.options.isClient /\ b.packet.type = "initial" /\ Remaining(b) > 0
    THEN Remaining(b) ELSE 0

Filling(b) == IF b.options.malformed = None THEN Padding(b)
              ELSE IF b.options.malformed = "unexpected" THEN 2
              ELSE 0

\* The packet is sealed, or cancelled when it is empty and not meant to be.  No
\* packet follows one with a short header in its datagram.
EndPacket(b) ==
  LET size == b.pos - b.packet.start + Filling(b) + TAG_SIZE
      sealed == [b.packet EXCEPT !.size = size, !.padding = Filling(b)]
      next == [b EXCEPT !.packet = None, !.current = Append(@, sealed),
                        !.pos = b.packet.start + size, !.number = @ + 1]
  IN IF PacketIsEmpty(b) /\ b.options.malformed = None
       THEN [b EXCEPT !.packet = None, !.pos = b.packet.start]
     ELSE IF b.packet.type = "oneRtt" THEN FlushedDatagram(next)
     ELSE next

Ended(b) == IF b.packet = None THEN b ELSE EndPacket(b)

\* start_packet: after the previous packet, in a new datagram if the caller wants
\* one or too little room is left.
StartPacket(b, type, newPacket) ==
  LET ended == Ended(b)
      ready == IF PACKET_MAX_SIZE - ended.pos < MIN_ROOM \/ newPacket
                 THEN FlushedDatagram(ended) ELSE ended
  IN [ready EXCEPT !.pos = @ + HeaderSize(type),
                   !.packet = [type |-> type, start |-> ready.pos, number |-> ready.number,
                               frames |-> << >>, eliciting |-> FALSE, size |-> 0,
                               padding |-> 0, options |-> ready.options]]

\* flush().
Flush(b) == FlushedDatagram(Ended(b))
====
