---- MODULE Application ----
(***************************************************************************)
(* The 1-RTT packets of a connection: connection IDs, limits and the queue *)
(* of packet numbers to acknowledge, over a network that loses, repeats    *)
(* and reorders, with a server that keeps to what it was told.  The client *)
(* answers every datagram with a transmit (datagram_received), whose       *)
(* frames are taken as one packet; a server's packet has one frame.        *)
(***************************************************************************)
EXTENDS ConnectionIds, FlowControl

CONSTANTS
  IdLimit,     \* the server's active_connection_id_limit
  Themes,      \* sets of what happens in one behaviour: the kinds of frames the
               \* server sends and the orders "ids", "badIds", "original", "write"
  UsedIds,     \* IDs of the client that the server sends to or retires
  MaxSent,     \* packets of the client
  MaxServer,   \* packets of the server
  MaxLost      \* packets of the client reported lost

ASSUME ApplicationAssumption ==
  /\ IdLimit \in Nat /\ IdLimit >= 2
  /\ {MaxSent, MaxServer, MaxLost} \subseteq Nat

VARIABLES
  theme,      \* what may happen in this behaviour, one of Themes
  ids, flow,  \* see ConnectionIds and FlowControl
  acks,       \* ack_queue, whether ack_at is set, largest_received_packet
  complete,   \* _handshake_complete
  asked,      \* writeNCID of the mapper
  sent,       \* the packets of the client: frames, fate, arrived at the server
  server,     \* what the server knows and has granted
  net,        \* its packets; the network never forgets one
  got,        \* ack-eliciting packets that were recorded,
  reported,   \* packets some ACK frame has named,
  refused,    \* a frame was refused
  repeated    \* a frame was handled for a stream that was reset already

clientVars == <<ids, flow, acks, complete, asked>>
historyVars == <<got, reported, refused, repeated>>
vars == <<theme, clientVars, sent, server, net, historyVars>>

FreshServer ==
  [max |-> LocalData, count |-> LocalStreams, limit |-> [s \in Remote |-> LocalStreamData],
   out |-> [s \in Remote |-> 0], reset |-> {},
   grant |-> RemoteData, grantCount |-> RemoteStreams,
   grantLimit |-> [s \in Local |-> RemoteStreamData],
   next |-> 1, prior |-> 0, dropped |-> {}, hosts |-> {0}, retired |-> {}]

Init ==
  /\ theme \in Themes
  /\ ids = FreshIds /\ flow = FreshFlow
  /\ acks = [queue |-> {}, due |-> FALSE, largest |-> 0]
  /\ complete = FALSE /\ asked = FALSE
  /\ sent = <<>> /\ server = FreshServer /\ net = {}
  /\ got = {} /\ reported = {} /\ refused = FALSE /\ repeated = FALSE

Fates == {"out", "acked", "lost"}
TypeOK ==
  /\ ids \in IdRecords
  /\ acks.queue \subseteq Nat /\ acks.due \in BOOLEAN /\ acks.largest \in Nat
  /\ \A b \in {complete, asked, refused, repeated, flow.tell} : b \in BOOLEAN
  /\ flow.used \in Nat /\ flow.data.used \in 0..flow.data.value
  /\ \A n \in DOMAIN sent : sent[n].fate \in Fates /\ sent[n].arrived \in BOOLEAN
  /\ got \cup reported \subseteq 1..MaxServer

(***************************************************************************)
(* Sending.                                                                *)
(***************************************************************************)
\* _write_ack_frame and the frames of _write_application.
AckFrames(a, done) ==
  IF done /\ a.due THEN {[kind |-> "ack", value |-> a.largest]} ELSE {}
AllFrames(i, f, a, done) ==
  AckFrames(a, done) \cup (IF done THEN IdFrames(i) ELSE {}) \cup FlowFrames(f, done)

\* What a step that leaves i, f, a behind sends.  fates: packets so far.
Transmit(i, f, a, done, fates) ==
  LET frames == AllFrames(i, f, a, done) IN
  /\ Len(fates) < MaxSent \/ frames = {}
  /\ ids' = IF done THEN IdsWritten(i) ELSE i
  /\ flow' = Flow(f, done)
  /\ acks' = [a EXCEPT !.due = @ /\ ~done]
  /\ reported' = IF AckFrames(a, done) # {} THEN reported \cup a.queue ELSE reported
  /\ sent' = IF frames = {} THEN fates
             ELSE Append(fates, [frames |-> frames, fate |-> "out", arrived |-> FALSE])

(***************************************************************************)
(* The letters and calls of the client.                                    *)
(***************************************************************************)
\* hFinished.
Finish ==
  /\ ~complete /\ complete' = TRUE
  /\ Transmit(ids, flow, acks, TRUE, sent)
  /\ UNCHANGED <<theme, asked, server, net, got, refused, repeated>>

\* sValidNewConnectionID and sInvalidNewConnectionID, once.
SendIds ==
  /\ complete /\ ~asked /\ asked' = TRUE
  /\ \/ "ids" \in theme /\ Transmit(Replenish(ids, IdLimit), flow, acks, TRUE, sent)
     \/ "badIds" \in theme /\ Transmit(IssueTooMany(ids, IdLimit), flow, acks, TRUE, sent)
  /\ UNCHANGED <<theme, complete, server, net, got, refused, repeated>>

ChangeDestination ==
  /\ "original" \in theme /\ ~ids.orig
  /\ ids' = UseOriginal(ids)
  /\ UNCHANGED <<theme, flow, acks, complete, asked, sent, server, net, historyVars>>

\* send_stream_data and transmit; new streams in order, as get_next_available_stream_id.
WriteData(s) ==
  /\ "write" \in theme /\ flow.out[s].written < 2
  /\ s <= Len(flow.open)
  /\ Transmit(ids, Write(flow, s, 1), acks, complete, sent)
  /\ UNCHANGED <<theme, complete, asked, server, net, got, refused, repeated>>

(***************************************************************************)
(* Packets of the server.                                                  *)
(***************************************************************************)

\* _on_ack_delivery for the ACK frames of acknowledged packets.
AcksKnown(a, S) ==
  LET largest == {fr.value : fr \in {x \in UNION {sent[n].frames : n \in S} : x.kind = "ack"}}
  IN [a EXCEPT !.queue = {q \in @ : \A l \in largest : q > l}]

LostFrames(S) == UNION {sent[n].frames : n \in S}

\* _handle_ack_frame: S is acknowledged, and of the older packets L is lost.
HandleAck(S, L) ==
  LET back == LostFrames(L) IN
  [ids  |-> IdsLost(ids, back),
   flow |-> LimitsLost(flow, back),
   acks |-> AcksKnown(acks, S),
   sent |-> [n \in DOMAIN sent |->
               [sent[n] EXCEPT !.fate = IF n \in S THEN "acked"
                                        ELSE IF n \in L THEN "lost" ELSE @]]]

Same == [ids |-> ids, flow |-> flow, acks |-> acks, sent |-> sent]

\* What the handler of a frame leaves behind.
Handle(fr, to, L) ==
  CASE fr.kind = "newId" -> [Same EXCEPT !.ids = NewId(ids, fr.value, fr.prior)]
    [] fr.kind = "retire" -> [Same EXCEPT !.ids = RetireId(ids, fr.value, to, IdLimit)]
    [] fr.kind = "maxData" -> [Same EXCEPT !.flow = MaxData(flow, fr.value)]
    [] fr.kind = "maxStreams" -> [Same EXCEPT !.flow = MaxStreams(flow, fr.value)]
    [] fr.kind = "maxStreamData" -> [Same EXCEPT !.flow = MaxStreamData(flow, fr.stream, fr.value)]
    [] fr.kind = "data" -> [Same EXCEPT !.flow = StreamData(flow, fr.stream, fr.value)]
    [] fr.kind = "reset" -> [Same EXCEPT !.flow = StreamReset(flow, fr.stream, fr.value)]
    [] fr.kind = "ack" -> HandleAck({n \in fr.packets : sent[n].fate = "out"}, L)

\* The packet is recorded whether or not its frame was refused.
Record(a, pn, eliciting) ==
  [queue |-> a.queue \cup {pn}, due |-> a.due \/ eliciting, largest |-> Larger(a.largest, pn)]

\* Packets an acknowledgement may declare lost.
MayBeLost(fr) ==
  IF fr.kind # "ack" THEN {{}}
  ELSE LET new == {n \in fr.packets : sent[n].fate = "out"}
           old == {n \in DOMAIN sent : sent[n].fate = "out" /\ \E m \in new : n < m} \ new
           before == {n \in DOMAIN sent : sent[n].fate = "lost"}
       IN {L \in SUBSET old : Cardinality(L \cup before) <= MaxLost}

\* receive_datagram and the transmit after it.
Receive(p) ==
  LET fr == p.frame
      eliciting == fr.kind # "ack"
  IN /\ p.to \in ids.host
     /\ \E L \in MayBeLost(fr) :
          LET h == Handle(fr, p.to, L) IN
          Transmit(h.ids, h.flow, Record(h.acks, p.number, eliciting), complete, h.sent)
     /\ got' = IF eliciting THEN got \cup {p.number} ELSE got
     /\ refused' = (refused \/ (fr.kind \in {"data", "reset"} /\ Refused(flow, fr.stream, fr.value))
                            \/ (fr.kind = "retire" /\ RetireRefused(ids, fr.value, p.to)))
     /\ repeated' = (repeated \/ (fr.kind \in {"data", "reset"} /\ flow.in[fr.stream].final # 0))
     /\ UNCHANGED <<theme, complete, asked, server, net>>

(***************************************************************************)
(* The server.  It sends to any ID it was given, keeps to the limits it    *)
(* was told, and may acknowledge any packet that arrived.                  *)
(***************************************************************************)
Values(frames, kind) == {fr.value : fr \in {x \in frames : x.kind = kind}}
StreamValues(frames, s) ==
  {fr.value : fr \in {x \in frames : x.kind = "maxStreamData" /\ x.stream = s}}
Learned(v, frames) ==
  [v EXCEPT !.max = Max({@} \cup Values(frames, "maxData")),
            !.count = Max({@} \cup Values(frames, "maxStreams")),
            !.limit = [s \in Remote |-> Max({@[s]} \cup StreamValues(frames, s))],
            !.hosts = @ \cup Values(frames, "newId"),
            !.dropped = @ \cup Values(frames, "retire")]

Arrive(n) ==
  /\ ~sent[n].arrived
  /\ sent' = [sent EXCEPT ![n].arrived = TRUE]
  /\ server' = Learned(server, sent[n].frames)
  /\ UNCHANGED <<theme, clientVars, net, historyVars>>

SentTotal == Total(server.out)
Mine == {n \in 0..(server.next - 1) : n >= server.prior} \ server.dropped

ServerSends(fr, v) ==
  /\ Cardinality(net) < MaxServer /\ fr.kind \in theme
  /\ \E to \in (server.hosts \cap UsedIds) \ v.retired :
       net' = net \cup {[number |-> Cardinality(net) + 1, to |-> to, frame |-> fr]}
  /\ server' = v
  /\ UNCHANGED <<theme, clientVars, sent, historyVars>>

ServerNewId ==
  \E prior \in {server.prior, server.next} :
    /\ Cardinality({n \in Mine : n >= prior}) < 2
    /\ ServerSends([kind |-> "newId", value |-> server.next, prior |-> prior],
                   [server EXCEPT !.next = @ + 1, !.prior = prior])

ServerRetire ==
  \E h \in (server.hosts \cap UsedIds) \ server.retired :
    ServerSends([kind |-> "retire", value |-> h], [server EXCEPT !.retired = @ \cup {h}])

ServerGrants ==
  \/ ServerSends([kind |-> "maxData", value |-> server.grant + 1], [server EXCEPT !.grant = @ + 1])
  \/ ServerSends([kind |-> "maxStreams", value |-> server.grantCount + 1],
                 [server EXCEPT !.grantCount = @ + 1])
  \/ \E s \in Local :
       /\ flow.out[s].highest > 0
       /\ ServerSends([kind |-> "maxStreamData", stream |-> s, value |-> server.grantLimit[s] + 1],
                      [server EXCEPT !.grantLimit[s] = @ + 1])

ServerData ==
  \E s \in Remote \ server.reset :
    /\ s < server.count /\ server.out[s] < server.limit[s] /\ SentTotal < server.max
    /\ ServerSends([kind |-> "data", stream |-> s, value |-> server.out[s] + 1],
                   [server EXCEPT !.out[s] = @ + 1])

ServerReset ==
  \E s \in Remote \ server.reset :
    /\ server.out[s] > 0
    /\ ServerSends([kind |-> "reset", stream |-> s, value |-> server.out[s]],
                   [server EXCEPT !.reset = @ \cup {s}])

ServerAck ==
  LET arrived == {n \in DOMAIN sent : sent[n].arrived /\ sent[n].fate # "acked"} IN
  \E S \in {arrived} \cup {{n} : n \in arrived} :
    S # {} /\ ServerSends([kind |-> "ack", packets |-> S], server)

Next ==
  \/ Finish \/ SendIds \/ ChangeDestination
  \/ \E s \in Local : WriteData(s)
  \/ \E p \in net : Receive(p)
  \/ \E n \in DOMAIN sent : Arrive(n)
  \/ ServerNewId \/ ServerRetire \/ ServerGrants \/ ServerData \/ ServerReset \/ ServerAck

Spec == Init /\ [][Next]_vars

(***************************************************************************)
(* Properties.                                                             *)
(***************************************************************************)
\* A frame that still counts on its way.
OnItsWay(fr) == \E n \in DOMAIN sent : fr \in sent[n].frames /\ sent[n].fate # "lost"

\* Every ID the server ever gave is in use, kept for later, or its retirement is
\* due, on its way or acknowledged; an ID of the client is announced in the same
\* way.  Frames may be lost at any time; only the destination letter of the
\* mapper, which uses IDs up unused, is left out.
IdsNotForgotten ==
  /\ ~ids.orig => \A n \in Known(ids) :
       \/ n = ids.dst
       \/ n \in ids.available \cup ids.retire
       \/ OnItsWay([kind |-> "retire", value |-> n])
  /\ \A n \in ids.host \ ({0} \cup ids.unsent) : OnItsWay([kind |-> "newId", value |-> n])

\* The ID in use is never one whose retirement was announced.
NoRetiredIdInUse ==
  ~ids.orig => /\ ids.dst \notin ids.retire
               /\ ~OnItsWay([kind |-> "retire", value |-> ids.dst])

\* A limit the client counts as told is the first one, on its way or known: the
\* server is never left with an older one that nothing will raise.
LimitsNotForgotten ==
  /\ flow.data.sent = flow.data.value /\ flow.data.value # LocalData =>
       OnItsWay([kind |-> "maxData", value |-> flow.data.value])
  /\ flow.count.sent = flow.count.value /\ flow.count.value # LocalStreams =>
       OnItsWay([kind |-> "maxStreams", value |-> flow.count.value])
  /\ \A s \in Remote :
       flow.in[s].sent = flow.in[s].limit /\ flow.in[s].limit # LocalStreamData =>
         OnItsWay([kind |-> "maxStreamData", stream |-> s, value |-> flow.in[s].limit])

\* The client keeps to the limits of the server, and its count of the bytes sent
\* is the sum over the streams.
SendsWithinLimits ==
  LET high == [s \in Local |-> flow.out[s].highest] IN
  /\ flow.used = Total(high) /\ flow.used <= server.grant
  /\ \A s \in Local : high[s] <= server.grantLimit[s] /\ (high[s] > 0 => s < server.grantCount)

\* A stream waits exactly as long as the limit on streams keeps it.
WaitsOnlyAtLimit ==
  \A k \in DOMAIN flow.open :
    LET s == flow.open[k] IN
    /\ flow.out[s].blocked <=> s >= flow.streams
    /\ flow.out[s].blocked <=> s \in ToSet(flow.queue)

\* A server that keeps to what it was told is never refused a frame, however late
\* or often its packets come.  Left out: a frame of a stream that was reset, whose
\* bytes handle_reset did not note, is counted a second time.
NothingLegalRefused == repeated \/ ~refused

\* The same of every stream, those that were reset included.
LegalNeverRefused == ~refused

\* No packet that asks for an acknowledgement leaves the queue before an ACK
\* frame has named it.
ReportedBeforeForgotten == complete => got \subseteq acks.queue \cup reported
====
