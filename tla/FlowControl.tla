---- MODULE FlowControl ----
(***************************************************************************)
(* Flow control and stream limits of a connection: what the client lets    *)
(* the server send, and what the server lets the client send.  Streams of  *)
(* either side are bidirectional and numbered from 0; the server's carry   *)
(* data to the client, the client's carry data to the server.              *)
(***************************************************************************)
EXTENDS Naturals, Sequences, FiniteSets, SequencesExt

CONSTANTS
  Remote,        \* the server's streams, 0..n
  Local,         \* the client's streams, 0..m
  LocalData, LocalStreamData, LocalStreams,     \* the client's first limits
  RemoteData, RemoteStreamData, RemoteStreams   \* the server's first limits

ASSUME FlowAssumption ==
  /\ IsFiniteSet(Remote) /\ Remote = 0..(Cardinality(Remote) - 1)
  /\ IsFiniteSet(Local) /\ Local = 0..(Cardinality(Local) - 1)
  /\ {LocalData, LocalStreamData, LocalStreams,
      RemoteData, RemoteStreamData, RemoteStreams} \subseteq Nat

\* A Limit: value, used, and what the last frame said.
Limit(v) == [value |-> v, used |-> 0, sent |-> v]

Larger(a, b) == IF a > b THEN a ELSE b
Smaller(a, b) == IF a < b THEN a ELSE b

\* The sum of a function on 0..n, by its first parts.
ValueAt(f, n) == IF n \in DOMAIN f THEN f[n] ELSE 0
SumTo(f) ==
  LET sum[n \in Nat] == IF n = 0 THEN 0 ELSE sum[n - 1] + ValueAt(f, n - 1) IN sum
Total(f) == SumTo(f)[Cardinality(DOMAIN f)]

(***************************************************************************)
(* in: the server's streams, with highest_offset, final size (or none),    *)
(* the limit and the limit sent; out: the client's, with bytes written,    *)
(* highest_offset, the server's limit and is_blocked; open: both in the    *)
(* order of their creation; queue: _streams_blocked_bidi; tell:            *)
(* _streams_blocked_pending; max, used: _remote_max_data and               *)
(* _remote_max_data_used; streams: _remote_max_streams_bidi.               *)
(***************************************************************************)
FreshFlow ==
  [data |-> Limit(LocalData), count |-> Limit(LocalStreams),
   in |-> [s \in Remote |-> [highest |-> 0, final |-> 0, limit |-> LocalStreamData,
                             sent |-> LocalStreamData, open |-> FALSE]],
   out |-> [s \in Local |-> [written |-> 0, highest |-> 0, limit |-> RemoteStreamData,
                             blocked |-> FALSE]],
   open |-> <<>>, queue |-> <<>>, tell |-> FALSE,
   max |-> RemoteData, used |-> 0, streams |-> RemoteStreams]

(***************************************************************************)
(* What the server sends.                                                  *)
(***************************************************************************)
\* _get_or_create_stream for a stream of the server.
TooManyStreams(f, s) == ~f.in[s].open /\ s + 1 > f.count.value
Opened(f, s) ==
  [f EXCEPT !.in[s].open = TRUE,
            !.count.used = IF f.in[s].open THEN @ ELSE Larger(@, s + 1)]

\* Mutant: bytes that came before are counted again.
NewlyAgain(f, s, end) == end

\* The checks _handle_stream_frame and _handle_reset_stream_frame share; the
\* second one comes when the stream is there already.
Newly(f, s, end) == IF end > f.in[s].highest THEN end - f.in[s].highest ELSE 0

OverLimit(f, s, end) ==
  end > f.in[s].limit \/ f.data.used + Newly(f, s, end) > f.data.value
Refused(f, s, end) == TooManyStreams(f, s) \/ OverLimit(f, s, end)

\* _handle_stream_frame; end: the offset after the last byte.
StreamData(f, s, end) ==
  CASE TooManyStreams(f, s) -> f
    [] ~TooManyStreams(f, s) /\ OverLimit(f, s, end) -> Opened(f, s)
    [] OTHER -> [Opened(f, s) EXCEPT !.in[s].highest = Larger(@, end),
                                     !.data.used = @ + Newly(f, s, end)]

\* _handle_reset_stream_frame; highest_offset stays as it is.
StreamReset(f, s, final) ==
  CASE TooManyStreams(f, s) -> f
    [] ~TooManyStreams(f, s) /\ OverLimit(f, s, final) -> Opened(f, s)
    [] OTHER -> [Opened(f, s) EXCEPT !.in[s].final = final,
                                     !.data.used = @ + Newly(f, s, final)]

\* The streams at the head of the queue that the limit lets through.
Unblocked(queue, limit) ==
  CHOOSE n \in 0..Len(queue) :
    /\ \A k \in 1..n : queue[k] < limit
    /\ n < Len(queue) => queue[n + 1] >= limit

\* _handle_max_streams_bidi_frame and _unblock_streams.
MaxStreams(f, v) ==
  IF v <= f.streams THEN f
  ELSE LET n == Unblocked(f.queue, v)
           free == {f.queue[k] : k \in 1..n}
       IN [f EXCEPT !.streams = v,
                    !.queue = SubSeq(@, n + 1, Len(@)),
                    !.tell = @ /\ n < Len(f.queue),
                    !.out = [s \in Local |->
                      IF s \in free THEN [@[s] EXCEPT !.blocked = FALSE,
                                                      !.limit = RemoteStreamData]
                      ELSE @[s]]]

\* _handle_max_data_frame, _handle_max_stream_data_frame.
MaxData(f, v) == [f EXCEPT !.max = Larger(@, v)]
MaxStreamData(f, s, v) == [f EXCEPT !.out[s].limit = Larger(@, v)]

(***************************************************************************)
(* What the client sends.                                                  *)
(***************************************************************************)
\* send_stream_data with _get_or_create_stream_for_send.
Write(f, s, n) ==
  LET known == \E k \in DOMAIN f.open : f.open[k] = s
      wait == ~known /\ s >= f.streams
  IN [f EXCEPT !.out[s].written = @ + n,
               !.out[s].blocked = @ \/ wait,
               !.open = IF known THEN @ ELSE Append(@, s),
               !.queue = IF wait THEN Append(@, s) ELSE @,
               !.tell = @ \/ wait]

\* Raise a limit: once it is used up to more than its half.
Raise(l) == IF l.used * 2 > l.value THEN [l EXCEPT !.value = @ * 2] ELSE l
Told(l) == [l EXCEPT !.sent = l.value]

RaiseStream(r) == IF r.highest * 2 > r.limit THEN [r EXCEPT !.limit = @ * 2] ELSE r

\* _write_connection_limits (after the handshake) and _write_stream_limits.
Raised(f, complete) ==
  [f EXCEPT !.data = IF complete THEN Raise(@) ELSE @,
            !.count = IF complete THEN Raise(@) ELSE @,
            !.in = [s \in Remote |-> IF f.in[s].open THEN RaiseStream(@[s]) ELSE @[s]]]

LimitFrames(r, complete) ==
  (IF complete /\ r.data.value # r.data.sent
   THEN {[kind |-> "maxData", value |-> r.data.value]} ELSE {})
  \cup (IF complete /\ r.count.value # r.count.sent
        THEN {[kind |-> "maxStreams", value |-> r.count.value]} ELSE {})
  \cup {[kind |-> "maxStreamData", stream |-> s, value |-> r.in[s].limit] :
          s \in {t \in Remote : r.in[t].open /\ r.in[t].limit # r.in[t].sent}}

\* How far _write_stream_frame gets: up to the nearer of the two limits.
StreamStop(f, s) ==
  LET o == f.out[s] IN
  Smaller(o.written, Smaller(o.highest + (f.max - f.used), o.limit))

WriteStream(f, s) ==
  LET stop == StreamStop(f, s) IN
  IF f.out[s].blocked \/ stop <= f.out[s].highest THEN f
  ELSE [f EXCEPT !.out[s].highest = stop,
                 !.used = @ + (stop - f.out[s].highest)]

StreamFrames(f, g) ==
  {[kind |-> "data", stream |-> s, value |-> g.out[s].highest] :
     s \in {t \in Local : g.out[t].highest > f.out[t].highest}}

\* The flow of one pass of _write_application, and the frames it writes.
Flow(f, complete) ==
  LET r == Raised(f, complete)
      t == [r EXCEPT !.data = IF complete THEN Told(@) ELSE @,
                     !.count = IF complete THEN Told(@) ELSE @,
                     !.tell = @ /\ ~complete,
                     !.in = [s \in Remote |->
                       IF f.in[s].open THEN [@[s] EXCEPT !.sent = r.in[s].limit] ELSE @[s]]]
      w == FoldLeft(WriteStream, t, f.open)
  IN [t EXCEPT !.out = w.out, !.used = w.used]

FlowFrames(f, complete) ==
  LET r == Raised(f, complete) IN
  LimitFrames(r, complete)
  \cup (IF complete /\ f.tell THEN {[kind |-> "streamsBlocked", value |-> f.streams]} ELSE {})
  \cup StreamFrames(f, Flow(f, complete))

\* Mutant: a lost limit is sent again only if it is the one last sent.
LimitsLostIfLast(f, back) ==
  [f EXCEPT !.data.sent = IF [kind |-> "maxData", value |-> @] \in back THEN 0 ELSE @,
            !.count.sent = IF [kind |-> "maxStreams", value |-> @] \in back THEN 0 ELSE @]

\* _on_connection_limit_delivery and _on_max_stream_data_delivery for the frames
\* of lost packets: whatever value was lost, the limit is due again.
Lost(back, kind) == \E fr \in back : fr.kind = kind
LimitsLost(f, back) ==
  [f EXCEPT !.data.sent = IF Lost(back, "maxData") THEN 0 ELSE @,
            !.count.sent = IF Lost(back, "maxStreams") THEN 0 ELSE @,
            !.in = [s \in Remote |->
              IF \E fr \in back : fr.kind = "maxStreamData" /\ fr.stream = s
              THEN [@[s] EXCEPT !.sent = 0] ELSE @[s]]]
====
