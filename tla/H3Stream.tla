---- MODULE H3Stream ----
(***************************************************************************)
(* How an HTTP/3 endpoint reads its streams: H3Connection.handle_event and *)
(* what it calls, in h3/connection.py.  A stream is a sequence of tokens,  *)
(* cut anywhere by QUIC: the two varints of a frame header, the bytes of a *)
(* DATA frame, a header block, an identifier.  A header block names the    *)
(* QPACK table entry it needs; the QPACK coder is a library.               *)
(***************************************************************************)
EXTENDS Integers, Sequences

Token(k, m, v) == [k |-> k, m |-> m, v |-> v]
Frame(type, body) == <<Token("type", type, 0), Token("size", "", Len(body))>> \o body
Block(message, need) == Token("block", message, need)
Byte(i) == Token("byte", "", i)
End == Token("end", "", 0)

None == -1

\* H3Stream.__init__.  size, type: frame_size, frame_type; recv, send: the
\* headers states, 0 to 2; kind: stream_type; held: the block the decoder keeps
\* while the stream is blocked.
FreshStream ==
  [blocked |-> FALSE, held |-> End, buffer |-> <<>>, ended |-> FALSE,
   size |-> None, type |-> "", recv |-> 0, send |-> 0,
   push |-> None, session |-> None, kind |-> ""]

\* The fields of H3Connection.__init__ that reading depends on.  inserted: table
\* entries the decoder has; entries: those the encoder made.
FreshConnection(client) ==
  [client |-> client, done |-> FALSE, settings |-> FALSE, control |-> None, encoder |-> None,
   maxPush |-> IF client THEN 8 ELSE 0, nextPush |-> 0, inserted |-> 0, entries |-> 0]

\* Reading takes and gives [c |-> connection, s |-> stream, read |-> what the
\* application is told, err |-> a ProtocolError was raised].
Fail(x) == [x EXCEPT !.err = TRUE]
Report(x, items, last) == [x EXCEPT !.read = @ \o items \o IF last THEN <<End>> ELSE <<>>]

\* validate_request_headers, validate_response_headers, validate_trailers.
Valid(x, message) ==
  message = IF x.s.recv > 0 THEN "trailers" ELSE IF x.c.client THEN "response" ELSE "request"

\* HEADERS, once the decoder has given the headers.
Headers(x, block, last) ==
  IF ~Valid(x, block.m) THEN Fail(x)
  ELSE Report([x EXCEPT !.s.recv = @ + 1], <<Token("headers", block.m, 0)>>, last)

\* pylsqpack.StreamBlocked.
Blocked(x, block) == [x EXCEPT !.s.blocked = TRUE, !.s.held = block]
Waits(x, block) == block.v > x.c.inserted

HandleData(x, type, data, last) ==
  IF x.s.recv # 1 THEN Fail(x) ELSE Report(x, data, last)

HandleHeaders(x, block, last) ==
  CASE x.s.recv = 2 -> Fail(x)
    [] x.s.recv # 2 /\ Waits(x, block) -> Blocked(x, block)
    [] OTHER -> Headers(x, block, last)

HandlePromise(x, id, block) ==
  CASE ~x.c.client -> Fail(x)
    [] x.c.client /\ Waits(x, block) -> Blocked(x, block)
    [] OTHER -> IF block.m # "promise" THEN Fail(x)
                ELSE Report(x, <<Token("promise", "", id.v)>>, FALSE)

\* _handle_request_or_push_frame.
HandleFrame(x, type, data, last) ==
  CASE type = "DATA" -> HandleData(x, type, data, last)
    [] type = "HEADERS" -> HandleHeaders(x, data[1], last)
    [] type = "PUSH_PROMISE" /\ x.s.push = None -> HandlePromise(x, data[1], data[2])
    [] OTHER -> Fail(x)

Smaller(a, b) == IF a < b THEN a ELSE b
Drop(q, n) == SubSeq(q, n + 1, Len(q))
Take(q, n) == SubSeq(q, 1, n)

\* The shortcut for WEBTRANSPORT_STREAM, and its first fragment.
ReadSession(x, fin) ==
  Report([x EXCEPT !.s.buffer = <<>>], x.s.buffer, fin)

\* Mutant: what is still in the buffer is not looked at.
IsLastOnceEnded(s) == s.ended

\* stream_ended of a frame: nothing comes after it.
IsLast(s) == s.ended /\ s.buffer = <<>>

RECURSIVE ReadFrames(_, _)

\* The part of the frame at the front of the buffer that is there; frames other
\* than DATA wait until they are complete.
ReadBody(x, fin) ==
  LET n == Smaller(x.s.size, Len(x.s.buffer))
      whole == n = x.s.size
      y == [x EXCEPT !.s.buffer = Drop(@, n),
                     !.s.size = IF whole THEN None ELSE @ - n,
                     !.s.type = IF whole THEN "" ELSE @]
  IN IF x.s.type # "DATA" /\ ~whole THEN x
     ELSE ReadFrames(HandleFrame(y, x.s.type, Take(x.s.buffer, n), IsLast(y.s)), fin)

\* The loop of _receive_request_or_push_data.
ReadFrames(x, fin) ==
  LET b == x.s.buffer IN
  CASE b = <<>> \/ x.err \/ x.s.blocked -> x
    [] x.s.size # None /\ ~(b = <<>> \/ x.err \/ x.s.blocked) -> ReadBody(x, fin)
    [] OTHER ->
       IF Len(b) < 2 THEN x
       ELSE IF b[1].m = "WEBTRANSPORT_STREAM"
       THEN ReadSession([x EXCEPT !.s.type = b[1].m, !.s.session = b[2].v,
                                  !.s.buffer = Drop(b, 2)], fin)
       ELSE ReadBody([x EXCEPT !.s.type = b[1].m, !.s.size = b[2].v,
                               !.s.buffer = Drop(b, 2)], fin)

InsideData(s) == s.type = "DATA" /\ s.size # None /\ Len(s.buffer) < s.size

\* Mutant: a blocked stream is read on.
ReceiveThrough(x, data, fin) ==
  ReadFrames([x EXCEPT !.s.buffer = @ \o data, !.s.ended = @ \/ fin, !.s.blocked = FALSE], fin)

\* _receive_request_or_push_data; fin: the stream ends with these tokens.
Receive(x, data, fin) ==
  LET y == [x EXCEPT !.s.buffer = @ \o data, !.s.ended = @ \/ fin] IN
  CASE y.s.blocked -> y
    [] ~y.s.blocked /\ y.s.session # None -> ReadSession(y, fin)
    [] ~y.s.blocked /\ InsideData(y.s) ->
         Report([y EXCEPT !.s.size = @ - Len(y.s.buffer), !.s.buffer = <<>>], y.s.buffer, FALSE)
    [] OTHER -> IF fin /\ y.s.buffer = <<>> THEN Report(y, <<>>, TRUE) ELSE ReadFrames(y, fin)

\* Mutant: the end that came while the stream was blocked is forgotten.
ResumeUnended(x) ==
  LET y == HandleHeaders(x, x.s.held, FALSE)
      z == [y EXCEPT !.s.blocked = FALSE]
  IN IF y.err \/ z.s.buffer = <<>> THEN z ELSE Receive(z, <<>>, z.s.ended)

\* A stream whose block the decoder can give now: the frame counts as HEADERS.
Resume(x) ==
  LET y == HandleHeaders(x, x.s.held, IsLast(x.s))
      z == [y EXCEPT !.s.blocked = FALSE]
  IN IF y.err \/ z.s.buffer = <<>> THEN z ELSE Receive(z, <<>>, z.s.ended)

(***************************************************************************)
(* Unidirectional streams.                                                 *)
(***************************************************************************)
\* _handle_control_frame; a bad SETTINGS frame has a value other than 0.
HandleControl(x, type, data) ==
  CASE type = "SETTINGS" ->
         IF x.c.settings \/ data[1].v # 0 THEN Fail(x) ELSE [x EXCEPT !.c.settings = TRUE]
    [] type # "SETTINGS" /\ ~x.c.settings -> Fail(x)
    [] type = "MAX_PUSH_ID" /\ x.c.settings ->
         IF x.c.client THEN Fail(x) ELSE [x EXCEPT !.c.maxPush = data[1].v]
    [] OTHER -> IF type \in {"DATA", "HEADERS", "PUSH_PROMISE", "DUPLICATE_PUSH"}
                THEN Fail(x) ELSE x

RECURSIVE ReadControl(_)
ReadControl(x) ==
  LET b == x.s.buffer IN
  IF x.err \/ Len(b) < 2 \/ Len(b) < 2 + b[2].v THEN x
  ELSE ReadControl(HandleControl([x EXCEPT !.s.buffer = Drop(b, 2 + b[2].v)],
                                 b[1].m, SubSeq(b, 3, 2 + b[2].v)))

\* The stream type; control and encoder stream are unique.
TypeStream(x, id) ==
  LET kind == x.s.buffer[1].m
      y == [x EXCEPT !.s.kind = kind, !.s.buffer = Tail(@)]
  IN CASE kind = "control" -> IF x.c.control # None THEN Fail(y) ELSE [y EXCEPT !.c.control = id]
       [] kind = "encoder" -> IF x.c.encoder # None THEN Fail(y) ELSE [y EXCEPT !.c.encoder = id]
       [] OTHER -> y

\* _receive_stream_data_uni, up to the streams it unblocks.
ReceiveUni(x, id, data, fin) ==
  LET w == [x EXCEPT !.s.buffer = @ \o data, !.s.ended = @ \/ fin]
      y == IF w.s.kind = "" /\ w.s.buffer # <<>> THEN TypeStream(w, id) ELSE w
      b == y.s.buffer
  IN CASE y.err \/ y.s.kind = "" -> y
       [] ~y.err /\ y.s.kind = "control" -> IF fin THEN Fail(y) ELSE ReadControl(y)
       [] ~y.err /\ y.s.kind = "encoder" ->
            [y EXCEPT !.c.inserted = @ + Len(b), !.s.buffer = <<>>]
       [] ~y.err /\ y.s.kind = "push" ->
            IF y.s.push # None THEN Receive(y, <<>>, fin)
            ELSE IF b = <<>> THEN y
            ELSE Receive([y EXCEPT !.s.push = b[1].v, !.s.buffer = Tail(b)], <<>>, fin)
       [] ~y.err /\ y.s.kind = "webtransport" ->
            IF y.s.session # None THEN Report([y EXCEPT !.s.buffer = <<>>], b, y.s.ended)
            ELSE IF b = <<>> THEN y
            ELSE Report([y EXCEPT !.s.session = b[1].v, !.s.buffer = <<>>], Tail(b), y.s.ended)
       [] OTHER -> [y EXCEPT !.s.buffer = <<>>]
====
