---- MODULE H3Connection ----
(***************************************************************************)
(* Two HTTP/3 endpoints: what their applications may call, the streams of  *)
(* QUIC between them, which deliver the tokens of a stream in order and in *)
(* pieces of any size, and what they report.  One end may also write what  *)
(* no endpoint of this code writes.                                        *)
(***************************************************************************)
EXTENDS H3Stream, FiniteSets, SequencesExt

CONSTANTS
  Requests,        \* request streams of the client
  MaxPushes,       \* push streams of the server
  Themes,          \* sets of what may happen in one behaviour
  MaxCalls,        \* bound: calls and strays
  MaxControl,      \* bound: those where control frames are at stake
  MaxBlocks,       \* bound: table entries of one encoder
  Sizes            \* bytes in one DATA frame

ASSUME H3Assumption == {MaxPushes, MaxCalls, MaxControl, MaxBlocks} \cup Sizes \subseteq Nat

Ends == {"client", "server"}
Other(e) == IF e = "client" THEN "server" ELSE "client"

\* Streams by number: requests, then sessions (both bidirectional), then the
\* control, encoder, push and webtransport streams of each end.
Sessions == {100}
Bidi == Requests \cup Sessions
Control == 200
Encoder == 201
Push(id) == 300 + id
UniSession == 400
Streams == Bidi \cup {Control, Encoder, UniSession} \cup {Push(id) : id \in 0..(MaxPushes - 1)}

VARIABLES
  theme,    \* what may happen in this behaviour, one of Themes
  conn,     \* the H3Connection of each end
  streams,  \* its H3Streams
  wire,     \* tokens written by an end and not delivered yet
  said,     \* what its application sent, as the other end should report it
  read,     \* what the other end's events told
  calls,    \* calls so far
  stray     \* an end has left the protocol

vars == <<theme, conn, streams, wire, said, read, calls, stray>>

Settings == Frame("SETTINGS", <<Token("settings", "", 0)>>)
StreamType(kind) == Token("stype", kind, 0)

\* What the server's reading of the client's first tokens leaves behind.
ServerReady == [FreshConnection(FALSE) EXCEPT !.settings = TRUE, !.maxPush = 8,
                                              !.control = Control, !.encoder = Encoder]

\* _init_connection of both ends; in the theme "asked" the server has read what
\* the client wrote, a request too, before the behaviour begins.  The decoder streams carry nothing that changes
\* a state here and are left out.
Init ==
  /\ theme \in Themes
  /\ conn = [e \in Ends |-> IF e = "server" /\ "asked" \in theme THEN ServerReady
                             ELSE FreshConnection(e = "client")]
  /\ streams = [e \in Ends |-> [s \in Streams |-> FreshStream]]
  /\ wire = [e \in Ends |-> [s \in Streams |->
       CASE e = "client" /\ "asked" \in theme -> <<>>
         [] s = Control /\ (e = "server" \/ "asked" \notin theme) -> <<StreamType("control")>> \o Settings \o
                           IF e = "client" THEN Frame("MAX_PUSH_ID", <<Token("id", "", 8)>>) ELSE <<>>
         [] s = Encoder /\ (e = "server" \/ "asked" \notin theme) -> <<StreamType("encoder")>>
         [] OTHER -> <<>>]]
  /\ said = [e \in Ends |-> [s \in Streams |-> <<>>]]
  /\ read = [e \in Ends |-> [s \in Streams |-> <<>>]]
  /\ calls = 0 /\ stray = FALSE

TypeOK ==
  /\ theme \in Themes /\ calls \in 0..MaxCalls /\ stray \in BOOLEAN
  /\ \A e \in Ends :
       /\ conn[e].maxPush \in Nat /\ conn[e].nextPush \in 0..MaxPushes
       /\ conn[Other(e)].inserted <= conn[e].entries
       /\ \A s \in Streams : /\ streams[e][s].recv \in 0..2 /\ streams[e][s].send \in 0..2
                             /\ streams[e][s].size \in Nat \cup {None}

(***************************************************************************)
(* What the applications call.                                             *)
(***************************************************************************)
EndIf(end) == IF end THEN <<End>> ELSE <<>>
Ended(e, s) == \E k \in DOMAIN said[e][s] : said[e][s][k] = End

\* _encode_headers: the encoder may make a table entry once it knows the peer's
\* settings, and the block needs the last one or none.
Encodings(e) ==
  {<<n, need>> \in {0, 1} \X (0..(conn[e].entries + 1)) :
     /\ n = 1 => conn[e].settings /\ conn[e].entries < MaxBlocks
     /\ need \in {0, conn[e].entries + n} /\ (n = 1 => need > 0)}
Entries(n) == [k \in 1..n |-> Token("entry", "", 0)]

Budget == IF "control" \in theme THEN MaxControl ELSE MaxCalls

\* send_stream_data on several streams at once.
Sends(e, what) == wire' = [wire EXCEPT ![e] = [s \in Streams |-> @[s] \o what[s]]]
Only(s, tokens) == [t \in Streams |-> IF t = s THEN tokens ELSE <<>>]

\* An application on its own stream: the client's requests, the server's answers
\* once it has read some of the request.
MaySend(e, s) ==
  /\ calls < Budget /\ ~conn[e].done /\ ~Ended(e, s)
  /\ IF e = "client" THEN s \in Requests /\ "asked" \notin theme
     ELSE \/ s \in Requests /\ (read["client"][s] # <<>> \/ "asked" \in theme)
          \/ \E id \in 0..(conn[e].nextPush - 1) : s = Push(id)
  /\ calls' = calls + 1

\* send_headers; the first headers of a stream, then trailers.
SendHeaders(e, s, end) ==
  LET message == CASE streams[e][s].send = 1 -> "trailers"
                   [] streams[e][s].send = 0 /\ e = "client" -> "request"
                   [] OTHER -> "response"
  IN /\ "message" \in theme /\ MaySend(e, s)
     /\ streams[e][s].send < 2
     /\ \E n \in Encodings(e) :
          /\ conn' = [conn EXCEPT ![e].entries = @ + n[1]]
          /\ Sends(e, [t \in Streams |->
               CASE t = s -> Frame("HEADERS", <<Block(message, n[2])>>) \o EndIf(end)
                 [] t = Encoder -> Entries(n[1])
                 [] OTHER -> <<>>])
     /\ streams' = [streams EXCEPT ![e][s].send = @ + 1]
     /\ said' = [said EXCEPT ![e][s] = @ \o <<Token("headers", message, 0)>> \o EndIf(end)]
     /\ UNCHANGED <<theme, read, stray>>

\* send_data.
SendData(e, s, size, end) ==
  LET body == [k \in 1..size |-> Byte(Len(said[e][s]) + k)] IN
  /\ "message" \in theme /\ MaySend(e, s)
  /\ streams[e][s].send = 1
  /\ Sends(e, Only(s, Frame("DATA", body) \o EndIf(end)))
  /\ said' = [said EXCEPT ![e][s] = @ \o body \o EndIf(end)]
  /\ UNCHANGED <<theme, conn, streams, read, stray>>

\* send_push_promise, with the stream of the push.
SendPushPromise(s) ==
  LET id == conn["server"].nextPush IN
  /\ "push" \in theme /\ MaySend("server", s) /\ s \in Requests
  /\ id < conn["server"].maxPush /\ id < MaxPushes
  /\ \E n \in Encodings("server") :
       /\ conn' = [conn EXCEPT !["server"].nextPush = @ + 1, !["server"].entries = @ + n[1]]
       /\ Sends("server", [t \in Streams |->
            CASE t = s -> Frame("PUSH_PROMISE", <<Token("id", "", id), Block("promise", n[2])>>)
              [] t = Encoder -> Entries(n[1])
              [] t = Push(id) -> <<StreamType("push"), Token("id", "", id)>>
              [] OTHER -> <<>>])
  /\ said' = [said EXCEPT !["server"][s] = Append(@, Token("promise", "", id))]
  /\ UNCHANGED <<theme, streams, read, stray>>

\* create_webtransport_stream and send_stream_data on it.
SendSession(e, s, end) ==
  LET first == said[e][s] = <<>>
      byte == Byte(Len(said[e][s]) + 1)
      head == CASE first /\ s = UniSession -> <<StreamType("webtransport"), Token("id", "", 0)>>
                [] first /\ s # UniSession -> <<Token("type", "WEBTRANSPORT_STREAM", 0), Token("size", "", 0)>>
                [] OTHER -> <<>>
  IN /\ {"webtransport", e} \subseteq theme /\ calls < Budget /\ ~conn[e].done /\ ~Ended(e, s)
     /\ calls' = calls + 1
     /\ Sends(e, Only(s, head \o <<byte>> \o EndIf(end)))
     /\ said' = [said EXCEPT ![e][s] = @ \o <<byte>> \o EndIf(end)]
     /\ UNCHANGED <<theme, conn, streams, read, stray>>

\* Frames in places where they are not allowed, streams that must be unique or
\* must not end.
Strays(s) ==
  CASE s \in Requests \cup {Push(0)} /\ "message" \in theme ->
         {Frame("DATA", <<Byte(1)>>), Frame("HEADERS", <<Block("trailers", 0)>>),
          Frame("HEADERS", <<Block("response", 0)>>), Frame("SETTINGS", <<Token("settings", "", 0)>>),
          Frame("PUSH_PROMISE", <<Token("id", "", 0), Block("promise", 0)>>)}
    [] s = Control /\ "control" \in theme ->
         {Settings, Frame("SETTINGS", <<Token("settings", "", 1)>>), Frame("DATA", <<Byte(1)>>),
          Frame("MAX_PUSH_ID", <<Token("id", "", 0)>>), <<End>>}
    [] s = UniSession /\ "control" \in theme -> {<<StreamType("control")>>, <<StreamType("encoder")>>}
    [] OTHER -> {}

Stray(e, s) ==
  /\ {"stray", e} \subseteq theme /\ calls < Budget /\ ~Ended(e, s)
  /\ calls' = calls + 1 /\ stray' = TRUE
  /\ s = UniSession => wire[e][s] = <<>> /\ streams[Other(e)][s].kind = ""
  /\ \E tokens \in Strays(s) :
       Sends(e, Only(s, (IF s = Push(0) /\ wire[e][s] = <<>> /\ streams[Other(e)][s].kind = ""
                         THEN <<StreamType("push"), Token("id", "", 0)>> ELSE <<>>) \o tokens))
  /\ UNCHANGED <<theme, conn, streams, said, read>>

(***************************************************************************)
(* QUIC delivers the next tokens of a stream.                              *)
(***************************************************************************)
Reading(c, st, s) == [c |-> c, s |-> st[s], read |-> <<>>, err |-> FALSE]

\* What one event leaves behind: r.c, r.st, r.read per stream, r.err.
Started(x, st, s) ==
  [c |-> x.c, st |-> [st EXCEPT ![s] = x.s], err |-> x.err,
   read |-> [t \in Streams |-> IF t = s THEN x.read ELSE <<>>]]

\* The streams whose block can be decoded now are read on, in any order.
Unblock(s, r) ==
  IF r.err THEN r
  ELSE LET x == Resume(Reading(r.c, r.st, s)) IN
       [c |-> x.c, st |-> [r.st EXCEPT ![s] = x.s], err |-> x.err,
        read |-> [r.read EXCEPT ![s] = @ \o x.read]]

Freed(r) == {t \in Streams : r.st[t].blocked /\ r.st[t].held.v <= r.c.inserted}

\* handle_event for StreamDataReceived at end e.
HandleEvent(e, s, data, fin) ==
  LET x == Reading(conn[e], streams[e], s) IN
  IF s \in Bidi THEN Started(Receive(x, data, fin), streams[e], s)
  ELSE LET r == Started(ReceiveUni(x, s, data, fin), streams[e], s) IN
       IF r.st[s].kind = "encoder" THEN FoldSet(Unblock, r, Freed(r)) ELSE r

\* Bound: pieces of a control stream, and of any stream of a peer that strays,
\* are all there is, unless they are what the behaviour is about.
Pieces(e, s) ==
  IF IF s = Control THEN "control" \in theme ELSE "stray" \notin theme
  THEN 1..Len(wire[e][s]) ELSE {Len(wire[e][s])} \ {0}

Deliver(e, s, n) ==
  LET tokens == SubSeq(wire[e][s], 1, n)
      fin == tokens[n] = End
      o == Other(e)
      r == HandleEvent(o, s, IF fin THEN SubSeq(tokens, 1, n - 1) ELSE tokens, fin)
  IN /\ wire' = [wire EXCEPT ![e][s] = SubSeq(@, n + 1, Len(@))]
     /\ IF conn[o].done
        THEN UNCHANGED <<conn, streams, read>>
        ELSE /\ conn' = [conn EXCEPT ![o] = [r.c EXCEPT !.done = r.err]]
             /\ streams' = [streams EXCEPT ![o] = r.st]
             /\ read' = IF r.err THEN read
                        ELSE [read EXCEPT ![e] = [t \in Streams |-> @[t] \o r.read[t]]]
     /\ UNCHANGED <<theme, said, calls, stray>>

Next ==
  \/ \E e \in Ends, s \in Streams, end \in BOOLEAN : SendHeaders(e, s, end)
  \/ \E e \in Ends, s \in Streams, size \in Sizes, end \in BOOLEAN : SendData(e, s, size, end)
  \/ \E s \in Requests : SendPushPromise(s)
  \/ \E e \in Ends, s \in Sessions \cup {UniSession}, end \in BOOLEAN : SendSession(e, s, end)
  \/ \E e \in Ends, s \in Streams : Stray(e, s)
  \/ \E e \in Ends, s \in Streams : \E n \in Pieces(e, s) : Deliver(e, s, n)

Spec == Init /\ [][Next]_vars
----
\* However QUIC cuts the streams and whatever order they come in, an application
\* is told what the other one said on a stream, in order, once, and of its end
\* last.
ToldAsSaid == ~stray => \A e \in Ends, s \in Streams : IsPrefix(read[e][s], said[e][s])

\* When all that was written on a stream has been delivered, and the table
\* entries with it, everything has been told: nothing stays in a buffer.
NothingHeldBack ==
  \A e \in Ends, s \in Streams :
    ~stray /\ ~conn[Other(e)].done /\ wire[e][s] = <<>> /\ wire[e][Encoder] = <<>> =>
      read[e][s] = said[e][s]

\* A stream is blocked exactly as long as its block waits for a table entry.
BlockedIsWaiting ==
  \A e \in Ends, s \in Streams :
    ~conn[e].done /\ streams[e][s].blocked => streams[e][s].held.v > conn[e].inserted

\* A PUSH_PROMISE that came before the table entries of its header block waited.
PromiseWaited(e) == \E s \in Streams : streams[e][s].held.m = "promise"

\* An endpoint of this code closes the connection over what another endpoint of
\* this code wrote for one reason only: such a promise, which is resumed as HEADERS.
PeersAgree == ~stray => \A e \in Ends : conn[e].done => PromiseWaited(e)

\* README.rst:61 "HTTP/3 server push support": it never does.
PushSupported == ~stray => \A e \in Ends : ~conn[e].done

\* Whatever the peer writes, what is reported of a stream is a message: headers,
\* bytes, trailers, promises anywhere; a lone end may come at any time.
IsMessage(items, who) ==
  LET plain == SelectSeq(items, LAMBDA i : i.k \notin {"promise", "end"})
      heads == {k \in DOMAIN plain : plain[k].k = "headers"}
  IN /\ \A k \in DOMAIN plain : heads # {} /\ plain[1].k = "headers"
     /\ \A k \in heads : /\ plain[k].m = (IF k > 1 THEN "trailers" ELSE who)
                         /\ k > 1 => k = Len(plain)
ReportsAreMessages ==
  \A e \in Ends, s \in Requests \cup {Push(id) : id \in 0..(MaxPushes - 1)} :
    IsMessage(read[e][s], IF e = "client" THEN "request" ELSE "response")
====
