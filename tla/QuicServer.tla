---- MODULE QuicServer ----
(***************************************************************************)
(* asyncio.QuicServer and the connections it keeps: which connection a     *)
(* datagram goes to, version negotiation and Retry, the IDs that come and  *)
(* go, key updates and changes of the client's address.  One client of the *)
(* library talks to it, over a network that loses, repeats and reorders.   *)
(***************************************************************************)
EXTENDS OneRtt, ConnectionIds, Functions, TLC

CONSTANTS
  Addrs,         \* the client's addresses
  None,
  IdLimit,       \* active_connection_id_limit of both sides
  MaxRetries,    \* Retry packets of the server
  Settings       \* what may happen, see conf

\* Connection IDs: the first one the client made up, those of Retry packets,
\* and those of the server's connections.
First == <<"client", 0>>
RetryId(n) == <<"retry", n>>
HostId(k, seq) == <<"host", k, seq>>

\* What a token of a Retry packet holds.
RetryIds == {RetryId(n) : n \in 0..MaxRetries}
Tokens == [addr : Addrs, original : {First}, retried : RetryIds]

ASSUME ServerAssumption ==
  /\ {IdLimit, MaxRetries} \subseteq Nat
  /\ None \notin Addrs \cup RetryIds \cup Tokens
  /\ Settings \subseteq [retry : BOOLEAN, versions : SUBSET {"old", "new"}, hellos : Nat,
                        packets : Nat, phases : Nat, moves : Nat]

\* conf: the server's _retry, and bounds: the client's first version, how often
\* it sends its ClientHello, its 1-RTT packets, key updates, changes of address;
\* routes: _protocols, a connection ID to the number of a connection; conns: the
\* connections; sent: every datagram, none of which the network forgets; client:
\* the client's connection.
VARIABLES conf, routes, conns, sent, client
vars == <<conf, routes, conns, sent, client>>

(***************************************************************************)
(* Datagrams, one packet each.  The server's packets are told apart by     *)
(* what is in them.                                                        *)
(***************************************************************************)
ToServer == {d \in sent : d.dir = "up"}
ToClient == {d \in sent : d.dir = "down" /\ d.to = client.addr}

\* The client's INITIAL packet with the ClientHello or an ACK, padded to a full
\* datagram, its Finished, and a 1-RTT packet with all there is to tell.  secret: the
\* ID that the keys of INITIAL packets are derived from.
InitialPacket(hello) ==
  [dir |-> "up", space |-> "initial", id |-> client.id, from |-> client.addr,
   version |-> client.version, pn |-> client.pn, probing |-> FALSE, hello |-> hello,
   token |-> client.token, secret |-> IF client.retried = None THEN First ELSE client.retried]
FinishedPacket ==
  [dir |-> "up", space |-> "handshake", id |-> client.id, from |-> client.addr,
   version |-> client.version, pn |-> client.pn + 1, probing |-> FALSE]
Probes(ping) == ~ping /\ client.ids.retire = {}
OneRttPacketUp(ping) ==
  [dir |-> "up", space |-> "one", id |-> HostId(client.of, client.ids.dst),
   from |-> client.addr, version |-> client.version, pn |-> client.pn,
   probing |-> Probes(ping), bit |-> Phase(client.keys),
   gen |-> Encrypt(client.keys).send, new |-> client.ids.unsent,
   retire |-> client.ids.retire, echo |-> client.echo]

(***************************************************************************)
(* A connection of the server.  first: its state is FIRSTFLIGHT, it has    *)
(* read nothing; secret: the ID its INITIAL keys are derived from; retried:*)
(* the ID of its Retry; host: the sequence number of host_cid; largest:    *)
(* largest_received_packet of each space; again: _crypto_retransmitted;    *)
(* issued: the IDs of the ConnectionIdIssued events not yet processed.     *)
(* late is of the model only: the newest packet to move the path was an    *)
(* INITIAL or HANDSHAKE packet after a 1-RTT packet.                       *)
(***************************************************************************)
FreshConnection(original, retried, addr) ==
  [first |-> TRUE, secret |-> None,
   original |-> original, retried |-> retried, host |-> 0, ids |-> FreshIds,
   keys |-> FreshKeys, paths |-> <<FreshPath(addr)>>, complete |-> FALSE,
   greeted |-> FALSE, again |-> FALSE, issued |-> {},
   largest |-> [initial |-> -1, handshake |-> -1, one |-> -1], late |-> FALSE]

\* Until a packet was read, every INITIAL packet sets up the keys and the path anew.
Initialize(c, d) ==
  IF c.first THEN [c EXCEPT !.secret = d.id, !.paths = <<FreshPath(d.from)>>] ELSE c

\* HANDSHAKE keys go with the Finished, INITIAL keys never do.
Readable(c, d) ==
  CASE d.space = "initial" -> d.secret = c.secret
    [] d.space = "handshake" -> ~c.complete
    [] d.space = "one" -> c.complete /\ Decrypts(c.keys, d)

\* The ClientHello is answered once.  The second time it only makes a probe due:
\* CRYPTO frames have no delivery handler that would bring the data back.
Greet(c, d) ==
  IF d.hello THEN [c EXCEPT !.greeted = TRUE, !.again = @ \/ c.greeted] ELSE c

\* The client's Finished.
Complete(c) == [c EXCEPT !.complete = TRUE, !.ids = Replenish(@, IdLimit)]

\* NEW_CONNECTION_ID frames, which always say "Retire Prior To 0".
LearnAll(i, seqs) ==
  LET new == seqs \ Known(i)
  IN [i EXCEPT !.available = @ \cup new, !.known = @ \o SetToSortSeq(new, <)]

\* RETIRE_CONNECTION_ID frames; together they end where one after the other does.
RetireAll(i, seqs, to) ==
  LET gone == {s \in seqs : ~RetireRefused(i, s, to)}
  IN Replenish([i EXCEPT !.host = @ \ gone, !.unsent = @ \ gone], IdLimit)
ToldIds(c, d) == [c EXCEPT !.ids = RetireAll(LearnAll(@, d.new), d.retire, d.id[3])]

\* change_connection_id
ChangeId(i) ==
  IF i.available = {} THEN i ELSE Consume([i EXCEPT !.retire = @ \cup {i.dst}])

\* The client goes on with another ID of this connection.
Migrate(c, d) ==
  IF d.id[3] = c.host THEN c
  ELSE [c EXCEPT !.host = d.id[3], !.ids = ChangeId(@)]

\* The rest of receive_datagram: the path of the packet and its number.
OnPath(c, d) ==
  LET n == IndexOf(c.paths, d.from)
      newest == d.pn > c.largest[d.space]
      seen == IF d.space = "handshake" THEN ByHandshake(c.paths, n) ELSE c.paths
      moves == newest /\ ~d.probing
  IN [c EXCEPT !.paths = Promote(seen, n, d.probing, newest),
               !.largest[d.space] = IF newest THEN d.pn ELSE @,
               !.late = IF moves THEN d.space # "one" /\ c.largest.one >= 0 ELSE @]

\* The frames of a 1-RTT packet, handled one after the other.
OneRttFrames(c, d) ==
  LET told == ToldIds(c, d)
  IN [told EXCEPT !.paths = Response(@, IndexOf(@, d.from), d.echo)]

\* A packet that can be read.
Found(c, d) == [c EXCEPT !.paths = Find(@, d.from), !.first = FALSE]
Read(c, d) ==
  LET found == Found(c, d)
  IN CASE d.space = "initial" -> OnPath(Greet(found, d), d)
       [] d.space = "handshake" -> OnPath(Complete(found), d)
       [] d.space = "one" ->
            OnPath(Migrate(OneRttFrames([found EXCEPT !.keys = Decrypt(@, d)], d), d), d)

\* receive_datagram.  The assertion that the first packet is an INITIAL packet ends
\* it before anything has changed; a packet that cannot be read is dropped.
Unexpected(c, d) == c.first /\ d.space # "initial"
Receive(c, d) ==
  IF Unexpected(c, d) THEN c
  ELSE LET ready == Initialize(c, d)
       IN IF Readable(ready, d) THEN Read(ready, d) ELSE ready

\* _connection_id_issued and _connection_id_retired.
Routed(table, k, ids) ==
  [id \in DOMAIN table \cup ids |-> IF id \in ids THEN k ELSE table[id]]
Issued(table, k, ids) == Routed(table, k, {HostId(k, s) : s \in ids})
Retired(table, k, ids) == Restrict(table, DOMAIN table \ {HostId(k, s) : s \in ids})

\* Mutant: a retired ID stays in the table.
ProcessIssued(table, c, got, k) == Issued(table, k, c.issued)

\* _process_events, when the datagram has made "got" of the connection c: the
\* events that waited come first.
ProcessEvents(table, c, got, k) ==
  Retired(Issued(table, k, c.issued), k, c.ids.host \ got.ids.host)

\* What a packet made of the connection c calls for a 1-RTT packet: a probe, an
\* ACK, HANDSHAKE_DONE, a PATH_CHALLENGE.
Due(c, got, d) ==
  \/ got.again # c.again
  \/ got.complete /\ Readable(c, d) /\ (d.space # "initial" \/ MustChallenge(got.paths))

\* datagrams_to_send, when there is a 1-RTT packet to write, of which there is
\* nothing but a PING before the handshake is complete.
Transmit(c) ==
  [c EXCEPT !.keys = Encrypt(@), !.ids = IdsWritten(@), !.issued = @ \cup c.ids.unsent,
            !.paths = IF c.complete THEN Challenge(@) ELSE @]
OneRttPacket(c) ==
  [dir |-> "down", kind |-> "one", to |-> c.paths[1].addr, id |-> c.ids.dst,
   bit |-> Phase(c.keys), gen |-> Encrypt(c.keys).send, new |-> c.ids.unsent,
   retire |-> c.ids.retire, challenge |-> c.complete /\ MustChallenge(c.paths)]

\* The server's INITIAL and HANDSHAKE packets, with its transport parameters.
Hello(c, k) ==
  [dir |-> "down", kind |-> "hello", to |-> c.paths[1].addr, id |-> HostId(k, 0),
   original |-> c.original, retried |-> c.retried]

\* QuicConnectionProtocol.datagram_received in connection k, c so far, with
\* "table" routing: receive_datagram, _process_events and transmit.
Deliver(c, k, table, d) ==
  LET got == Receive(c, d)
      next == [got EXCEPT !.issued = {}]
      due == Due(c, got, d)
  IN /\ routes' = ProcessEvents(table, c, got, k)
     /\ conns' = [j \in DOMAIN conns \cup {k} |->
                    IF j # k THEN conns[j] ELSE IF due THEN Transmit(next) ELSE next]
     /\ sent' = sent \cup (IF got.greeted # c.greeted THEN {Hello(got, k)} ELSE {})
                     \cup (IF due THEN {OneRttPacket(next)} ELSE {})
     /\ UNCHANGED <<conf, client>>

(***************************************************************************)
(* QuicServer.datagram_received                                            *)
(***************************************************************************)
Answer(d) ==
  /\ sent' = sent \cup {d}
  /\ UNCHANGED <<conf, routes, conns, client>>

AnswerVersion(d) ==
  /\ d.version = "old"
  /\ Answer([dir |-> "down", kind |-> "versions", to |-> d.from])

\* An INITIAL packet, which always fills its datagram, to an ID nobody has.
Opens(d) ==
  /\ d.version # "old" /\ d.id \notin DOMAIN routes /\ d.space = "initial"

Retries == Cardinality({d \in sent : d.dir = "down" /\ d.kind = "retry"})
AnswerRetry(d) ==
  /\ Opens(d) /\ conf.retry /\ d.token = None /\ Retries < MaxRetries
  /\ LET id == RetryId(Retries)
     IN Answer([dir |-> "down", kind |-> "retry", to |-> d.from, id |-> id,
                token |-> [addr |-> d.from, original |-> d.id, retried |-> id]])

\* validate_token
TokenValid(d) == d.token # None /\ d.token.addr = d.from

\* Mutant: the ID of the packet is taken for the first one.
OriginalIsHeader(d) == d.id
Original(d) == IF conf.retry THEN d.token.original ELSE d.id

Register(d, k) == Routed(routes, k, {d.id, HostId(k, 0)})

NewConnection(d) ==
  /\ Opens(d) /\ (conf.retry => TokenValid(d))
  /\ LET k == Len(conns) + 1
         retried == IF conf.retry THEN d.token.retried ELSE None
     IN Deliver(FreshConnection(Original(d), retried, d.from), k, Register(d, k), d)

ToConnection(d) ==
  /\ d.version # "old" /\ d.id \in DOMAIN routes
  /\ Deliver(conns[routes[d.id]], routes[d.id], routes, d)

\* request_key_update, which any application may call at any time after the
\* handshake.
MayUpdate(keys) == keys.recv < conf.phases
ServerUpdatesKeys(k) ==
  /\ conns[k].complete /\ MayUpdate(conns[k].keys)
  /\ conns' = [conns EXCEPT ![k].keys = Request(@)]
  /\ UNCHANGED <<conf, routes, sent, client>>

(***************************************************************************)
(* The client.  stage: how far it is; id: _peer_cid until the handshake is *)
(* over, ids afterwards; of: the connection that answered; echo: the       *)
(* challenge to respond to.  reached is of the model only: the addresses   *)
(* at which something of the server came.                                  *)
(***************************************************************************)
FreshClient(addr, version) ==
  [stage |-> "initial", addr |-> addr, version |-> version, pn |-> 0, id |-> First,
   token |-> None, retried |-> None, of |-> 0, ids |-> FreshIds, keys |-> FreshKeys,
   echo |-> None, moves |-> 0, reached |-> {}]

Init ==
  /\ conf \in Settings
  /\ routes = <<>> /\ conns = <<>> /\ sent = {}
  /\ \E a \in Addrs, v \in conf.versions : client = FreshClient(a, v)

ClientSends(c, packets) ==
  /\ sent' = sent \cup packets
  /\ client' = [c EXCEPT !.pn = @ + Cardinality(packets)]
  /\ UNCHANGED <<conf, routes, conns>>

ClientTakes(c) ==
  /\ client' = [c EXCEPT !.reached = @ \cup {client.addr}]
  /\ UNCHANGED <<conf, routes, conns, sent>>

\* The ClientHello, for the first time or again.
SendInitial ==
  /\ client.stage = "initial" /\ client.pn < conf.hellos
  /\ ClientSends(client, {InitialPacket(TRUE)})

\* Version negotiation starts again with packet number 0.  Nothing that was sent
\* before changes anything any more, so the network may forget it.
TakeVersions(d) ==
  /\ client.stage = "initial" /\ d.kind = "versions" /\ client.version = "old"
  /\ client' = [client EXCEPT !.version = "new", !.pn = 0, !.reached = {client.addr}]
  /\ sent' = {}
  /\ UNCHANGED <<conf, routes, conns>>

\* Only one Retry is taken.
TakeRetry(d) ==
  /\ client.stage = "initial" /\ d.kind = "retry" /\ client.retried = None
  /\ ClientTakes([client EXCEPT !.id = d.id, !.token = d.token, !.retried = d.id])

\* The server's flight and its transport parameters.
TakeHello(d) ==
  /\ client.stage = "initial" /\ d.kind = "hello"
  /\ ClientTakes(
       IF d.original = First /\ d.retried = client.retried
       THEN [client EXCEPT !.stage = "answer", !.of = d.id[2], !.id = d.id,
                           !.ids = Replenish(@, IdLimit)]
       ELSE [client EXCEPT !.stage = "refused"])

\* The ACK of the server's INITIAL packet and the Finished.
SendFinished ==
  /\ client.stage = "answer"
  /\ ClientSends([client EXCEPT !.stage = "one"], {InitialPacket(FALSE), FinishedPacket})

\* A 1-RTT packet with a PING, or only with a PATH_RESPONSE.
SendOneRtt(ping) ==
  /\ client.stage = "one" /\ (ping \/ client.echo # None)
  /\ Cardinality({d \in ToServer : d.space = "one"}) < conf.packets
  /\ ClientSends([client EXCEPT !.keys = Encrypt(@), !.ids = IdsWritten(@), !.echo = None],
                 {OneRttPacketUp(ping)})

\* A 1-RTT packet of the server, to an ID the client still has.
TakeOneRtt(d) ==
  /\ client.stage = "one" /\ d.kind = "one"
  /\ d.id \in client.ids.host /\ Decrypts(client.keys, d)
  /\ ClientTakes([client EXCEPT
       !.keys = Decrypt(@, d),
       !.ids = RetireAll(LearnAll(@, d.new), d.retire, d.id),
       !.echo = IF d.challenge THEN d.to ELSE @])

ClientDoes(c) == client' = c /\ UNCHANGED <<conf, routes, conns, sent>>

ClientChangesId ==
  /\ client.stage = "one" /\ client.ids.available # {}
  /\ ClientDoes([client EXCEPT !.ids = ChangeId(@)])

ClientUpdatesKeys ==
  /\ client.stage = "one" /\ MayUpdate(client.keys)
  /\ ClientDoes([client EXCEPT !.keys = Request(@)])

\* The client's network gives it another address.
Rebind(addr) ==
  /\ addr # client.addr /\ client.moves < conf.moves
  /\ ClientDoes([client EXCEPT !.addr = addr, !.moves = @ + 1])

Next ==
  \/ \E d \in ToServer : \/ AnswerVersion(d) \/ AnswerRetry(d)
                         \/ NewConnection(d) \/ ToConnection(d)
  \/ \E k \in DOMAIN conns : ServerUpdatesKeys(k)
  \/ \E d \in ToClient : \/ TakeVersions(d) \/ TakeRetry(d) \/ TakeHello(d) \/ TakeOneRtt(d)
  \/ SendInitial \/ SendFinished
  \/ \E ping \in BOOLEAN : SendOneRtt(ping)
  \/ ClientChangesId \/ ClientUpdatesKeys
  \/ \E a \in Addrs : Rebind(a)

Spec == Init /\ [][Next]_vars

(***************************************************************************)
(* Properties.                                                             *)
(***************************************************************************)
\* One client is served by one connection, however often and in whatever order its
\* datagrams come, before and after a Retry: another one that a late INITIAL packet
\* opens never reads anything.
OneConnection == \A k \in DOMAIN conns : k > 1 => conns[k].first

\* The client, which compares the original destination ID and the ID of the
\* Retry in the server's transport parameters with its own, never refuses them.
ParametersAgree == client.stage # "refused"

\* With Retry no connection is made for an address at which the client was not
\* reached before.
AddressValidated ==
  [][conf.retry => \A k \in DOMAIN conns' \ DOMAIN conns :
                   conns'[k].paths[1].addr \in client.reached]_vars

\* The table and the connections agree on the IDs: one that its connection holds
\* leads to it, one that it has retired leads at most to a connection that never
\* read anything; one that a connection holds is in the table, is not yet sent, or
\* its event waits; and a connection goes by an ID it still holds.
RoutesMatchIds ==
  /\ \A id \in DOMAIN routes :
       Len(id) = 3 =>
         IF id[3] \in conns[id[2]].ids.host THEN routes[id] = id[2] ELSE conns[routes[id]].first
  /\ \A k \in DOMAIN conns :
       LET c == conns[k]
       IN /\ c.host \in c.ids.host
          /\ \A s \in c.ids.host :
               \/ HostId(k, s) \in DOMAIN routes
               \/ s \in c.ids.unsent
               \/ s \in c.issued

\* The assertion of receive_datagram, "first packet must be INITIAL": no other
\* packet comes to a connection that has read nothing.
FirstIsInitial ==
  \A d \in ToServer : d.id \in DOMAIN routes => ~Unexpected(conns[routes[d.id]], d)

\* Whatever key updates cross on the way and whatever packets are lost with
\* them, one side can read what the other one sends next, when no application
\* asked for an update in a phase in which it had heard nothing yet.
CanRead(keys, others) ==
  Decrypts(keys, [bit |-> Phase(others), gen |-> Encrypt(others).send])
NeverLockedOut ==
  \A k \in DOMAIN conns :
    conns[k].complete /\ ~conns[k].keys.hasty /\ ~client.keys.hasty =>
      CanRead(conns[k].keys, client.keys) \/ CanRead(client.keys, conns[k].keys)

\* The same for every application that updates its keys.
UpdatesAreRead ==
  \A k \in DOMAIN conns :
    conns[k].complete => CanRead(conns[k].keys, client.keys) \/ CanRead(client.keys, conns[k].keys)

\* The server answers where the newest 1-RTT packet came from, a probe and the
\* packets older than it aside, unless a packet of the handshake moved the path
\* since.
From(pn) == CHOOSE d \in ToServer : d.space = "one" /\ d.pn = pn
AnswersNewest(c) ==
  c.largest.one >= 0 /\ ~From(c.largest.one).probing
    => c.paths[1].addr = From(c.largest.one).from
FrontFollows == \A k \in DOMAIN conns : ~conns[k].late => AnswersNewest(conns[k])

\* The same without the exception.
FrontIsNewest == \A k \in DOMAIN conns : AnswersNewest(conns[k])

\* A path is validated by a PATH_RESPONSE only where the client was reached.
EchoMeansReached ==
  \A k \in DOMAIN conns : \A n \in DOMAIN conns[k].paths :
    conns[k].paths[n].byEcho => conns[k].paths[n].addr \in client.reached

====
