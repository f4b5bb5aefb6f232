---- MODULE TlsSession ----
(***************************************************************************)
(* The two ends of the TLS 1.3 handshake of tls.py, over several           *)
(* connections that hand session tickets on.  The server is Context with   *)
(* is_client false; the client is the one whose control TlsClient models,  *)
(* here with the secrets it computes, and TlsClient is what it implements. *)
(*                                                                         *)
(* A secret is the term it is computed from, so that two secrets are equal *)
(* when both ends have put the same things into them.  Bytes of a message  *)
(* are the message.  What the CRYPTO streams carry arrives in order; a     *)
(* packet that cannot be decrypted is dropped and sent again.              *)
(***************************************************************************)
EXTENDS Naturals, Sequences

Tls == INSTANCE TlsClient

CONSTANTS
  None,            \* Python's None, where it is not a secret or a key schedule
  HashOf,          \* CIPHER_SUITES: the hash of each cipher suite
  ClientSuites,    \* the client's list
  Offers,          \* what the letters for a hello name: all of it, or one
  ClientAlpn,      \* the protocols the client offers
  ServerConfigs,   \* what the server may be configured with
  MaxConnections, MaxHellos, MaxWritten   \* bounds

Suites == DOMAIN HashOf
Members(s) == {s[i] : i \in 1..Len(s)}

\* suites, alpn: lists in the order of preference; tickets: the server has a
\* store of tickets; keeps: the client asks for tickets.
ASSUME SessionAssumption ==
  /\ None \notin Suites /\ None \notin Nat
  /\ Members(ClientSuites) \subseteq Suites /\ Offers \subseteq SUBSET Members(ClientSuites)
  /\ \A c \in ServerConfigs : /\ c.suites \in Seq(Suites)
                              /\ c.tickets \in BOOLEAN /\ c.keeps \in BOOLEAN

VARIABLES
  config,      \* of the server and of the client, fixed at the start
  conn,        \* the number of the connection
  client, server,
  toServer,    \* the CRYPTO streams of the client, by epoch
  toClient,    \* the server's messages, in the order of their epochs
  ticket,      \* the client's ticket file
  store        \* the tickets of the server: SessionTicketStore

vars == <<config, conn, client, server, toServer, toClient, ticket, store>>
----
(* KeySchedule: the cipher suite, what was extracted, and the transcript. *)

\* None in the place of a secret, and of a key schedule.
NoKey == [label |-> "none"]
NoSchedule == [suite |-> None]

Schedule(suite, key) == [suite |-> suite, inputs |-> <<key>>, hash |-> << >>]
Extract(ks, key) == [ks EXCEPT !.inputs = Append(@, key)]
Update(ks, m) == [ks EXCEPT !.hash = Append(@, m)]
Derive(ks, label) ==
  [label |-> label, by |-> HashOf[ks.suite], inputs |-> ks.inputs, over |-> ks.hash]
FinishedData(ks, key) ==
  [label |-> "finished", by |-> HashOf[ks.suite], key |-> key, over |-> ks.hash]

\* negotiate(): the first of a list that is on offer.
Negotiate(supported, offered) ==
  LET common == {i \in 1..Len(supported) : supported[i] \in offered}
  IN IF common = {} THEN None
     ELSE supported[CHOOSE i \in common : \A j \in common : i <= j]

(* The messages. *)
ClientHello(suites, modes, t, early, binder, share) ==
  [type |-> "CH", suites |-> suites, modes |-> modes, alpn |-> ClientAlpn,
   ticket |-> IF t = None THEN None ELSE t.id, early |-> early,
   binder |-> binder, share |-> share]
ServerHello(suite, psk, share) ==
  [type |-> "SH", suite |-> suite, psk |-> psk, share |-> share]
EncryptedExtensions(alpn, early) == [type |-> "EE", alpn |-> alpn, early |-> early]
Certificate == [type |-> "CERT"]
CertificateVerify(ks) == [type |-> "CV", over |-> ks.hash]
Finished(data) == [type |-> "FIN", data |-> data]
NewSessionTicket(id) == [type |-> "NST", id |-> id]

\* _build_session_ticket.  own: how many messages of the client the transcript
\* holds after its hello, for the properties.
BuildTicket(ks, id, own) ==
  [id |-> id, suite |-> ks.suite, own |-> own, secret |-> Derive(ks, "res master")]
----
(* The two contexts. *)

NoCrypto == [e \in {"initial", "handshake"} |-> << >>]

FreshClient(t) ==
  [state |-> "start", ticket |-> t, hellos |-> 0, binder |-> NoKey, share |-> None,
   psk |-> NoSchedule, proxy |-> None, schedule |-> NoSchedule, resumed |-> FALSE,
   alpn |-> None, early |-> FALSE, enc |-> NoKey, dec |-> NoKey, next |-> NoKey,
   updated |-> FALSE, extracted |-> None, own |-> 0, keys |-> [k \in Tls!Keys |-> NoKey],
   buffer |-> NoCrypto]

FreshServer ==
  [state |-> "expectCH", schedule |-> NoSchedule, resumed |-> FALSE, alpn |-> None,
   early |-> FALSE, dec |-> NoKey, nextDec |-> NoKey, expected |-> NoKey, alert |-> "none",
   keys |-> [k \in {"zeroRecv", "hsRecv", "hsSend", "oneRecv", "oneSend"} |-> NoKey]]

Init ==
  /\ config \in ServerConfigs
  /\ conn = 1
  /\ client = FreshClient(None) /\ server = FreshServer
  /\ toServer = NoCrypto /\ toClient = << >>
  /\ ticket = None /\ store = {}

\* _initialize on both ends, with the saved ticket if there is one.  A ticket is
\* too old at the server before it is at the client, which got it later; what is
\* in the store and not in the file is of no more use.
NewConnection ==
  /\ conn < MaxConnections /\ conn' = conn + 1
  /\ \E age \in {"valid", "oldAtServer", "old"} :
       /\ ticket' = IF age = "old" THEN None ELSE ticket
       /\ store' = {s \in store : age = "valid" /\ ticket # None /\ s.id = ticket.id}
  /\ client' = FreshClient(ticket')
  /\ server' = FreshServer
  /\ toServer' = NoCrypto /\ toClient' = << >>
  /\ UNCHANGED config

\* The buffer of an epoch has one more message; _push_crypto_data: the buffers of
\* the context go to the CRYPTO streams.
Into(buffer, e, m) == [buffer EXCEPT ![e] = Append(@, m)]
Pushed(buffer) == [e \in DOMAIN toServer |-> toServer[e] \o buffer[e]]
----
(* The client. *)

\* _client_send_hello: the first hello of the context sets the PSK up; a later
\* one carries the binder of the first.
OfferTicket(hello) ==
  LET start == Schedule(client.ticket.suite, client.ticket.secret)
      binder == FinishedData(Update(start, hello), Derive(start, "res binder"))
      psk == Update(start, [hello EXCEPT !.binder = binder])
  IN CASE client.ticket = None -> [binder |-> NoKey, psk |-> NoSchedule, key |-> NoKey]
       [] client.ticket # None /\ client.binder # NoKey ->
            [binder |-> client.binder, psk |-> client.psk, key |-> client.keys.zeroSend]
       [] OTHER -> [binder |-> binder, psk |-> psk, key |-> Derive(psk, "c e traffic")]

SendHello(suites) ==
  LET share == <<conn, client.hellos + 1>>
      hello == ClientHello(suites, client.ticket # None \/ config.keeps, client.ticket,
                           client.ticket # None, NoKey, share)
      offer == OfferTicket(hello)
      final == [hello EXCEPT !.binder = offer.binder]
  IN /\ client.hellos < MaxHellos
     /\ client' = [client EXCEPT !.state = "expectSH", !.hellos = @ + 1, !.share = share,
                                 !.binder = offer.binder, !.psk = offer.psk,
                                 !.keys.zeroSend = offer.key, !.proxy = final,
                                 !.buffer = NoCrypto]
     /\ toServer' = Pushed(Into(client.buffer, "initial", final))
     /\ UNCHANGED <<config, conn, server, toClient, ticket, store>>

\* The key schedule a ServerHello selects.
Select(sh) ==
  IF sh.psk THEN client.psk ELSE Update(Schedule(sh.suite, None), client.proxy)

TakeHello(sh) ==
  LET ks == Extract(Update(Select(sh), sh), [client |-> client.share, server |-> sh.share])
      key == Derive(ks, "s hs traffic")
  IN [client EXCEPT !.state = "expectEE", !.schedule = ks, !.resumed = @ \/ sh.psk,
                    !.psk = NoSchedule, !.proxy = None, !.own = 0, !.dec = key,
                    !.keys.hsRecv = key]

TakeExtensionsAnew(ee) ==   \* (mutant: a resumed client waits for a certificate)
  LET key == Derive(client.schedule, "c hs traffic")
  IN [client EXCEPT !.state = "expectCert", !.alpn = ee.alpn, !.early = ee.early, !.enc = key,
                    !.keys.hsSend = key, !.schedule = Update(@, ee)]
TakeExtensions(ee) ==
  LET key == Derive(client.schedule, "c hs traffic")
  IN [client EXCEPT !.state = IF client.resumed THEN "expectFin" ELSE "expectCert",
                    !.alpn = ee.alpn, !.early = ee.early, !.enc = key,
                    !.keys.hsSend = key, !.schedule = Update(@, ee)]

TakeFinished(fin) ==
  LET ks == Extract(Update(client.schedule, fin), None)
      key == Derive(ks, "s ap traffic")
  IN [client EXCEPT !.state = "gotFin", !.schedule = ks, !.dec = key, !.keys.oneRecv = key,
                    !.next = Derive(ks, "c ap traffic"), !.updated = TRUE]

\* An Alert of handle_message or of the handler it calls.
ClientAlerts(m) ==
  \/ m.type \notin Tls!Expected(client.state)
  \/ m.type = "SH" /\ m.suite \notin Members(ClientSuites)
  \/ m.type = "SH" /\ m.psk /\ client.psk.suite # m.suite
  \/ m.type = "CV" /\ m.over # client.schedule.hash
  \/ m.type = "FIN" /\ m.data # FinishedData(client.schedule, client.dec)

Take(m) ==
  CASE m.type = "SH"   -> TakeHello(m)
    [] m.type = "EE"   -> TakeExtensions(m)
    [] m.type = "CERT" -> [client EXCEPT !.state = "expectCV", !.schedule = Update(@, m)]
    [] m.type = "CV"   -> [client EXCEPT !.state = "expectFin", !.schedule = Update(@, m)]
    [] m.type = "FIN"  -> TakeFinished(m)
    [] m.type = "NST"  -> IF client.state = "gotFin" THEN [client EXCEPT !.extracted = m.id]
                                                     ELSE client

\* The key a message of the server is read with.
ReadKey(m) ==
  CASE m.type = "SH"  -> client.state # "start"
    [] m.type = "NST" -> client.keys.oneRecv = server.keys.oneSend
    [] OTHER          -> client.keys.hsRecv = server.keys.hsSend

\* In the end states handle_message reads nothing and asserts.
ClientBreaks(m) == Tls!Breaks([state |-> client.state], m.type)

\* handle_message of the client.  After an Alert nothing is pushed.
ClientReads ==
  /\ toClient # << >> /\ ReadKey(Head(toClient))
  /\ toClient' = Tail(toClient)
  /\ LET m == Head(toClient)
         done == ~ClientBreaks(m) /\ ~ClientAlerts(m)
     IN /\ client' = IF done THEN [Take(m) EXCEPT !.buffer = NoCrypto] ELSE client
        /\ toServer' = IF done THEN Pushed(client.buffer) ELSE toServer
        /\ ticket' = IF done /\ m.type = "NST" /\ client.state = "post" /\ config.keeps
                     THEN BuildTicket(client.schedule, m.id, client.own) ELSE ticket
  /\ UNCHANGED <<config, conn, server, store>>

\* _client_build_new_session_ticket, for the ticket that came before the client's
\* own Finished, which sent has in its transcript.
KeptTicketEarly(sent) ==   \* (mutant: it is built when it comes)
  BuildTicket(client.schedule, client.extracted, sent.own)
KeptTicket(sent) == BuildTicket(sent.schedule, client.extracted, sent.own)

\* clientSendFinished: see SendFinished of TlsClient.
SendFinished(e) ==
  LET fin == Finished(FinishedData(client.schedule, client.enc))
      written == Into(client.buffer, e, fin)
      sent == [client EXCEPT !.schedule = Update(@, fin), !.own = @ + 1,
                             !.enc = client.next, !.buffer = written]
      keeping == client.extracted # None /\ config.keeps
  IN /\ client.own < MaxWritten
     /\ client.schedule # NoSchedule /\ client.enc # NoKey
     /\ IF client.next = NoKey
        THEN client' = sent /\ UNCHANGED <<toServer, ticket>>
        ELSE /\ client' = [sent EXCEPT !.buffer = NoCrypto, !.extracted = None,
                                       !.keys.oneSend = client.next,
                                       !.state = IF keeping THEN "ticketDone" ELSE "post"]
             /\ toServer' = Pushed(written)
             /\ ticket' = IF keeping THEN KeptTicket(sent) ELSE ticket
     /\ UNCHANGED <<config, conn, server, toClient, store>>

\* clientSendCertificate.
SendCertificate ==
  /\ client.updated /\ client.own < MaxWritten
  /\ client' = [client EXCEPT !.schedule = Update(@, Certificate), !.own = @ + 1,
                              !.buffer = NoCrypto]
  /\ toServer' = Pushed(Into(client.buffer, "handshake", Certificate))
  /\ UNCHANGED <<config, conn, server, toClient, ticket, store>>
----
(* The server. *)

Alert(s, what) == [s EXCEPT !.alert = what]

\* _server_handle_hello up to the key schedule: the ticket that is taken up, once
\* it is out of the store, and the schedule it or its absence gives.
TakenUp(suite, found) == \E t \in found : t.suite = suite
Found(h) ==
  {t \in store : config.tickets /\ h.modes /\ h.ticket # None /\ t.id = h.ticket}

\* The rest of it: what is sent and what is installed.
Answer(h, suite, alpn, psk, resumed) ==
  LET s == [server EXCEPT !.alpn = alpn, !.resumed = resumed, !.early = resumed /\ h.early]
      share == <<conn, "server">>
      sh == ServerHello(suite, resumed, share)
      k1 == Extract(Update(Update(psk, h), sh), [client |-> h.share, server |-> share])
      enc == Derive(k1, "s hs traffic")
      dec == Derive(k1, "c hs traffic")
      ee == EncryptedExtensions(alpn, s.early)
      k2 == Update(k1, ee)
      certs == IF resumed THEN << >> ELSE <<Certificate, CertificateVerify(Update(k2, Certificate))>>
      k3 == [k2 EXCEPT !.hash = @ \o certs]
      fin == Finished(FinishedData(k3, enc))
      k4 == Extract(Update(k3, fin), None)
      expected == FinishedData(k4, dec)
      k5 == Update(k4, Finished(expected))
      issue == config.tickets /\ h.modes
  IN /\ server' = [s EXCEPT
           !.state = "expectFin", !.schedule = k5, !.dec = dec, !.expected = expected,
           !.nextDec = Derive(k4, "c ap traffic"),
           !.keys = [zeroRecv |-> IF s.early THEN Derive(Update(psk, h), "c e traffic") ELSE NoKey,
                     hsRecv |-> dec, hsSend |-> enc, oneRecv |-> NoKey,
                     oneSend |-> Derive(k4, "s ap traffic")]]
     /\ toClient' = toClient \o <<sh, ee>> \o certs \o <<fin>>
                      \o (IF issue THEN <<NewSessionTicket(conn)>> ELSE << >>)
     /\ store' = (store \ Found(h)) \cup (IF issue THEN {BuildTicket(k5, conn, 1)} ELSE {})

\* _server_handle_hello.
ServerTakesHello(h) ==
  LET suite == Negotiate(config.suites, h.suites)
      alpn == IF config.alpn = None THEN None ELSE Negotiate(config.alpn, Members(h.alpn))
      resumed == TakenUp(suite, Found(h))
      psk == IF resumed THEN LET t == CHOOSE t \in Found(h) : TRUE IN Schedule(suite, t.secret)
                        ELSE Schedule(suite, None)
      binder == FinishedData(Update(psk, [h EXCEPT !.binder = NoKey]), Derive(psk, "res binder"))
      refuse(s, what) == server' = Alert(s, what) /\ UNCHANGED toClient
  IN CASE suite = None -> refuse(server, "suite") /\ UNCHANGED store
       [] suite # None /\ config.alpn # None /\ alpn = None ->
            refuse(server, "alpn") /\ UNCHANGED store
       [] OTHER -> IF resumed /\ h.binder # binder
                   THEN /\ refuse([server EXCEPT !.alpn = alpn, !.schedule = psk], "psk")
                        /\ store' = store \ Found(h)
                   ELSE Answer(h, suite, alpn, psk, resumed)

\* _server_handle_finished; the handshake keys are discarded after it.
AcceptAnyFinished(fin) ==   \* (mutant: the verify data is not looked at)
  /\ server' = [server EXCEPT !.state = "post", !.dec = server.nextDec, !.nextDec = NoKey,
                              !.keys.oneRecv = server.nextDec]
  /\ UNCHANGED <<toClient, store>>
ServerTakesFinished(fin) ==
  /\ server' = IF fin.data = server.expected
               THEN [server EXCEPT !.state = "post", !.dec = server.nextDec, !.nextDec = NoKey,
                                   !.keys.oneRecv = server.nextDec]
               ELSE Alert(server, "decrypt")
  /\ UNCHANGED <<toClient, store>>

\* handle_message of the server.
ServerReads(e) ==
  /\ toServer[e] # << >>
  /\ e = "handshake" => /\ server.state # "post" /\ server.keys.hsRecv # NoKey
                        /\ server.keys.hsRecv = client.keys.hsSend
  /\ LET m == Head(toServer[e]) IN
     CASE server.state = "expectCH" /\ m.type = "CH"   -> ServerTakesHello(m)
       [] server.state = "expectFin" /\ m.type = "FIN" -> ServerTakesFinished(m)
       [] OTHER -> server' = Alert(server, "unexpected") /\ UNCHANGED <<toClient, store>>
  /\ toServer' = [toServer EXCEPT ![e] = Tail(@)]
  /\ UNCHANGED <<config, conn, client, ticket>>
----

Next ==
  \/ NewConnection
  \/ \E suites \in Offers : SendHello(suites)
  \/ ClientReads
  \/ \E e \in DOMAIN toServer : SendFinished(e) \/ ServerReads(e)
  \/ SendCertificate

Spec == Init /\ [][Next]_vars
----
(* Properties. *)

Established == {"gotFin", "post", "ticketDone"}

\* Whatever the letters before it: a client that took the server's Finished, and
\* a server that took the client's, hold the same keys and have agreed on the
\* same parameters; a 0-RTT key of the server is that of the client.
KeysAgree ==
  /\ client.state \in Established =>
       /\ server.state \in {"expectFin", "post"}
       /\ client.schedule.suite = server.schedule.suite
       /\ <<client.alpn, client.early, client.resumed>> = <<server.alpn, server.early, server.resumed>>
       /\ client.keys.hsRecv = server.keys.hsSend /\ client.keys.hsSend = server.keys.hsRecv
       /\ client.keys.oneRecv = server.keys.oneSend
  /\ server.state = "post" =>
       client.keys.oneSend # NoKey /\ client.keys.oneSend = server.keys.oneRecv
  /\ server.keys.zeroRecv # NoKey => server.keys.zeroRecv = client.keys.zeroSend

\* tls.py:1804-1806: the ticket of the client is that of the server if nothing
\* but its Finished went into the transcript before it was built.
SameTicket(t) == \A s \in store : s.id = t.id => s.secret = t.secret /\ s.suite = t.suite
TicketsAgree == ticket # None /\ ticket.own = 1 => SameTicket(ticket)

\* The same, unconditionally, as the comment has it.
TicketsAlwaysAgree == ticket # None => SameTicket(ticket)

\* The server refuses what it has a reason to refuse: lists without a common
\* member, a second hello, a certificate or a second Finished, and a ticket that
\* was spoiled by one of these in the connection it came from.
RefusesWithReason ==
  CASE server.alert = "none"  -> TRUE
    [] server.alert = "suite" -> \E s \in Suites : s \notin Members(config.suites)
    [] server.alert = "alpn"  -> Members(config.alpn) \cap Members(ClientAlpn) = {}
    [] server.alert = "psk"   -> client.hellos > 1 \/ client.ticket.own # 1
    [] OTHER -> \* "unexpected", "decrypt"
         client.hellos > 1 \/ client.own > (IF client.keys.oneSend = NoKey THEN 0 ELSE 1)

\* One hello and one Finished, after that of the server, make the handshake: the
\* client can read all that comes, and the server takes the Finished.
OrderlyHandshake ==
  client.hellos = 1 =>
    /\ client.own = 0 /\ toClient # << >> =>
         ReadKey(Head(toClient)) /\ ~ClientAlerts(Head(toClient))
    /\ client.own = 1 /\ client.state \in {"post", "ticketDone"} /\ client.next # NoKey
         /\ (\A e \in DOMAIN toServer : toServer[e] = << >>) => server.state = "post"

\* The client as TlsClient has it.
ClientView ==
  [state |-> client.state, hellos |-> client.hellos, psk |-> client.psk # NoSchedule,
   resumed |-> client.resumed, schedule |-> client.schedule # NoSchedule,
   fit |-> client.keys.hsRecv # NoKey /\ client.keys.hsRecv = server.keys.hsSend,
   mixed |-> client.own > 0, encKey |-> client.enc # NoKey, nextKey |-> client.next # NoKey,
   updated |-> client.updated, certReq |-> FALSE, extracted |-> client.extracted # None,
   heard |-> Tls!Nothing, keys |-> {k \in Tls!Keys : client.keys[k] # NoKey},
   buffer |-> UNION {{<<e, m.type>> : m \in Members(client.buffer[e])} : e \in DOMAIN toServer}]

\* Every step of the client is one TlsClient allows, Alerts included.
Flushed(t) == [t EXCEPT !.buffer = {}]
ViewStep(t, u) ==
  \/ u = Tls!FreshTls
  \/ u = Flushed(Tls!SendHello(t, client.ticket # None))
  \/ \E e \in DOMAIN toServer : LET s == Tls!SendFinished(t, e, config.keeps)
                               IN u = IF Tls!FinishedIsSent(t) THEN Flushed(s) ELSE s
  \/ Tls!CanSendCertificate(t) /\ u = Flushed(Tls!WriteOwn(t, "CERT"))
ViewReads(t, u, m) ==
  LET psk == m.type = "SH" /\ m.psk
  IN IF Tls!Breaks(t, m.type) \/ Tls!Alerts(t, m.type, psk) THEN u = t
     ELSE \E last \in BOOLEAN : u = Flushed(Tls!Take(t, m.type, last, psk))
ImplementsTlsClient ==
  [][/\ ClientReads => ViewReads(ClientView, ClientView', Head(toClient))
     /\ ~ClientReads /\ ClientView' # ClientView => ViewStep(ClientView, ClientView')]_vars
====
