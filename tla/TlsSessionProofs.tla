---- MODULE TlsSessionProofs ----
(***************************************************************************)
(* The two ends of a TLS session agree on keys, parameters and tickets,    *)
(* whatever the letters ask of the client, whatever the server is          *)
(* configured with, over any number of connections.                        *)
(***************************************************************************)
EXTENDS TlsSession, SequenceTheorems, WellFoundedInduction, TLAPS

----------------------------------------------------------------------------
\* What a server that has answered has put into its key schedule, and what
\* follows from it.

\* The sequences of messages.
IsSeq(s) == s \in Seq(Members(s))

Answered == server.state # "expectCH"

\* The ClientHello it answered, the secrets, and what it chose.
TheAnswer ==
  [hello |-> server.schedule.hash[1], suite |-> server.schedule.suite,
   inputs |-> <<server.schedule.inputs[1], server.schedule.inputs[2]>>,
   resumed |-> server.resumed, alpn |-> server.alpn, early |-> server.early, conn |-> conn]

IsAnswer(a) == a.resumed \in BOOLEAN /\ a.hello.type = "CH"
Sh(a) == ServerHello(a.suite, a.resumed, <<a.conn, "server">>)
Ee(a) == EncryptedExtensions(a.alpn, a.early)
WithHello(a) == <<a.hello, Sh(a)>>
WithExtensions(a) == <<a.hello, Sh(a), Ee(a)>>
WithCertificate(a) == <<a.hello, Sh(a), Ee(a), Certificate>>
Cv(a) == [type |-> "CV", over |-> WithCertificate(a)]
BeforeFinished(a) ==
  IF a.resumed THEN WithExtensions(a)
  ELSE <<a.hello, Sh(a), Ee(a), Certificate, Cv(a)>>

\* Append and concatenation, by names that the provers leave alone.
More(s, m) == Append(s, m)
Joined(s, t) == s \o t

\* The same for truth values.
Yes == TRUE
No == FALSE
Either(x, y) == x \/ y

\* A key schedule, that of the handshake and that of the application.
Keyed(suite, inputs, hash) == [suite |-> suite, inputs |-> inputs, hash |-> hash]
Handshaking(a, t) == Keyed(a.suite, a.inputs, t)
Applying(a, t) == Keyed(a.suite, More(a.inputs, None), t)

ServerKey(a) == Derive(Handshaking(a, WithHello(a)), "s hs traffic")
ClientKey(a) == Derive(Handshaking(a, WithHello(a)), "c hs traffic")
Fin(a) == Finished(FinishedData(Handshaking(a, BeforeFinished(a)), ServerKey(a)))
WithFinished(a) == More(BeforeFinished(a), Fin(a))
ServerNext(a) == Derive(Applying(a, WithFinished(a)), "s ap traffic")
ClientNext(a) == Derive(Applying(a, WithFinished(a)), "c ap traffic")

\* The client's Finished, as the server waits for it.
Verify(a) == FinishedData(Applying(a, WithFinished(a)), ClientKey(a))
Complete(a) == More(WithFinished(a), Finished(Verify(a)))

----------------------------------------------------------------------------
\* The inductive invariant.

Epochs == {"initial", "handshake"}
AreStreams(b) == b = [e \in Epochs |-> b[e]] /\ \A e \in Epochs : IsSeq(b[e])
Shapes ==
  /\ DOMAIN client = {"state", "ticket", "hellos", "binder", "share", "psk", "proxy",
                      "schedule", "resumed", "alpn", "early", "enc", "dec", "next", "updated",
                      "extracted", "own", "keys", "buffer"}
  /\ DOMAIN client.keys = Tls!Keys
  /\ client.hellos \in Nat /\ client.own \in Nat
  /\ client.updated \in BOOLEAN /\ client.resumed \in BOOLEAN
  /\ DOMAIN server = {"state", "schedule", "resumed", "alpn", "early", "dec", "nextDec",
                      "expected", "alert", "keys"}
  /\ DOMAIN server.keys = {"zeroRecv", "hsRecv", "hsSend", "oneRecv", "oneSend"}
  /\ AreStreams(toServer) /\ AreStreams(client.buffer)
  /\ conn \in Nat /\ config \in ServerConfigs

\* What the client has written and the server has not read.
AllOf(b) == UNION {Members(b[e]) : e \in Epochs}
Unread == AllOf(toServer) \cup AllOf(client.buffer)

\* The hellos.  The binder names the first of them, without its binder.
Start == Schedule(client.ticket.suite, client.ticket.secret)
FirstHello == [client.binder.over[1] EXCEPT !.binder = client.binder]
IsHello(m) ==
  /\ m = [type |-> "CH", suites |-> m.suites, modes |-> m.modes, alpn |-> m.alpn,
          ticket |-> m.ticket, early |-> m.early, binder |-> m.binder, share |-> m.share]
  /\ m.suites \in Offers
  /\ m.ticket = IF client.ticket = None THEN None ELSE client.ticket.id
  /\ m.binder = client.binder
HellosOK ==
  /\ \A m \in Unread : m.type \in {"CH", "CERT", "FIN"} /\ (m.type = "CH" => IsHello(m))
  /\ client.hellos > 0 => client.share = <<conn, client.hellos>>
  /\ client.hellos = 0 \/ client.ticket = None =>
       client.binder = NoKey /\ client.psk = NoSchedule /\ client.keys.zeroSend = NoKey
  /\ client.hellos = 0 => client.state = "start" /\ Unread = {}
  /\ client.hellos > 0 /\ client.ticket # None =>
       /\ client.binder = FinishedData(Update(Start, client.binder.over[1]),
                                       Derive(Start, "res binder"))
       /\ FirstHello.share = <<conn, 1>>
       /\ client.psk \in {NoSchedule, Update(Start, FirstHello)}
       /\ client.keys.zeroSend = Derive(Update(Start, FirstHello), "c e traffic")

\* A server that has not answered, and one that has.
ServerOK ==
  LET a == TheAnswer IN
  IF ~Answered
  THEN /\ toClient = << >> /\ client.keys.hsRecv = NoKey
       /\ server.keys.zeroRecv = NoKey /\ server.keys.hsSend = NoKey
  ELSE /\ server.state \in {"expectFin", "post"}
       /\ server.schedule = Applying(a, Complete(a))
       /\ a.inputs[2] = [client |-> a.hello.share, server |-> <<conn, "server">>]
       /\ server.keys.hsSend = ServerKey(a) /\ server.keys.hsRecv = ClientKey(a)
       /\ server.keys.oneSend = ServerNext(a)
       /\ server.expected = Verify(a)
       /\ server.state = "expectFin" => server.nextDec = ClientNext(a)
       /\ server.state = "post" =>
            client.keys.oneSend = ClientNext(a) /\ server.keys.oneRecv = ClientNext(a)
       /\ server.keys.zeroRecv \in {NoKey, client.keys.zeroSend}
       /\ a.suite \in Members(ClientSuites) /\ IsAnswer(a)
       /\ client.hellos > 0
       /\ a.resumed => /\ client.ticket # None /\ a.suite = client.ticket.suite
                       /\ a.hello = FirstHello

\* What is on its way to the client: the answer, in its order.
Place == [SH |-> 1, EE |-> 2, CERT |-> 3, CV |-> 4, FIN |-> 5, NST |-> 6]
Types(s) == {m.type : m \in Members(s)}
Flight(a) == {Sh(a), Ee(a), Certificate, Cv(a), Fin(a), NewSessionTicket(a.conn)}
IsFlight(a, s) ==
  /\ IsSeq(s) /\ Members(s) \subseteq Flight(a)
  /\ \A i, j \in 1..Len(s) : i < j => Place[s[i].type] < Place[s[j].type]
FlightOK == IsFlight(TheAnswer, toClient)

\* The client before the ServerHello, before the EncryptedExtensions, before the
\* Finished of the server, and after it.
BeforeHello ==
  /\ client.state \in {"start", "expectSH"}
  /\ client.schedule = NoSchedule /\ ~client.resumed /\ ~client.updated
  /\ client.enc = NoKey /\ client.dec = NoKey /\ client.next = NoKey
  /\ client.keys.hsSend = NoKey /\ client.keys.oneRecv = NoKey /\ client.keys.oneSend = NoKey
  /\ client.extracted = None /\ client.own = 0
  /\ client.buffer = NoCrypto /\ \A m \in Unread : m.type = "CH"

BeforeExtensions(a) ==
  /\ client.state \in {"expectEE", "expectSH"} /\ "SH" \notin Types(toClient)
  /\ client.schedule = Keyed(a.suite, client.schedule.inputs, client.schedule.hash)
  /\ client.keys.hsRecv = Derive(client.schedule, "s hs traffic")
  /\ client.dec = client.keys.hsRecv /\ client.resumed = a.resumed /\ ~client.updated
  /\ client.enc = NoKey /\ client.next = NoKey
  /\ client.keys.hsSend = NoKey /\ client.keys.oneRecv = NoKey /\ client.keys.oneSend = NoKey
  /\ client.extracted = None /\ client.own = 0 /\ client.psk = NoSchedule
  /\ client.buffer = NoCrypto /\ \A m \in Unread : m.type = "CH"

\* As long as the client has put nothing of its own into the transcript.
InStep(a) ==
  /\ client.enc = ClientKey(a)
  /\ client.schedule.hash \in {WithExtensions(a), WithCertificate(a), BeforeFinished(a)}
  /\ client.state = "expectCert" => ~a.resumed /\ client.schedule.hash = WithExtensions(a)
  /\ client.state = "expectCV" => ~a.resumed /\ client.schedule.hash = WithCertificate(a)
  /\ client.state = "expectFin" => client.schedule.hash = BeforeFinished(a)

BeforeEnd(a) ==
  /\ client.state \in {"expectCert", "expectCV", "expectFin", "expectSH"}
  /\ {"SH", "EE"} \cap Types(toClient) = {}
  /\ client.schedule = Handshaking(a, client.schedule.hash) /\ IsSeq(client.schedule.hash)
  /\ client.keys.hsRecv = ServerKey(a) /\ client.keys.hsSend = ClientKey(a)
  /\ client.dec = ServerKey(a) /\ client.enc \in {NoKey, ClientKey(a)} /\ client.next = NoKey
  /\ <<client.alpn, client.early, client.resumed>> = <<a.alpn, a.early, a.resumed>>
  /\ client.keys.oneRecv = NoKey /\ client.keys.oneSend = NoKey
  /\ client.extracted = None /\ client.psk = NoSchedule /\ ~client.updated
  /\ IF client.own = 0 THEN InStep(a)
     ELSE \E m \in Members(client.schedule.hash) : m.type = "FIN"
  /\ \A m \in Members(client.schedule.hash) :
       m.type = "FIN" => m.data.key.label = "c hs traffic"
  /\ \A m \in Unread : m.type = "FIN" => m.data # Verify(a)

AfterEnd(a) ==
  /\ client.state \in {"gotFin", "post", "ticketDone", "expectSH"}
  /\ {"SH", "EE", "CERT", "CV", "FIN"} \cap Types(toClient) = {}
  /\ client.schedule = Applying(a, client.schedule.hash) /\ IsSeq(client.schedule.hash)
  /\ client.keys.hsRecv = ServerKey(a) /\ client.keys.hsSend = ClientKey(a)
  /\ client.next = ClientNext(a) /\ client.keys.oneRecv = ServerNext(a)
  /\ <<client.alpn, client.early, client.resumed>> = <<a.alpn, a.early, a.resumed>>
  /\ client.keys.oneSend \in {NoKey, ClientNext(a)} /\ client.extracted \in {None, conn}
  /\ client.psk = NoSchedule /\ client.updated
  /\ client.own = 0 => client.enc = ClientKey(a) /\ client.schedule.hash = WithFinished(a)
  /\ client.state \in {"post", "ticketDone"} =>
       /\ client.own > 0 /\ client.keys.oneSend = ClientNext(a)
       /\ client.own = 1 => client.schedule.hash = Complete(a)
  /\ client.keys.oneSend = NoKey => \A m \in Unread : m.type = "FIN" => m.data # Verify(a)

ClientOK ==
  LET a == TheAnswer IN
  IF client.keys.hsRecv = NoKey THEN BeforeHello
  ELSE IF client.keys.hsSend = NoKey THEN BeforeExtensions(a)
  ELSE IF client.next = NoKey THEN BeforeEnd(a)
  ELSE AfterEnd(a)

\* Tickets that have the same number have the same suite, and the same secret if
\* the client built its own at the right time.
Alike(t) ==
  t # None => /\ t.id \in Nat /\ t.id <= conn
              /\ \A s \in store : s.id = t.id =>
                   s.suite = t.suite /\ (t.own = 1 => s.secret = t.secret)
TicketsOK ==
  /\ \A s \in store :
       /\ s.id \in Nat /\ s.id <= conn
       /\ s.id = conn => Answered /\ s = BuildTicket(Applying(TheAnswer, Complete(TheAnswer)), conn, 1)
  /\ Alike(ticket) /\ Alike(client.ticket)
  /\ client.ticket # None => client.ticket.id < conn
  /\ ticket # None /\ ticket.id = conn => Answered

SessionInv == Shapes /\ HellosOK /\ ServerOK /\ FlightOK /\ ClientOK /\ TicketsOK

----------------------------------------------------------------------------
\* Sequences and their members.

LEMMA MembersOf ==
  ASSUME NEW s, IsSeq(s)
  PROVE  /\ Len(s) \in Nat /\ DOMAIN s = 1..Len(s)
         /\ \A i \in 1..Len(s) : s[i] \in Members(s)
         /\ Members(s) = {} <=> s = << >>
<1>1. /\ s \in Seq(Members(s)) /\ Len(s) \in Nat /\ DOMAIN s = 1..Len(s)
  BY LenProperties DEF IsSeq
<1>2. \A i \in 1..Len(s) : s[i] \in Members(s)
  BY DEF Members
<1>3. Members(s) = {} => s = << >>
  <2>1. Members(s) = {} => Len(s) = 0
    BY <1>1, <1>2
  <2>2. QED
    BY <1>1, <2>1, EmptySeq
<1>4. s = << >> => Members(s) = {}
  BY DEF Members
<1>5. QED
  BY <1>1, <1>2, <1>3, <1>4

LEMMA EmptyIsSeq == IsSeq(<< >>) /\ Members(<< >>) = {}
BY DEF IsSeq, Members

LEMMA AppendIsSeq ==
  ASSUME NEW s, IsSeq(s), NEW m
  PROVE  IsSeq(Append(s, m)) /\ Members(Append(s, m)) = Members(s) \cup {m}
<1> DEFINE X == Members(s) \cup {m}
           t == Append(s, m)
<1>1. s \in Seq(X) /\ m \in X /\ Len(s) \in Nat
  <2>1. s \in Seq(Members(s)) /\ Len(s) \in Nat
    BY LenProperties DEF IsSeq
  <2>2. QED
    BY <2>1, SeqMonotonic
<1>2. /\ t \in Seq(X) /\ Len(t) = Len(s) + 1
      /\ \A i \in 1..Len(s) : t[i] = s[i]
      /\ t[Len(s) + 1] = m
  BY <1>1, AppendProperties
<1>3. Members(t) = X
  <2>1. ASSUME NEW x \in Members(t) PROVE x \in X
    <3>1. PICK i \in 1..Len(t) : x = t[i]
      BY DEF Members
    <3>2. i \in 1..Len(s) \/ i = Len(s) + 1
      BY <1>1, <1>2
    <3>3. QED
      BY <1>2, <3>1, <3>2 DEF Members
  <2>2. ASSUME NEW x \in Members(s) PROVE x \in Members(t)
    <3>1. PICK i \in 1..Len(s) : x = s[i]
      BY DEF Members
    <3>2. i \in 1..Len(t) /\ t[i] = x
      BY <1>1, <1>2, <3>1
    <3>3. QED
      BY <3>2 DEF Members
  <2>3. m \in Members(t)
    <3>1. Len(s) + 1 \in 1..Len(t)
      BY <1>1, <1>2
    <3>2. QED
      BY <1>2, <3>1 DEF Members
  <2>4. QED
    BY <2>1, <2>2, <2>3
<1>4. QED
  BY <1>2, <1>3 DEF IsSeq

LEMMA ConcatIsSeq ==
  ASSUME NEW s, IsSeq(s), NEW t, IsSeq(t)
  PROVE  /\ IsSeq(s \o t) /\ Members(s \o t) = Members(s) \cup Members(t)
         /\ Len(s \o t) = Len(s) + Len(t)
         /\ \A i \in 1..Len(s) : (s \o t)[i] = s[i]
         /\ \A i \in 1..Len(t) : (s \o t)[Len(s) + i] = t[i]
<1> DEFINE X == Members(s) \cup Members(t)
           c == s \o t
<1>1. s \in Seq(X) /\ t \in Seq(X) /\ Len(s) \in Nat /\ Len(t) \in Nat
  <2>1. s \in Seq(Members(s)) /\ t \in Seq(Members(t)) /\ Len(s) \in Nat /\ Len(t) \in Nat
    BY LenProperties DEF IsSeq
  <2>2. QED
    BY <2>1, SeqMonotonic
<1>2. /\ c \in Seq(X) /\ Len(c) = Len(s) + Len(t)
      /\ \A i \in 1..Len(c) : c[i] = IF i <= Len(s) THEN s[i] ELSE t[i - Len(s)]
  BY <1>1, ConcatProperties
<1>3. \A i \in 1..Len(s) : i \in 1..Len(c) /\ c[i] = s[i]
  BY <1>1, <1>2
<1>4. \A i \in 1..Len(t) : Len(s) + i \in 1..Len(c) /\ c[Len(s) + i] = t[i]
  <2>1. SUFFICES ASSUME NEW i \in 1..Len(t)
                 PROVE  Len(s) + i \in 1..Len(c) /\ c[Len(s) + i] = t[i]
    OBVIOUS
  <2>2. Len(s) + i \in 1..Len(c) /\ ~(Len(s) + i <= Len(s)) /\ (Len(s) + i) - Len(s) = i
    BY <1>1, <1>2
  <2>3. QED
    BY <1>2, <2>2
<1>5. Members(c) = X
  <2>1. ASSUME NEW x \in Members(c) PROVE x \in X
    <3>1. PICK i \in 1..Len(c) : x = c[i]
      BY DEF Members
    <3>2. i \in 1..Len(s) \/ (i - Len(s) \in 1..Len(t) /\ i > Len(s))
      BY <1>1, <1>2
    <3>3. x \in Members(s) \/ x \in Members(t)
      BY <1>1, <1>2, <3>1, <3>2 DEF Members
    <3>4. QED
      BY <3>3
  <2>2. ASSUME NEW x \in Members(s) PROVE x \in Members(c)
    BY <1>3 DEF Members
  <2>3. ASSUME NEW x \in Members(t) PROVE x \in Members(c)
    BY <1>4 DEF Members
  <2>4. QED
    BY <2>1, <2>2, <2>3
<1>6. QED
  BY <1>2, <1>3, <1>4, <1>5 DEF IsSeq

LEMMA TailIsSeq ==
  ASSUME NEW s, IsSeq(s), s # << >>
  PROVE  /\ IsSeq(Tail(s)) /\ Members(Tail(s)) \subseteq Members(s)
         /\ Head(s) \in Members(s) /\ Head(s) = s[1]
         /\ Len(Tail(s)) = Len(s) - 1 /\ Len(s) \in Nat \ {0}
         /\ \A i \in 1..Len(Tail(s)) : Tail(s)[i] = s[i + 1]
<1> DEFINE X == Members(s)
           t == Tail(s)
<1>1. s \in Seq(X) /\ Len(s) \in Nat /\ Len(s) # 0
  BY LenProperties, EmptySeq DEF IsSeq
<1>2. /\ t \in Seq(X) /\ Len(t) = Len(s) - 1
      /\ \A i \in 1..Len(t) : t[i] = s[i + 1]
      /\ Head(s) = s[1]
  BY <1>1, HeadTailProperties
<1>3. Head(s) \in X
  BY <1>1, <1>2 DEF Members
<1>4. Members(t) \subseteq X
  <2>1. SUFFICES ASSUME NEW x \in Members(t) PROVE x \in X
    OBVIOUS
  <2>2. PICK i \in 1..Len(t) : x = t[i]
    BY DEF Members
  <2>3. i + 1 \in 1..Len(s)
    BY <1>1, <1>2
  <2>4. QED
    BY <1>2, <2>2, <2>3 DEF Members
<1>5. t \in Seq(Members(t))
  <2>1. \A i \in 1..Len(t) : t[i] \in Members(t)
    BY DEF Members
  <2>2. t \in [1..Len(t) -> Members(t)] /\ Len(t) \in Nat
    BY <1>1, <1>2, <2>1, LenProperties
  <2>3. QED
    BY <2>2, SeqDef
<1>6. QED
  BY <1>1, <1>2, <1>3, <1>4, <1>5 DEF IsSeq


\* Tuples of messages, made by Append.
LEMMA Append0 == \A a : Append(<< >>, a) = <<a>>
OBVIOUS

LEMMA Append1 == \A a, b : Append(<<a>>, b) = <<a, b>>
<1> SUFFICES ASSUME NEW a, NEW b PROVE Append(<<a>>, b) = <<a, b>>
  OBVIOUS
<1> DEFINE X == {a, b}  s == <<a>>  t == Append(s, b)  r == <<a, b>>
<1>1. s \in Seq(X) /\ r \in Seq(X) /\ Len(s) = 1 /\ Len(r) = 2
  OBVIOUS
<1>2. /\ t \in Seq(X) /\ Len(t) = Len(s) + 1 /\ t[Len(s) + 1] = b
      /\ \A i \in 1..Len(s) : t[i] = s[i]
  BY <1>1, AppendProperties
<1> HIDE DEF t
<1>3. t[1] = a /\ t[2] = b
  BY <1>1, <1>2
<1>4. \A i \in 1..2 : i \in {1, 2}
  OBVIOUS
<1>5. Len(t) = 2 /\ \A i \in 1..2 : t[i] = r[i]
  BY <1>1, <1>2, <1>3, <1>4
<1>6. QED
  BY <1>1, <1>2, <1>5, SeqEqual DEF t

LEMMA Append2 == \A a, b, c : Append(<<a, b>>, c) = <<a, b, c>>
<1> SUFFICES ASSUME NEW a, NEW b, NEW c PROVE Append(<<a, b>>, c) = <<a, b, c>>
  OBVIOUS
<1> DEFINE X == {a, b, c}  s == <<a, b>>  t == Append(s, c)  r == <<a, b, c>>
<1>1. s \in Seq(X) /\ r \in Seq(X) /\ Len(s) = 2 /\ Len(r) = 3
  OBVIOUS
<1>2. /\ t \in Seq(X) /\ Len(t) = Len(s) + 1 /\ t[Len(s) + 1] = c
      /\ \A i \in 1..Len(s) : t[i] = s[i]
  BY <1>1, AppendProperties
<1> HIDE DEF t
<1>3. t[1] = a /\ t[2] = b /\ t[3] = c
  BY <1>1, <1>2
<1>4. \A i \in 1..3 : i \in {1, 2, 3}
  OBVIOUS
<1>5. Len(t) = 3 /\ \A i \in 1..3 : t[i] = r[i]
  BY <1>1, <1>2, <1>3, <1>4
<1>6. QED
  BY <1>1, <1>2, <1>5, SeqEqual DEF t

LEMMA Append3 == \A a, b, c, d : Append(<<a, b, c>>, d) = <<a, b, c, d>>
<1> SUFFICES ASSUME NEW a, NEW b, NEW c, NEW d PROVE Append(<<a, b, c>>, d) = <<a, b, c, d>>
  OBVIOUS
<1> DEFINE X == {a, b, c, d}  s == <<a, b, c>>  t == Append(s, d)  r == <<a, b, c, d>>
<1>1. s \in Seq(X) /\ r \in Seq(X) /\ Len(s) = 3 /\ Len(r) = 4
  OBVIOUS
<1>2. /\ t \in Seq(X) /\ Len(t) = Len(s) + 1 /\ t[Len(s) + 1] = d
      /\ \A i \in 1..Len(s) : t[i] = s[i]
  BY <1>1, AppendProperties
<1> HIDE DEF t
<1>3. t[1] = a /\ t[2] = b /\ t[3] = c /\ t[4] = d
  BY <1>1, <1>2
<1>4. \A i \in 1..4 : i \in {1, 2, 3, 4}
  OBVIOUS
<1>5. Len(t) = 4 /\ \A i \in 1..4 : t[i] = r[i]
  BY <1>1, <1>2, <1>3, <1>4
<1>6. QED
  BY <1>1, <1>2, <1>5, SeqEqual DEF t

LEMMA Append4 == \A a, b, c, d, e : Append(<<a, b, c, d>>, e) = <<a, b, c, d, e>>
<1> SUFFICES ASSUME NEW a, NEW b, NEW c, NEW d, NEW e
             PROVE  Append(<<a, b, c, d>>, e) = <<a, b, c, d, e>>
  OBVIOUS
<1> DEFINE X == {a, b, c, d, e}  s == <<a, b, c, d>>  t == Append(s, e)  r == <<a, b, c, d, e>>
<1>1. s \in Seq(X) /\ r \in Seq(X) /\ Len(s) = 4 /\ Len(r) = 5
  OBVIOUS
<1>2. /\ t \in Seq(X) /\ Len(t) = Len(s) + 1 /\ t[Len(s) + 1] = e
      /\ \A i \in 1..Len(s) : t[i] = s[i]
  BY <1>1, AppendProperties
<1> HIDE DEF t
<1>3. t[1] = a /\ t[2] = b /\ t[3] = c /\ t[4] = d /\ t[5] = e
  BY <1>1, <1>2
<1>4. \A i \in 1..5 : i \in {1, 2, 3, 4, 5}
  OBVIOUS
<1>5. Len(t) = 5 /\ \A i \in 1..5 : t[i] = r[i]
  BY <1>1, <1>2, <1>3, <1>4
<1>6. QED
  BY <1>1, <1>2, <1>5, SeqEqual DEF t

LEMMA Concat2 == \A a, b, c, d, e : <<a, b, c>> \o <<d, e>> = <<a, b, c, d, e>>
<1> SUFFICES ASSUME NEW a, NEW b, NEW c, NEW d, NEW e
             PROVE  <<a, b, c>> \o <<d, e>> = <<a, b, c, d, e>>
  OBVIOUS
<1> DEFINE X == {a, b, c, d, e}  s == <<a, b, c>>  t == <<d, e>>  u == s \o t
           r == <<a, b, c, d, e>>
<1>1. s \in Seq(X) /\ t \in Seq(X) /\ r \in Seq(X)
  OBVIOUS
<1>2. Len(s) = 3 /\ Len(t) = 2 /\ Len(r) = 5
  OBVIOUS
<1>3. /\ u \in Seq(X) /\ Len(u) = Len(s) + Len(t)
      /\ \A i \in 1..Len(u) : u[i] = IF i <= Len(s) THEN s[i] ELSE t[i - Len(s)]
  BY <1>1, ConcatProperties
<1> HIDE DEF u
<1>4. u[1] = a /\ u[2] = b /\ u[3] = c /\ u[4] = d /\ u[5] = e
  BY <1>2, <1>3
<1>5. \A i \in 1..5 : i \in {1, 2, 3, 4, 5}
  OBVIOUS
<1>6. Len(u) = 5 /\ \A i \in 1..5 : u[i] = r[i]
  BY <1>2, <1>3, <1>4, <1>5
<1>7. QED
  BY <1>1, <1>2, <1>3, <1>6, SeqEqual DEF u


----------------------------------------------------------------------------
\* Terms.

\* Different labels, inputs or transcripts make different secrets, and none is
\* the absence of one.
LEMMA TermsDiffer ==
  ASSUME NEW k, NEW l, NEW x, NEW y
  PROVE  /\ Derive(k, x) = Derive(l, y) =>
              x = y /\ HashOf[k.suite] = HashOf[l.suite] /\ k.inputs = l.inputs /\ k.hash = l.hash
         /\ FinishedData(k, x) = FinishedData(l, y) =>
              x = y /\ HashOf[k.suite] = HashOf[l.suite] /\ k.hash = l.hash
         /\ x # "none" => Derive(k, x) # NoKey
         /\ FinishedData(k, x) # NoKey
<1>1. Derive(k, x).label = x /\ Derive(k, x).by = HashOf[k.suite]
      /\ Derive(k, x).inputs = k.inputs /\ Derive(k, x).over = k.hash
  BY DEF Derive
<1>2. Derive(l, y).label = y /\ Derive(l, y).by = HashOf[l.suite]
      /\ Derive(l, y).inputs = l.inputs /\ Derive(l, y).over = l.hash
  BY DEF Derive
<1>3. FinishedData(k, x).by = HashOf[k.suite] /\ FinishedData(k, x).key = x
      /\ FinishedData(k, x).over = k.hash /\ FinishedData(k, x).label = "finished"
  BY DEF FinishedData
<1>4. FinishedData(l, y).by = HashOf[l.suite] /\ FinishedData(l, y).key = y
      /\ FinishedData(l, y).over = l.hash
  BY DEF FinishedData
<1>5. NoKey.label = "none"
  BY DEF NoKey
<1>6. QED
  BY <1>1, <1>2, <1>3, <1>4, <1>5

LEMMA FinishedIsKey == \A k, x : FinishedData(k, x) # NoKey
BY DEF FinishedData, NoKey

LEMMA DerivedIsKey == \A k, x : x # "none" => Derive(k, x) # NoKey
BY DEF Derive, NoKey

\* The transcripts of an answer.
LEMMA AnswerIs ==
  \A a : IsAnswer(a) =>
         /\ IsSeq(WithHello(a)) /\ IsSeq(WithExtensions(a)) /\ IsSeq(BeforeFinished(a))
         /\ IsSeq(WithCertificate(a)) /\ IsSeq(WithFinished(a)) /\ IsSeq(Complete(a))
         /\ WithHello(a)[1] = a.hello /\ Complete(a)[1] = a.hello
         /\ Members(BeforeFinished(a)) \subseteq {a.hello, Sh(a), Ee(a), Certificate, Cv(a)}
         /\ Members(WithExtensions(a)) \subseteq {a.hello, Sh(a), Ee(a), Certificate, Cv(a)}
         /\ Members(WithCertificate(a)) \subseteq {a.hello, Sh(a), Ee(a), Certificate, Cv(a)}
         /\ Fin(a) \in Members(WithFinished(a))
         /\ Fin(a).type = "FIN" /\ Fin(a).data.key.label = "s hs traffic"
<1> SUFFICES ASSUME NEW a, IsAnswer(a)
             PROVE
         /\ IsSeq(WithHello(a)) /\ IsSeq(WithExtensions(a)) /\ IsSeq(BeforeFinished(a))
         /\ IsSeq(WithCertificate(a)) /\ IsSeq(WithFinished(a)) /\ IsSeq(Complete(a))
         /\ WithHello(a)[1] = a.hello /\ Complete(a)[1] = a.hello
         /\ Members(BeforeFinished(a)) \subseteq {a.hello, Sh(a), Ee(a), Certificate, Cv(a)}
         /\ Members(WithExtensions(a)) \subseteq {a.hello, Sh(a), Ee(a), Certificate, Cv(a)}
         /\ Members(WithCertificate(a)) \subseteq {a.hello, Sh(a), Ee(a), Certificate, Cv(a)}
         /\ Fin(a) \in Members(WithFinished(a))
         /\ Fin(a).type = "FIN" /\ Fin(a).data.key.label = "s hs traffic"
  OBVIOUS
<1> DEFINE X == {a.hello, Sh(a), Ee(a), Certificate, Cv(a)}
<1>1. ASSUME NEW s, s \in Seq(X)
      PROVE  IsSeq(s) /\ Members(s) \subseteq X
  <2>1. \A i \in 1..Len(s) : s[i] \in X /\ s[i] \in Members(s)
    BY <1>1, ElementOfSeq DEF Members
  <2>2. s \in [1..Len(s) -> Members(s)] /\ Len(s) \in Nat
    BY <1>1, <2>1, LenProperties
  <2>3. s \in Seq(Members(s))
    BY <2>2, SeqDef
  <2>4. QED
    BY <2>1, <2>3 DEF IsSeq, Members
<1>2. /\ WithHello(a) \in Seq(X) /\ WithExtensions(a) \in Seq(X) /\ WithCertificate(a) \in Seq(X)
      /\ WithHello(a)[1] = a.hello
  BY DEF WithHello, WithExtensions, WithCertificate
<1>3. BeforeFinished(a) \in Seq(X) /\ BeforeFinished(a)[1] = a.hello /\ Len(BeforeFinished(a)) >= 3
      /\ Len(BeforeFinished(a)) \in Nat
  <2>1. CASE a.resumed
    BY <2>1 DEF BeforeFinished, WithExtensions
  <2>2. CASE ~a.resumed
    BY <2>2 DEF BeforeFinished
  <2>3. QED
    BY <2>1, <2>2 DEF IsAnswer
<1>4. IsSeq(BeforeFinished(a)) /\ Members(BeforeFinished(a)) \subseteq X
  BY <1>1, <1>3
<1> DEFINE s == BeforeFinished(a)  m == Fin(a)  t == Append(s, m)
           v == Finished(Verify(a))  u == Append(t, v)
<1> HIDE DEF s, m, v
<1>5. /\ Len(t) = Len(s) + 1 /\ \A i \in 1..Len(s) : t[i] = s[i]
      /\ IsSeq(t) /\ Members(t) = Members(s) \cup {m}
  <2>1. s \in Seq(Members(s) \cup {m})
    BY <1>4, SeqMonotonic DEF IsSeq, s
  <2>2. QED
    BY <1>4, <2>1, AppendProperties, AppendIsSeq DEF s
<1> HIDE DEF t
<1>6. /\ Len(u) = Len(t) + 1 /\ \A i \in 1..Len(t) : u[i] = t[i]
      /\ IsSeq(u) /\ Members(u) = Members(t) \cup {v}
  <2>1. t \in Seq(Members(t) \cup {v})
    BY <1>5, SeqMonotonic DEF IsSeq
  <2>2. QED
    BY <1>5, <2>1, AppendProperties, AppendIsSeq
<1>7. u[1] = a.hello /\ u # t
  <2>1. Len(s) \in Nat /\ Len(s) >= 3 /\ s[1] = a.hello
    BY <1>3 DEF s
  <2> HIDE DEF u
  <2>2. Len(u) # Len(t) /\ 1 \in 1..Len(s) /\ 1 \in 1..Len(t)
    BY <1>5, <1>6, <2>1
  <2>3. QED
    BY <1>5, <1>6, <2>1, <2>2
<1>8. m.type = "FIN" /\ m.data.key.label = "s hs traffic"
  BY DEF m, Fin, Finished, FinishedData, ServerKey, Derive
<1>9. WithFinished(a) = t /\ Complete(a) = u
  BY DEF WithFinished, Complete, t, s, m, v, More
<1>10. QED
  BY <1>1, <1>2, <1>4, <1>5, <1>6, <1>7, <1>8, <1>9 DEF m

\* Neither hello, extensions nor certificate is a Finished.
LEMMA NoFinishedBefore ==
  ASSUME NEW a, IsAnswer(a)
  PROVE  \A m \in {a.hello, Sh(a), Ee(a), Certificate, Cv(a)} : m.type # "FIN"
BY DEF IsAnswer, Sh, Ee, Certificate, Cv, ServerHello, EncryptedExtensions

----------------------------------------------------------------------------
\* What the server's answer is, in these terms.


LEMMA KeyedIs ==
  ASSUME NEW suite, NEW inputs, NEW hash
  PROVE  /\ Keyed(suite, inputs, hash).suite = suite
         /\ Keyed(suite, inputs, hash).inputs = inputs
         /\ Keyed(suite, inputs, hash).hash = hash
BY DEF Keyed

\* A key schedule with one more message or secret.
LEMMA UpdateIs ==
  \A suite, inputs, hash, x :
     Update(Keyed(suite, inputs, hash), x) = Keyed(suite, inputs, More(hash, x))
BY DEF Update, Keyed, More

LEMMA ExtractIs ==
  \A suite, inputs, hash, x :
     Extract(Keyed(suite, inputs, hash), x) = Keyed(suite, More(inputs, x), hash)
BY DEF Extract, Keyed, More

LEMMA ScheduleIs ==
  \A suite, key : Schedule(suite, key) = Keyed(suite, <<key>>, << >>)
BY DEF Schedule, Keyed

LEMMA MoreHash ==
  \A suite, inputs, hash, x :
     [Keyed(suite, inputs, hash) EXCEPT !.hash = @ \o x] = Keyed(suite, inputs, Joined(hash, x))
<1> SUFFICES ASSUME NEW suite, NEW inputs, NEW hash, NEW x
             PROVE  [Keyed(suite, inputs, hash) EXCEPT !.hash = @ \o x]
                      = Keyed(suite, inputs, Joined(hash, x))
  OBVIOUS
<1> DEFINE k == Keyed(suite, inputs, hash)
<1>1. \A y : [k EXCEPT !.hash = y] = Keyed(suite, inputs, y)
  BY DEF Keyed
<1>2. k.hash = hash
  BY DEF Keyed
<1> HIDE DEF k
<1>3. [k EXCEPT !.hash = k.hash \o x] = Keyed(suite, inputs, k.hash \o x)
  BY <1>1
<1>4. QED
  BY <1>2, <1>3 DEF k, Joined

\* The same for the schedules of the handshake and of the application.
LEMMA HandshakingIs ==
  \A a, t, x : Update(Handshaking(a, t), x) = Handshaking(a, More(t, x))
BY UpdateIs DEF Handshaking

LEMMA HandshakingMore ==
  \A a, t, x : [Handshaking(a, t) EXCEPT !.hash = @ \o x] = Handshaking(a, Joined(t, x))
BY MoreHash DEF Handshaking

LEMMA HandshakingEnds ==
  \A a, t : Extract(Handshaking(a, t), None) = Applying(a, t)
BY ExtractIs DEF Handshaking, Applying

LEMMA ApplyingIs ==
  \A a, t, x : Update(Applying(a, t), x) = Applying(a, More(t, x))
BY UpdateIs DEF Applying

AnswerTo(h, suite, alpn, secret, resumed) ==
  [hello |-> h, suite |-> suite,
   inputs |-> <<secret, [client |-> h.share, server |-> <<conn, "server">>]>>,
   resumed |-> resumed, alpn |-> alpn, early |-> resumed /\ h.early, conn |-> conn]

Certs(a) == IF a.resumed THEN << >> ELSE <<Certificate, Cv(a)>>
Issues(h) == config.tickets /\ h.modes

LEMMA Transcripts ==
  ASSUME NEW a, IsAnswer(a)
  PROVE  /\ WithExtensions(a) = More(WithHello(a), Ee(a))
         /\ WithCertificate(a) = More(WithExtensions(a), Certificate)
         /\ BeforeFinished(a) = Joined(WithExtensions(a), Certs(a))
         /\ a.resumed => BeforeFinished(a) = WithExtensions(a)
         /\ ~a.resumed => BeforeFinished(a) = More(WithCertificate(a), Cv(a))
<1> DEFINE h1 == a.hello  s1 == Sh(a)  e1 == Ee(a)  c1 == Certificate  v1 == Cv(a)
<1> HIDE DEF h1, s1, e1, c1, v1
<1>1. /\ WithHello(a) = <<h1, s1>> /\ WithExtensions(a) = <<h1, s1, e1>>
      /\ WithCertificate(a) = <<h1, s1, e1, c1>>
      /\ a.resumed => BeforeFinished(a) = WithExtensions(a)
      /\ ~a.resumed => BeforeFinished(a) = <<h1, s1, e1, c1, v1>>
  BY DEF WithHello, WithExtensions, WithCertificate, BeforeFinished, h1, s1, e1, c1, v1
<1>2. Append(<<h1, s1>>, e1) = <<h1, s1, e1>>
  BY Append1, Append2
<1>3. Append(<<h1, s1, e1>>, c1) = <<h1, s1, e1, c1>>
  BY Append3
<1>4. Append(<<h1, s1, e1, c1>>, v1) = <<h1, s1, e1, c1, v1>>
  BY Append4
<1>5. <<h1, s1, e1>> \o <<c1, v1>> = <<h1, s1, e1, c1, v1>>
  BY Concat2
<1>6. <<h1, s1, e1>> \o << >> = <<h1, s1, e1>>
  <2>1. <<h1, s1, e1>> \in Seq({h1, s1, e1})
    OBVIOUS
  <2>2. QED
    BY <2>1, ConcatEmptySeq
<1>7. WithExtensions(a) = Append(WithHello(a), e1) /\ WithCertificate(a) = Append(WithExtensions(a), c1)
  BY <1>1, <1>2, <1>3
<1>8. CASE a.resumed
  <2>1. Certs(a) = << >>
    BY <1>8 DEF Certs
  <2>2. BeforeFinished(a) = WithExtensions(a) \o << >>
    BY <1>1, <1>6, <1>8
  <2>3. QED
    BY <1>1, <1>7, <1>8, <2>1, <2>2 DEF e1, c1, More, Joined
<1>9. CASE ~a.resumed
  <2>1. Certs(a) = <<c1, v1>>
    BY <1>9 DEF Certs, c1, v1
  <2>2. /\ BeforeFinished(a) = WithExtensions(a) \o <<c1, v1>>
        /\ BeforeFinished(a) = Append(WithCertificate(a), v1)
    BY <1>1, <1>4, <1>5, <1>9
  <2>3. QED
    BY <1>7, <1>9, <2>1, <2>2 DEF e1, c1, v1, More, Joined
<1>10. QED
  BY <1>8, <1>9 DEF IsAnswer

\* What it does, in terms of the answer, the hello and the key schedule that the
\* hello went into.
AnswerPuts(a, h, psk) ==
  /\ DOMAIN server' = DOMAIN server
  /\ DOMAIN server'.keys = {"zeroRecv", "hsRecv", "hsSend", "oneRecv", "oneSend"}
  /\ server'.state = "expectFin" /\ server'.schedule = Applying(a, Complete(a))
  /\ server'.resumed = a.resumed /\ server'.alpn = a.alpn /\ server'.early = a.early
  /\ server'.expected = Verify(a) /\ server'.nextDec = ClientNext(a)
  /\ server'.keys.hsSend = ServerKey(a) /\ server'.keys.hsRecv = ClientKey(a)
  /\ server'.keys.oneSend = ServerNext(a)
  /\ server'.keys.zeroRecv \in {NoKey, Derive(Update(psk, h), "c e traffic")}
  /\ ~a.resumed => server'.keys.zeroRecv = NoKey
  /\ toClient' = toClient \o <<Sh(a), Ee(a)>> \o Certs(a) \o <<Fin(a)>>
                   \o (IF Issues(h) THEN <<NewSessionTicket(conn)>> ELSE << >>)
  /\ store' = (store \ Found(h)) \cup
       (IF Issues(h) THEN {BuildTicket(Applying(a, Complete(a)), conn, 1)} ELSE {})

LEMMA Answering ==
  ASSUME Shapes, NEW h, NEW suite, NEW alpn, NEW secret, NEW resumed,
         Answer(h, suite, alpn, Schedule(suite, secret), resumed),
         NEW a, a = AnswerTo(h, suite, alpn, secret, resumed), IsAnswer(a)
  PROVE  AnswerPuts(a, h, Schedule(suite, secret))
<1> DEFINE psk == Schedule(suite, secret)
           s == [server EXCEPT !.alpn = alpn, !.resumed = resumed, !.early = resumed /\ h.early]
           share == <<conn, "server">>
           sh == ServerHello(suite, resumed, share)
           k1 == Extract(Update(Update(psk, h), sh), [client |-> h.share, server |-> share])
           enc == Derive(k1, "s hs traffic")
           dec == Derive(k1, "c hs traffic")
           ee == EncryptedExtensions(alpn, s.early)
           k2 == Update(k1, ee)
           certs == IF resumed THEN << >>
                    ELSE <<Certificate, CertificateVerify(Update(k2, Certificate))>>
           k3 == [k2 EXCEPT !.hash = @ \o certs]
           fin == Finished(FinishedData(k3, enc))
           k4 == Extract(Update(k3, fin), None)
           expected == FinishedData(k4, dec)
           k5 == Update(k4, Finished(expected))
           issue == config.tickets /\ h.modes
<1>1. /\ server' = [s EXCEPT
           !.state = "expectFin", !.schedule = k5, !.dec = dec, !.expected = expected,
           !.nextDec = Derive(k4, "c ap traffic"),
           !.keys = [zeroRecv |-> IF s.early THEN Derive(Update(psk, h), "c e traffic") ELSE NoKey,
                     hsRecv |-> dec, hsSend |-> enc, oneRecv |-> NoKey,
                     oneSend |-> Derive(k4, "s ap traffic")]]
      /\ toClient' = toClient \o <<sh, ee>> \o certs \o <<fin>>
                      \o (IF issue THEN <<NewSessionTicket(conn)>> ELSE << >>)
      /\ store' = (store \ Found(h)) \cup (IF issue THEN {BuildTicket(k5, conn, 1)} ELSE {})
  BY DEF Answer
<1>2. /\ a.hello = h /\ a.suite = suite /\ a.resumed = resumed /\ a.alpn = alpn /\ a.conn = conn
      /\ a.early = (resumed /\ h.early)
      /\ a.inputs = <<secret, [client |-> h.share, server |-> share]>>
  BY DEF AnswerTo
<1>0. IsAnswer(a) /\ h.type = "CH" /\ resumed \in BOOLEAN
  BY <1>2 DEF IsAnswer
<1>3. sh = Sh(a)
  BY <1>2 DEF Sh
<1>4. /\ DOMAIN s = DOMAIN server /\ s.early = (resumed /\ h.early)
      /\ s.alpn = alpn /\ s.resumed = resumed
  BY DEF Shapes
<1>5. ee = Ee(a)
  BY <1>2, <1>4 DEF Ee
<1> HIDE DEF sh, ee, s
<1> DEFINE both == [client |-> h.share, server |-> share]
<1> HIDE DEF both, share
<1>6. k1 = Handshaking(a, WithHello(a))
  <2> DEFINE i0 == <<secret>>  t0 == << >>  t1 == <<h>>  t2 == <<h, sh>>  i1 == <<secret, both>>
  <2>1. psk = Keyed(suite, i0, t0)
    BY ScheduleIs
  <2>2. More(t0, h) = t1 /\ More(t1, sh) = t2 /\ More(i0, both) = i1
    BY Append0, Append1 DEF More
  <2>3. a.inputs = i1 /\ WithHello(a) = t2
    BY <1>2, <1>3 DEF both, share, WithHello
  <2>4. k1 = Extract(Update(Update(psk, h), sh), both)
    BY DEF both
  <2> HIDE DEF i0, t0, t1, t2, i1, psk
  <2>5. k1 = Keyed(suite, i1, t2)
    BY <2>1, <2>2, <2>4, UpdateIs, ExtractIs
  <2>6. QED
    BY <1>2, <2>3, <2>5 DEF Handshaking
<1> HIDE DEF k1
<1>7. enc = ServerKey(a) /\ dec = ClientKey(a)
  BY <1>6 DEF ServerKey, ClientKey
<1> HIDE DEF enc, dec
<1>8. k2 = Handshaking(a, WithExtensions(a))
  BY <1>0, <1>5, <1>6, HandshakingIs, Transcripts
<1> HIDE DEF k2
<1>9. CertificateVerify(Update(k2, Certificate)) = Cv(a)
  <2>1. Update(k2, Certificate) = Handshaking(a, WithCertificate(a))
    BY <1>0, <1>8, HandshakingIs, Transcripts
  <2>2. Update(k2, Certificate).hash = WithCertificate(a)
    BY <2>1 DEF Handshaking, Keyed
  <2>3. QED
    BY <2>2 DEF CertificateVerify, Cv
<1>10. certs = Certs(a)
  BY <1>2, <1>9 DEF Certs
<1> HIDE DEF certs
<1>11. k3 = Handshaking(a, BeforeFinished(a))
  BY <1>0, <1>8, <1>10, HandshakingMore, Transcripts
<1> HIDE DEF k3
<1>12. fin = Fin(a)
  BY <1>7, <1>11 DEF Fin
<1> HIDE DEF fin
<1>13. k4 = Applying(a, WithFinished(a))
  <2> DEFINE u == Update(k3, fin)
  <2>1. WithFinished(a) = More(BeforeFinished(a), fin)
    BY <1>12 DEF WithFinished
  <2>2. u = Handshaking(a, WithFinished(a))
    BY <1>11, <2>1, HandshakingIs
  <2>3. QED
    BY <2>2, HandshakingEnds
<1> HIDE DEF k4
<1>14. expected = Verify(a)
  BY <1>7, <1>13 DEF Verify
<1> HIDE DEF expected
<1>15. k5 = Applying(a, Complete(a))
  <2>1. Complete(a) = More(WithFinished(a), Finished(expected))
    BY <1>14 DEF Complete
  <2>2. QED
    BY <1>13, <2>1, ApplyingIs
<1> HIDE DEF k5
<1>16. Derive(k4, "c ap traffic") = ClientNext(a) /\ Derive(k4, "s ap traffic") = ServerNext(a)
  BY <1>13 DEF ClientNext, ServerNext
<1>17. /\ DOMAIN server' = DOMAIN server
       /\ server'.state = "expectFin" /\ server'.schedule = k5 /\ server'.expected = expected
       /\ server'.nextDec = Derive(k4, "c ap traffic")
       /\ server'.resumed = s.resumed /\ server'.alpn = s.alpn /\ server'.early = s.early
       /\ server'.keys =
            [zeroRecv |-> IF s.early THEN Derive(Update(psk, h), "c e traffic") ELSE NoKey,
             hsRecv |-> dec, hsSend |-> enc, oneRecv |-> NoKey,
             oneSend |-> Derive(k4, "s ap traffic")]
  BY <1>1, <1>4 DEF Shapes
<1>18. /\ server'.keys.hsSend = enc /\ server'.keys.hsRecv = dec
       /\ server'.keys.oneSend = Derive(k4, "s ap traffic")
       /\ server'.keys.zeroRecv = IF s.early THEN Derive(Update(psk, h), "c e traffic") ELSE NoKey
       /\ DOMAIN server'.keys = {"zeroRecv", "hsRecv", "hsSend", "oneRecv", "oneSend"}
  <2> DEFINE zero == IF s.early THEN Derive(Update(psk, h), "c e traffic") ELSE NoKey
             one == Derive(k4, "s ap traffic")
  <2>1. server'.keys = [zeroRecv |-> zero, hsRecv |-> dec, hsSend |-> enc, oneRecv |-> NoKey,
                        oneSend |-> one]
    BY <1>17
  <2> HIDE DEF zero, one
  <2>2. /\ server'.keys.hsSend = enc /\ server'.keys.hsRecv = dec
        /\ server'.keys.oneSend = one /\ server'.keys.zeroRecv = zero
        /\ DOMAIN server'.keys = {"zeroRecv", "hsRecv", "hsSend", "oneRecv", "oneSend"}
    BY <2>1
  <2>3. QED
    BY <2>2 DEF zero, one
<1>19. ~a.resumed => ~s.early
  BY <1>2, <1>4
<1>20. QED
  BY <1>1, <1>2, <1>3, <1>4, <1>5, <1>7, <1>10, <1>12, <1>14, <1>15, <1>16, <1>17, <1>18, <1>19, ZenonT(60)
     DEF Issues, AnswerPuts

----------------------------------------------------------------------------
\* What the client writes, and what the server has yet to read.

LEMMA EmptyStreams ==
  AreStreams(NoCrypto) /\ AllOf(NoCrypto) = {}
<1>1. \A e \in Epochs : NoCrypto[e] = << >>
  BY DEF NoCrypto, Epochs
<1>2. NoCrypto = [e \in Epochs |-> NoCrypto[e]]
  BY DEF NoCrypto, Epochs
<1>3. \A e \in Epochs : IsSeq(NoCrypto[e]) /\ Members(NoCrypto[e]) = {}
  BY <1>1, EmptyIsSeq
<1>4. AllOf(NoCrypto) = {}
  BY <1>3 DEF AllOf
<1>5. QED
  BY <1>2, <1>3, <1>4 DEF AreStreams

LEMMA IntoStreams ==
  ASSUME NEW b, AreStreams(b), NEW e \in Epochs, NEW m
  PROVE  AreStreams(Into(b, e, m)) /\ AllOf(Into(b, e, m)) = AllOf(b) \cup {m}
<1> DEFINE c == Into(b, e, m)
<1>1. /\ c = [d \in Epochs |-> c[d]]
      /\ \A d \in Epochs : c[d] = IF d = e THEN Append(b[e], m) ELSE b[d]
  BY DEF AreStreams, Into
<1>2. IsSeq(Append(b[e], m)) /\ Members(Append(b[e], m)) = Members(b[e]) \cup {m}
  <2>1. IsSeq(b[e])
    BY DEF AreStreams
  <2> DEFINE s == b[e]
  <2> HIDE DEF s
  <2>2. IsSeq(s) => IsSeq(Append(s, m)) /\ Members(Append(s, m)) = Members(s) \cup {m}
    BY AppendIsSeq
  <2>3. QED
    BY <2>1, <2>2 DEF s
<1> HIDE DEF c
<1>3. \A d \in Epochs : IsSeq(c[d])
  BY <1>1, <1>2 DEF AreStreams
<1>4. \A d \in Epochs : Members(c[d]) = IF d = e THEN Members(b[e]) \cup {m} ELSE Members(b[d])
  BY <1>1, <1>2
<1>5. AllOf(c) = AllOf(b) \cup {m}
  <2>1. ASSUME NEW x \in AllOf(c) PROVE x \in AllOf(b) \cup {m}
    BY <1>4, <2>1 DEF AllOf
  <2>2. ASSUME NEW x \in AllOf(b) PROVE x \in AllOf(c)
    BY <1>4, <2>2 DEF AllOf
  <2>3. m \in AllOf(c)
    BY <1>4 DEF AllOf
  <2>4. QED
    BY <2>1, <2>2, <2>3
<1>6. QED
  BY <1>1, <1>3, <1>5 DEF AreStreams, c

LEMMA PushedStreams ==
  ASSUME AreStreams(toServer), NEW b, AreStreams(b)
  PROVE  AreStreams(Pushed(b)) /\ AllOf(Pushed(b)) = AllOf(toServer) \cup AllOf(b)
<1> DEFINE c == Pushed(b)
<1>1. DOMAIN toServer = Epochs
  BY DEF AreStreams
<1>2. c = [d \in Epochs |-> toServer[d] \o b[d]]
  BY <1>1 DEF Pushed
<1>3. ASSUME NEW d \in Epochs
      PROVE  IsSeq(c[d]) /\ Members(c[d]) = Members(toServer[d]) \cup Members(b[d])
  <2> DEFINE s == toServer[d]  t == b[d]
  <2>1. IsSeq(s) /\ IsSeq(t) /\ c[d] = s \o t
    BY <1>2 DEF AreStreams
  <2> HIDE DEF s, t, c
  <2>2. IsSeq(s \o t) /\ Members(s \o t) = Members(s) \cup Members(t)
    BY <2>1, ConcatIsSeq
  <2>3. QED
    BY <2>1, <2>2 DEF s, t
<1> HIDE DEF c
<1>4. AllOf(c) = AllOf(toServer) \cup AllOf(b)
  BY <1>3 DEF AllOf
<1>5. c = [d \in Epochs |-> c[d]]
  BY <1>2
<1>6. QED
  BY <1>3, <1>4, <1>5 DEF AreStreams, c

LEMMA TailStreams ==
  ASSUME NEW b, AreStreams(b), NEW e \in Epochs, b[e] # << >>
  PROVE  /\ AreStreams([b EXCEPT ![e] = Tail(@)])
         /\ AllOf([b EXCEPT ![e] = Tail(@)]) \subseteq AllOf(b)
         /\ Head(b[e]) \in AllOf(b)
<1> DEFINE c == [b EXCEPT ![e] = Tail(@)]  s == b[e]
<1>1. IsSeq(s) /\ s # << >>
  BY DEF AreStreams
<1>2. /\ c = [d \in Epochs |-> c[d]]
      /\ \A d \in Epochs : c[d] = IF d = e THEN Tail(s) ELSE b[d]
  BY DEF AreStreams
<1> HIDE DEF s, c
<1>3. IsSeq(Tail(s)) /\ Members(Tail(s)) \subseteq Members(s) /\ Head(s) \in Members(s)
  BY <1>1, TailIsSeq
<1>4. \A d \in Epochs : IsSeq(c[d]) /\ Members(c[d]) \subseteq Members(b[d])
  BY <1>2, <1>3 DEF AreStreams, s
<1>5. AllOf(c) \subseteq AllOf(b)
  BY <1>4 DEF AllOf
<1>6. Head(b[e]) \in AllOf(b)
  BY <1>3 DEF AllOf, s
<1>7. QED
  BY <1>2, <1>4, <1>5, <1>6 DEF AreStreams, c

\* The four ways in which they change.
LEMMA WritesAndPushes ==
  ASSUME Shapes, NEW e \in Epochs, NEW m, toServer' = Pushed(Into(client.buffer, e, m)),
         client'.buffer = NoCrypto
  PROVE  Unread' = Unread \cup {m} /\ AreStreams(toServer)' /\ AreStreams(client.buffer)'
<1> DEFINE b == Into(client.buffer, e, m)
<1>1. AreStreams(toServer) /\ AreStreams(client.buffer)
  BY DEF Shapes
<1>2. AreStreams(b) /\ AllOf(b) = AllOf(client.buffer) \cup {m}
  BY <1>1, IntoStreams
<1> HIDE DEF b
<1>3. AreStreams(Pushed(b)) /\ AllOf(Pushed(b)) = AllOf(toServer) \cup AllOf(b)
  BY <1>1, <1>2, PushedStreams
<1>4. toServer' = Pushed(b)
  BY DEF b
<1>5. AllOf(toServer') = AllOf(toServer) \cup AllOf(client.buffer) \cup {m}
      /\ AllOf(client'.buffer) = {}
  BY <1>2, <1>3, <1>4, EmptyStreams
<1>6. AreStreams(toServer') /\ AreStreams(client'.buffer)
  BY <1>3, <1>4, EmptyStreams
<1>7. QED
  BY <1>5, <1>6 DEF Unread

LEMMA Pushes ==
  ASSUME Shapes, toServer' = Pushed(client.buffer), client'.buffer = NoCrypto
  PROVE  Unread' = Unread /\ AreStreams(toServer)' /\ AreStreams(client.buffer)'
<1>1. AreStreams(toServer) /\ AreStreams(client.buffer)
  BY DEF Shapes
<1> DEFINE b == client.buffer
<1> HIDE DEF b
<1>2. AreStreams(b)
  BY <1>1 DEF b
<1>3. AreStreams(Pushed(b)) /\ AllOf(Pushed(b)) = AllOf(toServer) \cup AllOf(b)
  BY <1>1, <1>2, PushedStreams
<1>4. AllOf(toServer') = AllOf(toServer) \cup AllOf(client.buffer) /\ AllOf(client'.buffer) = {}
  BY <1>3, EmptyStreams DEF b
<1>5. AreStreams(toServer') /\ AreStreams(client'.buffer)
  BY <1>3, EmptyStreams DEF b
<1>6. QED
  BY <1>4, <1>5 DEF Unread

LEMMA Writes ==
  ASSUME Shapes, NEW e \in Epochs, NEW m, toServer' = toServer,
         client'.buffer = Into(client.buffer, e, m)
  PROVE  Unread' = Unread \cup {m} /\ AreStreams(toServer)' /\ AreStreams(client.buffer)'
<1>1. AreStreams(toServer) /\ AreStreams(client.buffer)
  BY DEF Shapes
<1> DEFINE c == client.buffer  b == Into(c, e, m)
<1> HIDE DEF c
<1>2. AreStreams(b) /\ AllOf(b) = AllOf(c) \cup {m}
  BY <1>1, IntoStreams DEF c
<1>3. client'.buffer = b
  BY DEF c
<1> HIDE DEF b
<1>4. AllOf(toServer') = AllOf(toServer) /\ AllOf(client'.buffer) = AllOf(client.buffer) \cup {m}
  BY <1>2, <1>3 DEF c
<1>5. AreStreams(toServer') /\ AreStreams(client'.buffer)
  BY <1>1, <1>2, <1>3
<1>6. QED
  BY <1>4, <1>5 DEF Unread

LEMMA IsRead ==
  ASSUME Shapes, NEW e \in Epochs, toServer[e] # << >>,
         toServer' = [toServer EXCEPT ![e] = Tail(@)], client' = client
  PROVE  /\ Unread' \subseteq Unread /\ AreStreams(toServer)' /\ AreStreams(client.buffer)'
         /\ Head(toServer[e]) \in Unread
<1>1. AreStreams(toServer) /\ AreStreams(client.buffer)
  BY DEF Shapes
<1>2. /\ AreStreams(toServer') /\ AllOf(toServer') \subseteq AllOf(toServer)
      /\ Head(toServer[e]) \in AllOf(toServer)
  BY <1>1, TailStreams
<1>3. AllOf(client'.buffer) = AllOf(client.buffer) /\ AreStreams(client'.buffer)
  BY <1>1
<1>4. QED
  BY <1>2, <1>3 DEF Unread

----------------------------------------------------------------------------
\* What is on its way to the client.

\* The types of the messages of an answer.
LEMMA FlightTypes ==
  ASSUME NEW a
  PROVE  /\ Sh(a).type = "SH" /\ Ee(a).type = "EE" /\ Certificate.type = "CERT"
         /\ Cv(a).type = "CV" /\ Fin(a).type = "FIN" /\ NewSessionTicket(a.conn).type = "NST"
BY DEF Sh, Ee, Certificate, Cv, Fin, NewSessionTicket, ServerHello, EncryptedExtensions, Finished

\* The message of each type.
LEMMA InFlight ==
  ASSUME NEW a, NEW m \in Flight(a)
  PROVE  /\ m.type \in {"SH", "EE", "CERT", "CV", "FIN", "NST"}
         /\ m.type = "SH" => m = Sh(a)
         /\ m.type = "EE" => m = Ee(a)
         /\ m.type = "CERT" => m = Certificate
         /\ m.type = "CV" => m = Cv(a)
         /\ m.type = "FIN" => m = Fin(a)
         /\ m.type = "NST" => m = NewSessionTicket(a.conn)
BY FlightTypes DEF Flight

\* A flight that is read from the front.
LEMMA FlightTail ==
  ASSUME NEW a, NEW s, IsFlight(a, s), s # << >>
  PROVE  /\ IsFlight(a, Tail(s)) /\ Types(Tail(s)) \subseteq Types(s)
         /\ Head(s) \in Flight(a) /\ Head(s).type \in Types(s)
         /\ \A ty \in Types(Tail(s)) : Place[Head(s).type] < Place[ty]
<1> DEFINE t == Tail(s)
<1>1. /\ IsSeq(t) /\ Members(t) \subseteq Members(s)
      /\ Head(s) \in Members(s) /\ Head(s) = s[1]
      /\ Len(t) = Len(s) - 1 /\ Len(s) \in Nat \ {0}
      /\ \A i \in 1..Len(t) : t[i] = s[i + 1]
  BY TailIsSeq DEF IsFlight
<1> HIDE DEF t
<1>2. Members(t) \subseteq Flight(a) /\ Head(s) \in Flight(a)
  BY <1>1 DEF IsFlight
<1>3. ASSUME NEW i \in 1..Len(t), NEW j \in 1..Len(t), i < j
      PROVE  Place[t[i].type] < Place[t[j].type]
  <2>1. i + 1 \in 1..Len(s) /\ j + 1 \in 1..Len(s) /\ i + 1 < j + 1
    BY <1>1, <1>3
  <2>2. Place[s[i + 1].type] < Place[s[j + 1].type]
    BY <2>1 DEF IsFlight
  <2>3. QED
    BY <1>1, <2>2
<1>4. ASSUME NEW ty \in Types(t)
      PROVE  Place[Head(s).type] < Place[ty]
  <2>1. PICK m \in Members(t) : ty = m.type
    BY DEF Types
  <2>2. PICK j \in 1..Len(t) : m = t[j]
    BY DEF Members
  <2>3. j + 1 \in 1..Len(s) /\ 1 \in 1..Len(s) /\ 1 < j + 1
    BY <1>1
  <2>4. Place[s[1].type] < Place[s[j + 1].type]
    BY <2>3 DEF IsFlight
  <2>5. QED
    BY <1>1, <2>1, <2>2, <2>4
<1>5. Types(t) \subseteq Types(s) /\ Head(s).type \in Types(s)
  BY <1>1 DEF Types
<1>6. QED
  BY <1>1, <1>2, <1>3, <1>4, <1>5 DEF IsFlight, t

LEMMA NoFlight == \A a : IsFlight(a, << >>) /\ Types(<< >>) = {}
BY EmptyIsSeq DEF IsFlight, Types

\* A flight, and one more message of the answer behind all the others.
LEMMA FlightGrows ==
  ASSUME NEW a, NEW s, IsFlight(a, s), NEW m \in Flight(a),
         \A x \in Members(s) : Place[x.type] < Place[m.type]
  PROVE  /\ IsFlight(a, More(s, m)) /\ Members(More(s, m)) = Members(s) \cup {m}
<1> DEFINE t == Append(s, m)
<1>1. IsSeq(s) /\ IsSeq(t) /\ Members(t) = Members(s) \cup {m}
  BY AppendIsSeq DEF IsFlight
<1>2. /\ Len(s) \in Nat /\ Len(t) = Len(s) + 1 /\ t[Len(s) + 1] = m
      /\ \A i \in 1..Len(s) : t[i] = s[i]
  <2>1. s \in Seq(Members(s) \cup {m}) /\ Len(s) \in Nat
    BY <1>1, SeqMonotonic, LenProperties DEF IsSeq
  <2>2. QED
    BY <2>1, AppendProperties
<1> HIDE DEF t
<1>3. ASSUME NEW i \in 1..Len(t), NEW j \in 1..Len(t), i < j
      PROVE  Place[t[i].type] < Place[t[j].type]
  <2>1. CASE j \in 1..Len(s)
    <3>1. i \in 1..Len(s) /\ t[i] = s[i] /\ t[j] = s[j]
      BY <1>2, <1>3, <2>1
    <3>2. Place[s[i].type] < Place[s[j].type]
      BY <1>3, <2>1, <3>1 DEF IsFlight
    <3>3. QED
      BY <3>1, <3>2
  <2>2. CASE j = Len(s) + 1
    <3>1. i \in 1..Len(s) /\ t[i] = s[i] /\ t[j] = m
      BY <1>2, <1>3, <2>2
    <3>2. s[i] \in Members(s)
      BY <3>1 DEF Members
    <3>3. QED
      BY <3>1, <3>2
  <2>3. QED
    BY <1>2, <2>1, <2>2
<1>4. IsFlight(a, t)
  BY <1>1, <1>3 DEF IsFlight
<1>5. QED
  BY <1>1, <1>4 DEF t, More

LEMMA MoreIsJoined ==
  \A s, m : IsSeq(s) => s \o <<m>> = More(s, m)
<1> SUFFICES ASSUME NEW s, NEW m, IsSeq(s) PROVE s \o <<m>> = More(s, m)
  OBVIOUS
<1> DEFINE X == Members(s) \cup {m}
<1>1. s \in Seq(X) /\ m \in X
  BY SeqMonotonic DEF IsSeq
<1>2. QED
  BY <1>1, AppendIsConcat DEF More

LEMMA MoreIsSeq == \A s, m : IsSeq(s) => IsSeq(More(s, m))
BY AppendIsSeq DEF More

\* The server's flight: hello, extensions, the certificates if they are needed,
\* its Finished, and a ticket if it issues one.
LEMMA NewFlight ==
  ASSUME NEW a, IsAnswer(a), NEW s, IsSeq(s), s = << >>, NEW issue \in BOOLEAN,
         NEW u, u = s \o <<Sh(a), Ee(a)>> \o Certs(a) \o <<Fin(a)>>
                      \o (IF issue THEN <<NewSessionTicket(a.conn)>> ELSE << >>)
  PROVE  IsFlight(a, u)
<1> DEFINE s1 == Sh(a)  e1 == Ee(a)  c1 == Certificate  v1 == Cv(a)  f1 == Fin(a)
           n1 == NewSessionTicket(a.conn)
           t1 == More(s, s1)  t2 == More(t1, e1)  t3 == More(t2, c1)  t4 == More(t3, v1)
           certs == IF a.resumed THEN t2 ELSE t4
           t5 == More(certs, f1)  t6 == More(t5, n1)
<1>0. /\ s1.type = "SH" /\ e1.type = "EE" /\ c1.type = "CERT" /\ v1.type = "CV" /\ f1.type = "FIN"
      /\ n1.type = "NST" /\ {s1, e1, c1, v1, f1, n1} \subseteq Flight(a)
  BY FlightTypes DEF Flight
<1>9. /\ Place["SH"] = 1 /\ Place["EE"] = 2 /\ Place["CERT"] = 3 /\ Place["CV"] = 4
      /\ Place["FIN"] = 5 /\ Place["NST"] = 6
  BY DEF Place
<1>1. u = s \o <<s1, e1>> \o Certs(a) \o <<f1>> \o (IF issue THEN <<n1>> ELSE << >>)
  OBVIOUS
<1>10. a.resumed \in BOOLEAN /\ Certs(a) = IF a.resumed THEN << >> ELSE <<c1, v1>>
  BY DEF Certs, IsAnswer
<1> HIDE DEF s1, e1, c1, v1, f1, n1
<1>2. IsFlight(a, s) /\ Members(s) = {}
  BY NoFlight, EmptyIsSeq
<1>3. IsFlight(a, t1) /\ Members(t1) = {s1}
  BY <1>0, <1>2, FlightGrows
<1>4. IsFlight(a, t2) /\ Members(t2) = {s1, e1}
  <2> HIDE DEF t1
  <2>1. IsFlight(a, t2) /\ Members(t2) = Members(t1) \cup {e1}
    BY <1>0, <1>3, <1>9, FlightGrows
  <2>2. QED
    BY <1>3, <2>1
<1>5. IsFlight(a, t3) /\ Members(t3) = {s1, e1, c1}
  <2> HIDE DEF t2
  <2>5. IsFlight(a, t2) /\ c1 \in Flight(a) /\ \A x \in Members(t2) : Place[x.type] < Place[c1.type]
    BY <1>0, <1>4, <1>9
  <2>1. IsFlight(a, t3) /\ Members(t3) = Members(t2) \cup {c1}
    BY <2>5, FlightGrows
  <2>2. QED
    BY <1>4, <2>1
<1>6. IsFlight(a, t4) /\ Members(t4) = {s1, e1, c1, v1}
  <2> HIDE DEF t3
  <2>5. IsFlight(a, t3) /\ v1 \in Flight(a) /\ \A x \in Members(t3) : Place[x.type] < Place[v1.type]
    BY <1>0, <1>5, <1>9
  <2>1. IsFlight(a, t4) /\ Members(t4) = Members(t3) \cup {v1}
    BY <2>5, FlightGrows
  <2>2. QED
    BY <1>5, <2>1
<1>7. IsFlight(a, t5) /\ Members(t5) \subseteq {s1, e1, c1, v1, f1}
  <2>1. IsFlight(a, certs) /\ Members(certs) \subseteq {s1, e1, c1, v1}
    BY <1>4, <1>6
  <2> HIDE DEF certs
  <2>5. IsFlight(a, certs) /\ f1 \in Flight(a) /\ \A x \in Members(certs) : Place[x.type] < Place[f1.type]
    BY <1>0, <2>1, <1>9
  <2>2. IsFlight(a, t5) /\ Members(t5) = Members(certs) \cup {f1}
    BY <2>5, FlightGrows
  <2>3. QED
    BY <2>1, <2>2
<1>8. IsFlight(a, t6)
  <2> HIDE DEF t5
  <2>1. IsFlight(a, t5) /\ n1 \in Flight(a) /\ \A x \in Members(t5) : Place[x.type] < Place[n1.type]
    <3>1. \A x \in {s1, e1, c1, v1, f1} : Place[x.type] < Place[n1.type]
      BY <1>0, <1>9
    <3>2. QED
      BY <1>0, <1>7, <3>1
  <2>2. QED
    BY <2>1, FlightGrows
<1>11. s \o <<s1, e1>> = t2
  <2> DEFINE p == <<s1, e1>>  X == {s1, e1}
  <2>1. p \in Seq(X)
    OBVIOUS
  <2>2. << >> \o p = p
    BY <2>1, ConcatEmptySeq
  <2>3. More(More(<< >>, s1), e1) = p
    BY Append0, Append1 DEF More
  <2>4. QED
    BY <2>2, <2>3
<1> HIDE DEF t2
<1>12. t2 \o Certs(a) = certs
  <2>1. CASE a.resumed
    BY <1>4, <1>10, <2>1, ConcatEmptySeq DEF IsFlight, IsSeq
  <2>2. CASE ~a.resumed
    <3> DEFINE X == Members(t2) \cup {c1, v1}  p == <<c1>>  q == <<v1>>
    <3>1. t2 \in Seq(X) /\ p \in Seq(X) /\ q \in Seq(X)
      BY <1>4, SeqMonotonic DEF IsFlight, IsSeq
    <3>2. p \o q = <<c1, v1>>
      <4>1. IsSeq(p)
        BY DEF IsSeq, Members
      <4>2. p \o q = More(p, v1)
        BY <4>1, MoreIsJoined
      <4>3. QED
        BY <4>2, Append1 DEF More
    <3>3. (t2 \o p) \o q = t2 \o (p \o q)
      BY <3>1, ConcatAssociative
    <3>4. t2 \o p = t3 /\ t3 \o q = t4
      BY <1>4, <1>5, MoreIsJoined DEF IsFlight
    <3>5. QED
      BY <1>10, <2>2, <3>2, <3>3, <3>4
  <2>3. QED
    BY <2>1, <2>2
<1> HIDE DEF certs
<1>13. certs \o <<f1>> = t5
  <2>1. IsSeq(certs)
    BY <1>4, <1>6 DEF certs, IsFlight
  <2>2. QED
    BY <2>1, MoreIsJoined
<1> HIDE DEF t5
<1>14. u = t5 \o (IF issue THEN <<n1>> ELSE << >>)
  BY <1>1, <1>11, <1>12, <1>13
<1>15. CASE issue
  <2>1. t5 \o <<n1>> = t6
    BY <1>7, MoreIsJoined DEF IsFlight
  <2>2. QED
    BY <1>8, <1>14, <1>15, <2>1
<1>16. CASE ~issue
  <2>1. t5 \o << >> = t5
    BY <1>7, ConcatEmptySeq DEF IsFlight, IsSeq
  <2>2. QED
    BY <1>7, <1>14, <1>16, <2>1
<1>17. QED
  BY <1>15, <1>16

----------------------------------------------------------------------------
\* A new connection.

Fresh ==
  /\ client = FreshClient(ticket) /\ server = FreshServer
  /\ toServer = NoCrypto /\ toClient = << >>
  /\ conn \in Nat /\ config \in ServerConfigs

LEMMA FreshOK == Fresh => Shapes /\ HellosOK /\ ServerOK /\ FlightOK /\ ClientOK
<1> SUFFICES ASSUME Fresh PROVE Shapes /\ HellosOK /\ ServerOK /\ FlightOK /\ ClientOK
  OBVIOUS
<1>1. /\ DOMAIN client = {"state", "ticket", "hellos", "binder", "share", "psk", "proxy",
                          "schedule", "resumed", "alpn", "early", "enc", "dec", "next", "updated",
                          "extracted", "own", "keys", "buffer"}
      /\ client.keys = [k \in Tls!Keys |-> NoKey] /\ client.buffer = NoCrypto
      /\ client.state = "start" /\ client.schedule = NoSchedule /\ client.psk = NoSchedule
      /\ client.binder = NoKey /\ client.enc = NoKey /\ client.dec = NoKey /\ client.next = NoKey
      /\ client.extracted = None /\ client.own = 0 /\ client.hellos = 0
  BY DEF Fresh, FreshClient
<1>2. client.resumed = FALSE /\ client.updated = FALSE
  BY DEF Fresh, FreshClient
<1>3. /\ DOMAIN server = {"state", "schedule", "resumed", "alpn", "early", "dec", "nextDec",
                          "expected", "alert", "keys"}
      /\ server.keys = [k \in {"zeroRecv", "hsRecv", "hsSend", "oneRecv", "oneSend"} |-> NoKey]
      /\ server.state = "expectCH"
  BY DEF Fresh, FreshServer
<1>4. Unread = {}
  BY <1>1, EmptyStreams DEF Fresh, Unread
<1>5. /\ client.keys.hsSend = NoKey /\ client.keys.oneRecv = NoKey /\ client.keys.oneSend = NoKey
      /\ client.keys.hsRecv = NoKey /\ client.keys.zeroSend = NoKey /\ DOMAIN client.keys = Tls!Keys
  BY <1>1 DEF Tls!Keys
<1>6. Shapes
  <2>1. DOMAIN server.keys = {"zeroRecv", "hsRecv", "hsSend", "oneRecv", "oneSend"}
    BY <1>3
  <2>2. client.hellos \in Nat /\ client.own \in Nat
    BY <1>1
  <2>3. client.updated \in BOOLEAN /\ client.resumed \in BOOLEAN
    BY <1>2
  <2>4. AreStreams(toServer) /\ AreStreams(client.buffer) /\ conn \in Nat /\ config \in ServerConfigs
    BY <1>1, EmptyStreams DEF Fresh
  <2>5. QED
    BY <1>1, <1>3, <1>5, <2>1, <2>2, <2>3, <2>4 DEF Shapes
<1>7. HellosOK
  BY <1>1, <1>4, <1>5 DEF HellosOK
<1>8. ServerOK
  BY <1>3, <1>5 DEF ServerOK, Answered, Fresh
<1>9. FlightOK
  BY NoFlight DEF FlightOK, Fresh
<1>10. ClientOK
  BY <1>1, <1>2, <1>4, <1>5 DEF ClientOK, BeforeHello
<1>11. QED
  BY <1>6, <1>7, <1>8, <1>9, <1>10

LEMMA InitInv == Init => SessionInv
<1> SUFFICES ASSUME Init PROVE SessionInv
  OBVIOUS
<1>1. Fresh
  BY DEF Init, Fresh
<1>2. client.ticket = None
  BY DEF Init, FreshClient
<1>3. TicketsOK
  BY <1>2 DEF Init, TicketsOK, Alike
<1>4. QED
  BY <1>1, <1>3, FreshOK DEF SessionInv

LEMMA NewConnectionKeeps == SessionInv /\ NewConnection => SessionInv'
<1> SUFFICES ASSUME SessionInv, NewConnection PROVE SessionInv'
  OBVIOUS
<1>1. /\ conn' = conn + 1 /\ conn \in Nat /\ config' = config /\ config \in ServerConfigs
      /\ client' = FreshClient(ticket') /\ server' = FreshServer
      /\ toServer' = NoCrypto /\ toClient' = << >>
  BY DEF NewConnection, SessionInv, Shapes
<1>2. Fresh'
  BY <1>1 DEF Fresh
<1>3. (Shapes /\ HellosOK /\ ServerOK /\ FlightOK /\ ClientOK)'
  BY <1>2, FreshOK, PTL
<1>4. /\ ticket' \in {None, ticket}
      /\ store' \subseteq store /\ \A s \in store' : ticket # None /\ s.id = ticket.id
  BY DEF NewConnection
<1>5. /\ \A s \in store : s.id \in Nat /\ s.id <= conn
      /\ ticket # None => /\ ticket.id \in Nat /\ ticket.id <= conn
                          /\ \A s \in store : s.id = ticket.id =>
                               s.suite = ticket.suite /\ (ticket.own = 1 => s.secret = ticket.secret)
  BY DEF SessionInv, TicketsOK, Alike
<1>6. client'.ticket = ticket'
  BY <1>1 DEF FreshClient
<1>7. Alike(ticket)'
  BY <1>1, <1>4, <1>5 DEF Alike
<1>8. Alike(client.ticket)'
  BY <1>1, <1>4, <1>5, <1>6 DEF Alike
<1>9. TicketsOK'
  BY <1>1, <1>4, <1>5, <1>6, <1>7, <1>8 DEF TicketsOK
<1>10. QED
  BY <1>3, <1>9 DEF SessionInv

----------------------------------------------------------------------------
\* The client sends a hello.

\* What no step of the client but the reading of messages touches, and what no
\* step of it touches.
ServerAside == UNCHANGED <<config, conn, server, store>>

HelloOf(suites) ==
  ClientHello(suites, client.ticket # None \/ config.keeps, client.ticket,
              client.ticket # None, NoKey, <<conn, client.hellos + 1>>)
FinalOf(suites) == [HelloOf(suites) EXCEPT !.binder = OfferTicket(HelloOf(suites)).binder]

LEMMA SendHelloIs ==
  ASSUME Shapes, NEW suites, SendHello(suites), NEW offer, offer = OfferTicket(HelloOf(suites))
  PROVE  /\ DOMAIN client' = DOMAIN client
         /\ client'.state = "expectSH" /\ client'.hellos = client.hellos + 1
         /\ client'.share = <<conn, client.hellos + 1>>
         /\ client'.binder = offer.binder /\ client'.psk = offer.psk
         /\ client'.keys = [client.keys EXCEPT !.zeroSend = offer.key]
         /\ client'.proxy = FinalOf(suites) /\ client'.buffer = NoCrypto
         /\ client'.ticket = client.ticket /\ client'.schedule = client.schedule
         /\ client'.resumed = client.resumed /\ client'.alpn = client.alpn
         /\ client'.early = client.early /\ client'.enc = client.enc /\ client'.dec = client.dec
         /\ client'.next = client.next /\ client'.updated = client.updated
         /\ client'.extracted = client.extracted /\ client'.own = client.own
         /\ toServer' = Pushed(Into(client.buffer, "initial", FinalOf(suites)))
         /\ ServerAside /\ toClient' = toClient /\ ticket' = ticket
<1> DEFINE share == <<conn, client.hellos + 1>>
           final == [HelloOf(suites) EXCEPT !.binder = offer.binder]
<1>1. /\ client' = [client EXCEPT !.state = "expectSH", !.hellos = @ + 1, !.share = share,
                                 !.binder = offer.binder, !.psk = offer.psk,
                                 !.keys.zeroSend = offer.key, !.proxy = final,
                                 !.buffer = NoCrypto]
      /\ toServer' = Pushed(Into(client.buffer, "initial", final))
      /\ UNCHANGED <<config, conn, server, toClient, ticket, store>>
  BY DEF SendHello, HelloOf
<1>2. final = FinalOf(suites)
  BY DEF FinalOf
<1> DEFINE b == offer.binder  p == offer.psk
           k == [client.keys EXCEPT !.zeroSend = offer.key]
<1>3. client' = [client EXCEPT !.state = "expectSH", !.hellos = client.hellos + 1, !.share = share,
                               !.binder = b, !.psk = p, !.keys = k, !.proxy = final,
                               !.buffer = NoCrypto]
  BY <1>1
<1> HIDE DEF share, final, b, p, k
<1>4. DOMAIN client = {"state", "ticket", "hellos", "binder", "share", "psk", "proxy",
                          "schedule", "resumed", "alpn", "early", "enc", "dec", "next", "updated",
                          "extracted", "own", "keys", "buffer"}
  BY DEF Shapes
<1>5. /\ DOMAIN client' = DOMAIN client
      /\ client'.state = "expectSH" /\ client'.hellos = client.hellos + 1
      /\ client'.share = share
      /\ client'.binder = b /\ client'.psk = p
      /\ client'.keys = k
      /\ client'.proxy = final /\ client'.buffer = NoCrypto
      /\ client'.ticket = client.ticket /\ client'.schedule = client.schedule
  BY <1>3, <1>4
<1>6. /\ client'.resumed = client.resumed /\ client'.alpn = client.alpn
      /\ client'.early = client.early /\ client'.enc = client.enc /\ client'.dec = client.dec
      /\ client'.next = client.next /\ client'.updated = client.updated
      /\ client'.extracted = client.extracted /\ client'.own = client.own
  BY <1>3, <1>4
<1>7. QED
  BY <1>1, <1>2, <1>5, <1>6 DEF share, b, p, k, ServerAside

\* What the hello offers of the ticket.
LEMMA OfferIs ==
  ASSUME Shapes, HellosOK, NEW suites, NEW offer, offer = OfferTicket(HelloOf(suites))
  PROVE  /\ client.ticket = None =>
              offer.binder = NoKey /\ offer.psk = NoSchedule /\ offer.key = NoKey
         /\ client.hellos > 0 =>
              /\ offer.binder = client.binder /\ offer.psk = client.psk
              /\ offer.key = client.keys.zeroSend
         /\ client.ticket # None /\ client.hellos = 0 =>
              /\ offer.binder = FinishedData(Update(Start, HelloOf(suites)), Derive(Start, "res binder"))
              /\ offer.psk = Update(Start, FinalOf(suites))
              /\ offer.key = Derive(offer.psk, "c e traffic")
<1> DEFINE h == HelloOf(suites)
           binder == FinishedData(Update(Start, h), Derive(Start, "res binder"))
           psk == Update(Start, [h EXCEPT !.binder = binder])
<1>1. offer = CASE client.ticket = None -> [binder |-> NoKey, psk |-> NoSchedule, key |-> NoKey]
                [] client.ticket # None /\ client.binder # NoKey ->
                     [binder |-> client.binder, psk |-> client.psk, key |-> client.keys.zeroSend]
                [] OTHER -> [binder |-> binder, psk |-> psk, key |-> Derive(psk, "c e traffic")]
  BY DEF OfferTicket, Start
<1>2. FinalOf(suites) = [h EXCEPT !.binder = offer.binder]
  BY DEF FinalOf
<1> DEFINE ky == Derive(psk, "c e traffic")  p1 == client.psk  k1 == client.keys.zeroSend
<1>3. CASE client.ticket = None
  <2>1. client.hellos \in Nat
    BY DEF Shapes
  <2>2. client.binder = NoKey /\ client.psk = NoSchedule /\ client.keys.zeroSend = NoKey
    BY <1>3 DEF HellosOK
  <2>3. offer = [binder |-> NoKey, psk |-> NoSchedule, key |-> NoKey]
    BY <1>1, <1>3
  <2>4. QED
    BY <1>3, <2>2, <2>3
<1>4. CASE client.ticket # None /\ client.hellos = 0
  <2>1. client.binder = NoKey
    BY <1>4 DEF HellosOK
  <2>2. offer = [binder |-> binder, psk |-> psk, key |-> ky]
    BY <1>1, <1>4, <2>1
  <2> HIDE DEF binder, psk, ky
  <2>3. offer.binder = binder /\ offer.psk = psk /\ offer.key = ky
    BY <2>2
  <2>4. psk = Update(Start, FinalOf(suites))
    BY <1>2, <2>3 DEF psk
  <2>5. ~(client.hellos > 0)
    BY <1>4
  <2>6. offer.key = Derive(offer.psk, "c e traffic")
    BY <2>3 DEF ky
  <2>7. QED
    BY <1>4, <2>3, <2>4, <2>5, <2>6 DEF binder
<1>5. CASE client.ticket # None /\ client.hellos > 0
  <2>1. client.binder # NoKey
    <3>1. client.binder = FinishedData(Update(Start, client.binder.over[1]), Derive(Start, "res binder"))
      BY <1>5 DEF HellosOK
    <3>2. QED
      BY <3>1, FinishedIsKey
  <2>2. offer = [binder |-> client.binder, psk |-> p1, key |-> k1]
    BY <1>1, <1>5, <2>1
  <2>3. client.hellos # 0
    BY <1>5 DEF Shapes
  <2> HIDE DEF p1, k1
  <2>4. offer.binder = client.binder /\ offer.psk = p1 /\ offer.key = k1
    BY <2>2
  <2>5. QED
    BY <1>5, <2>3, <2>4 DEF p1, k1
<1>6. client.hellos \in Nat
  BY DEF Shapes
<1>7. QED
  BY <1>3, <1>4, <1>5, <1>6

\* The hello that is sent, and the first of them from its binder.
LEMMA FinalIs ==
  ASSUME NEW suites, NEW b, b = OfferTicket(HelloOf(suites)).binder, NEW m, m = FinalOf(suites)
  PROVE  /\ m = [type |-> "CH", suites |-> m.suites, modes |-> m.modes, alpn |-> m.alpn,
                 ticket |-> m.ticket, early |-> m.early, binder |-> m.binder, share |-> m.share]
         /\ m.type = "CH" /\ m.suites = suites /\ m.binder = b
         /\ m.ticket = IF client.ticket = None THEN None ELSE client.ticket.id
         /\ m = [HelloOf(suites) EXCEPT !.binder = b]
         /\ m.share = <<conn, client.hellos + 1>>
<1> DEFINE h == HelloOf(suites)  id == IF client.ticket = None THEN None ELSE client.ticket.id
           md == (client.ticket # None \/ config.keeps)  ea == (client.ticket # None)
           sh == <<conn, client.hellos + 1>>
<1>1. h = [type |-> "CH", suites |-> suites, modes |-> md, alpn |-> ClientAlpn,
           ticket |-> id, early |-> ea, binder |-> NoKey, share |-> sh]
  BY DEF HelloOf, ClientHello
<1>2. m = [h EXCEPT !.binder = b]
  BY DEF FinalOf
<1> HIDE DEF h, id, md, ea, sh
<1>3. m = [type |-> "CH", suites |-> suites, modes |-> md, alpn |-> ClientAlpn,
           ticket |-> id, early |-> ea, binder |-> b, share |-> sh]
  BY <1>1, <1>2
<1>4. /\ m.type = "CH" /\ m.suites = suites /\ m.modes = md /\ m.alpn = ClientAlpn /\ m.ticket = id
      /\ m.early = ea /\ m.binder = b /\ m.share = sh
  BY <1>3
<1>5. m = [type |-> "CH", suites |-> m.suites, modes |-> m.modes, alpn |-> m.alpn,
           ticket |-> m.ticket, early |-> m.early, binder |-> m.binder, share |-> m.share]
  BY <1>3, <1>4
<1>6. QED
  BY <1>2, <1>4, <1>5 DEF h, id, sh

LEMMA StartIs ==
  \A x : Update(Start, x).hash = <<x>> /\ Update(Start, x).suite = client.ticket.suite
         /\ Update(Start, x).inputs = <<client.ticket.secret>>
<1>1. ASSUME NEW x
      PROVE  Update(Start, x) = Keyed(client.ticket.suite, <<client.ticket.secret>>, <<x>>)
  <2> DEFINE i == <<client.ticket.secret>>  st == client.ticket.suite  t0 == << >>
  <2>1. Start = Keyed(st, i, t0)
    BY ScheduleIs DEF Start
  <2>2. More(t0, x) = <<x>>
    BY Append0 DEF More
  <2> HIDE DEF i, st, t0
  <2>3. Update(Start, x) = Keyed(st, i, More(t0, x))
    BY <2>1, UpdateIs
  <2>4. QED
    BY <2>2, <2>3 DEF i, st
<1>2. QED
  BY <1>1 DEF Keyed

\* An answer stays what it is as long as the server's schedule does.
LEMMA SameAnswer ==
  ASSUME server' = server, conn' = conn
  PROVE  TheAnswer' = TheAnswer /\ (Answered' <=> Answered)
BY DEF TheAnswer, Answered

LEMMA HandshakeKeyMeansAnswer ==
  ASSUME Shapes, ServerOK, client.keys.hsRecv # NoKey
  PROVE  Answered /\ client.hellos > 0
BY DEF ServerOK, Shapes

LEMMA SendHelloKeeps ==
  ASSUME SessionInv, NEW suites \in Offers, SendHello(suites)
  PROVE  SessionInv'
<1> DEFINE offer == OfferTicket(HelloOf(suites))  m == FinalOf(suites)  b == offer.binder
<1>0. Shapes /\ HellosOK /\ ServerOK /\ FlightOK /\ ClientOK /\ TicketsOK
  BY DEF SessionInv
<1>1. /\ DOMAIN client' = DOMAIN client
      /\ client'.state = "expectSH" /\ client'.hellos = client.hellos + 1
      /\ client'.share = <<conn, client.hellos + 1>>
      /\ client'.binder = offer.binder /\ client'.psk = offer.psk
      /\ client'.keys = [client.keys EXCEPT !.zeroSend = offer.key]
      /\ client'.buffer = NoCrypto
      /\ client'.ticket = client.ticket /\ client'.schedule = client.schedule
      /\ client'.resumed = client.resumed /\ client'.alpn = client.alpn
      /\ client'.early = client.early /\ client'.enc = client.enc /\ client'.dec = client.dec
      /\ client'.next = client.next /\ client'.updated = client.updated
      /\ client'.extracted = client.extracted /\ client'.own = client.own
      /\ toServer' = Pushed(Into(client.buffer, "initial", m))
      /\ toClient' = toClient /\ ticket' = ticket
      /\ config' = config /\ conn' = conn /\ server' = server /\ store' = store
  BY <1>0, SendHelloIs DEF ServerAside
<1>2. /\ m = [type |-> "CH", suites |-> m.suites, modes |-> m.modes, alpn |-> m.alpn,
              ticket |-> m.ticket, early |-> m.early, binder |-> m.binder, share |-> m.share]
      /\ m.type = "CH" /\ m.suites = suites /\ m.binder = b
      /\ m.ticket = IF client.ticket = None THEN None ELSE client.ticket.id
      /\ m = [HelloOf(suites) EXCEPT !.binder = b]
      /\ m.share = <<conn, client.hellos + 1>>
  BY FinalIs
<1>3. /\ client.ticket = None =>
           offer.binder = NoKey /\ offer.psk = NoSchedule /\ offer.key = NoKey
      /\ client.hellos > 0 =>
           /\ offer.binder = client.binder /\ offer.psk = client.psk
           /\ offer.key = client.keys.zeroSend
      /\ client.ticket # None /\ client.hellos = 0 =>
           /\ offer.binder = FinishedData(Update(Start, HelloOf(suites)), Derive(Start, "res binder"))
           /\ offer.psk = Update(Start, m)
           /\ offer.key = Derive(offer.psk, "c e traffic")
  BY <1>0, OfferIs
<1> HIDE DEF offer, m
<1>4. Unread' = Unread \cup {m} /\ AreStreams(toServer)' /\ AreStreams(client.buffer)'
  <2>1. "initial" \in Epochs
    BY DEF Epochs
  <2>2. QED
    BY <1>0, <1>1, <2>1, WritesAndPushes
<1>5. /\ client'.keys.zeroSend = offer.key /\ DOMAIN client'.keys = DOMAIN client.keys
      /\ client'.keys.hsRecv = client.keys.hsRecv /\ client'.keys.hsSend = client.keys.hsSend
      /\ client'.keys.oneRecv = client.keys.oneRecv /\ client'.keys.oneSend = client.keys.oneSend
  <2>1. DOMAIN client.keys = Tls!Keys
    BY <1>0 DEF Shapes
  <2>2. QED
    BY <1>1, <2>1 DEF Tls!Keys
<1>6. client.hellos \in Nat /\ client'.hellos \in Nat /\ client'.hellos > 0 /\ client'.hellos # 0
  BY <1>0, <1>1 DEF Shapes
<1>7. Shapes'
  <2>1. client'.updated \in BOOLEAN /\ client'.resumed \in BOOLEAN
    BY <1>0, <1>1 DEF Shapes
  <2>2. QED
    BY <1>0, <1>1, <1>4, <1>5, <1>6, <2>1 DEF Shapes
<1>8. HellosOK'
  <2>1. client.hellos = 0 => Unread = {}
    BY <1>0 DEF HellosOK
  <2>2. client.hellos > 0 => client'.binder = client.binder
    BY <1>1, <1>3
  <2>3. \A x \in Unread : x.type \in {"CH", "CERT", "FIN"} /\ (x.type = "CH" => IsHello(x))
    BY <1>0 DEF HellosOK
  <2>4. \A x \in Unread' : x.type \in {"CH", "CERT", "FIN"} /\ (x.type = "CH" => IsHello(x)')
    <3>1. ASSUME NEW x \in Unread
          PROVE  x.type \in {"CH", "CERT", "FIN"} /\ (x.type = "CH" => IsHello(x)')
      <4>1. client'.binder = client.binder
        BY <1>6, <2>1, <2>2
      <4>2. QED
        BY <1>1, <2>3, <4>1 DEF IsHello
    <3>2. PICK final : final = m
      OBVIOUS
    <3>3. final.type = "CH" /\ IsHello(final)'
      BY <1>1, <1>2, <3>2 DEF IsHello
    <3>4. QED
      BY <1>4, <3>1, <3>2, <3>3
  <2>5. client'.share = <<conn', client'.hellos>>
    BY <1>1
  <2>6. client.ticket = None =>
          client'.binder = NoKey /\ client'.psk = NoSchedule /\ client'.keys.zeroSend = NoKey
    BY <1>1, <1>3, <1>5
  <2>7. Start' = Start
    BY <1>1 DEF Start
  <2>8. client.ticket # None =>
          /\ client'.binder = FinishedData(Update(Start, client'.binder.over[1]),
                                           Derive(Start, "res binder"))
          /\ FirstHello'.share = <<conn, 1>>
          /\ client'.psk \in {NoSchedule, Update(Start, FirstHello')}
          /\ client'.keys.zeroSend = Derive(Update(Start, FirstHello'), "c e traffic")
    <3> SUFFICES ASSUME client.ticket # None
                 PROVE /\ client'.binder = FinishedData(Update(Start, client'.binder.over[1]),
                                           Derive(Start, "res binder"))
                       /\ FirstHello'.share = <<conn, 1>>
                       /\ client'.psk \in {NoSchedule, Update(Start, FirstHello')}
                       /\ client'.keys.zeroSend = Derive(Update(Start, FirstHello'), "c e traffic")
      OBVIOUS
    <3>1. CASE client.hellos = 0
      <4> DEFINE h == HelloOf(suites)
      <4>1. client'.binder = FinishedData(Update(Start, h), Derive(Start, "res binder"))
        BY <1>1, <1>3, <3>1
      <4> HIDE DEF h
      <4>2. Update(Start, h).hash = <<h>>
        BY StartIs
      <4>3. client'.binder.over = Update(Start, h).hash
        <5>1. \A k, x : FinishedData(k, x).over = k.hash
          BY DEF FinishedData
        <5>2. QED
          BY <4>1, <5>1
      <4>4. client'.binder.over[1] = h
        BY <4>2, <4>3
      <4>5. FirstHello' = m
        BY <1>1, <1>2, <4>4 DEF FirstHello, h
      <4>6. m.share = <<conn, 1>>
        BY <1>2, <3>1
      <4>7. client'.psk = Update(Start, m) /\ client'.keys.zeroSend = Derive(Update(Start, m), "c e traffic")
        BY <1>1, <1>3, <1>5, <3>1
      <4>8. QED
        BY <4>1, <4>4, <4>5, <4>6, <4>7
    <3>2. CASE client.hellos > 0
      <4>1. client'.binder = client.binder /\ client'.psk = client.psk
            /\ client'.keys.zeroSend = client.keys.zeroSend
        BY <1>1, <1>3, <1>5, <3>2
      <4>2. FirstHello' = FirstHello
        BY <4>1 DEF FirstHello
      <4>3. QED
        BY <1>0, <3>2, <4>1, <4>2 DEF HellosOK
    <3>3. client.hellos = 0 \/ client.hellos > 0
      BY <1>6
    <3>4. QED
      BY <3>1, <3>2, <3>3
  <2>9. QED
    BY <1>1, <1>6, <2>4, <2>5, <2>6, <2>7, <2>8 DEF HellosOK
<1>9. TheAnswer' = TheAnswer /\ (Answered' <=> Answered)
  BY <1>1, SameAnswer
<1>10. ServerOK'
  <2>1. CASE ~Answered
    BY <1>0, <1>1, <1>5, <1>9, <2>1 DEF ServerOK
  <2>2. CASE Answered
    <3>1. client.hellos > 0
      BY <1>0, <2>2 DEF ServerOK
    <3>2. client'.binder = client.binder /\ client'.keys.zeroSend = client.keys.zeroSend
      BY <1>1, <1>3, <1>5, <3>1
    <3>3. FirstHello' = FirstHello
      BY <3>2 DEF FirstHello
    <3>4. QED
      BY <1>0, <1>1, <1>5, <1>6, <1>9, <2>2, <3>2, <3>3 DEF ServerOK
  <2>3. QED
    BY <2>1, <2>2
<1>11. FlightOK'
  BY <1>0, <1>1, <1>9 DEF FlightOK
<1>12. ClientOK'
  <2>1. CASE client.keys.hsRecv = NoKey
    <3>1. BeforeHello
      BY <1>0, <2>1 DEF ClientOK
    <3>2. client'.resumed = FALSE /\ client'.updated = FALSE
      BY <1>0, <1>1, <3>1 DEF BeforeHello, Shapes
    <3>3. \A x \in Unread' : x.type = "CH"
      BY <1>2, <1>4, <3>1 DEF BeforeHello
    <3>4. BeforeHello'
      BY <1>1, <1>5, <3>1, <3>2, <3>3 DEF BeforeHello
    <3>5. QED
      BY <1>5, <2>1, <3>4 DEF ClientOK
  <2>2. ASSUME client.keys.hsRecv # NoKey PROVE client'.psk = client.psk
    BY <1>0, <1>1, <1>3, <2>2, HandshakeKeyMeansAnswer
  <2>3. CASE client.keys.hsRecv # NoKey /\ client.keys.hsSend = NoKey
    <3>1. BeforeExtensions(TheAnswer)
      BY <1>0, <2>3 DEF ClientOK
    <3>2. client'.resumed = TheAnswer'.resumed /\ client'.updated = FALSE
      BY <1>0, <1>1, <1>9, <3>1 DEF BeforeExtensions, Shapes
    <3>3. \A x \in Unread' : x.type = "CH"
      BY <1>2, <1>4, <3>1 DEF BeforeExtensions
    <3>4. BeforeExtensions(TheAnswer)'
      BY <1>1, <1>5, <1>9, <2>2, <2>3, <3>1, <3>2, <3>3 DEF BeforeExtensions
    <3>5. QED
      BY <1>5, <2>3, <3>4 DEF ClientOK
  <2>4. CASE client.keys.hsRecv # NoKey /\ client.keys.hsSend # NoKey /\ client.next = NoKey
    <3>1. BeforeEnd(TheAnswer)
      BY <1>0, <2>4 DEF ClientOK
    <3>2. client'.updated = FALSE
      BY <1>0, <1>1, <3>1 DEF BeforeEnd, Shapes
    <3>3. \A x \in Unread' : x.type = "FIN" => x.data # Verify(TheAnswer)
      BY <1>2, <1>4, <3>1 DEF BeforeEnd
    <3>4. client'.own = 0 => InStep(TheAnswer)'
      BY <1>1, <1>9, <3>1 DEF BeforeEnd, InStep
    <3>5. client'.own # 0 => \E x \in Members(client'.schedule.hash) : x.type = "FIN"
      BY <1>1, <3>1 DEF BeforeEnd
    <3>6. <<client'.alpn, client'.early, client'.resumed>>
            = <<TheAnswer'.alpn, TheAnswer'.early, TheAnswer'.resumed>>
      BY <1>1, <1>9, <3>1 DEF BeforeEnd
    <3>7. BeforeEnd(TheAnswer)'
      BY <1>1, <1>5, <1>9, <2>2, <2>4, <3>1, <3>2, <3>3, <3>4, <3>5, <3>6 DEF BeforeEnd
    <3>8. QED
      BY <1>1, <1>5, <2>4, <3>7 DEF ClientOK
  <2>5. CASE client.keys.hsRecv # NoKey /\ client.keys.hsSend # NoKey /\ client.next # NoKey
    <3>1. AfterEnd(TheAnswer)
      BY <1>0, <2>5 DEF ClientOK
    <3>2. client'.updated = TRUE
      BY <1>0, <1>1, <3>1 DEF AfterEnd, Shapes
    <3>3. client'.keys.oneSend = NoKey => \A x \in Unread' : x.type = "FIN" => x.data # Verify(TheAnswer)
      BY <1>2, <1>4, <1>5, <3>1 DEF AfterEnd
    <3>6. <<client'.alpn, client'.early, client'.resumed>>
            = <<TheAnswer'.alpn, TheAnswer'.early, TheAnswer'.resumed>>
      BY <1>1, <1>9, <3>1 DEF AfterEnd
    <3>7. AfterEnd(TheAnswer)'
      BY <1>1, <1>5, <1>9, <2>2, <2>5, <3>1, <3>2, <3>3, <3>6 DEF AfterEnd
    <3>8. QED
      BY <1>1, <1>5, <2>5, <3>7 DEF ClientOK
  <2>6. QED
    BY <2>1, <2>3, <2>4, <2>5
<1>13. TicketsOK'
  BY <1>0, <1>1, <1>9 DEF TicketsOK, Alike
<1>14. QED
  BY <1>7, <1>8, <1>10, <1>11, <1>12, <1>13 DEF SessionInv

----------------------------------------------------------------------------
\* The client writes its Finished, or a certificate.

FinNow == Finished(FinishedData(client.schedule, client.enc))

LEMMA SendFinishedIs ==
  ASSUME Shapes, NEW e, SendFinished(e)
  PROVE  /\ client.schedule # NoSchedule /\ client.enc # NoKey
         /\ DOMAIN client' = DOMAIN client /\ DOMAIN client'.keys = DOMAIN client.keys
         /\ client'.schedule = Update(client.schedule, FinNow) /\ client'.own = client.own + 1
         /\ client'.enc = client.next
         /\ client'.ticket = client.ticket /\ client'.hellos = client.hellos
         /\ client'.binder = client.binder /\ client'.share = client.share
         /\ client'.psk = client.psk /\ client'.resumed = client.resumed
         /\ client'.alpn = client.alpn /\ client'.early = client.early /\ client'.dec = client.dec
         /\ client'.next = client.next /\ client'.updated = client.updated
         /\ client'.keys.zeroSend = client.keys.zeroSend
         /\ client'.keys.hsRecv = client.keys.hsRecv /\ client'.keys.hsSend = client.keys.hsSend
         /\ client'.keys.oneRecv = client.keys.oneRecv
         /\ client.next = NoKey =>
              /\ client'.buffer = Into(client.buffer, e, FinNow) /\ toServer' = toServer
              /\ client'.state = client.state /\ client'.extracted = client.extracted
              /\ client'.keys.oneSend = client.keys.oneSend /\ ticket' = ticket
         /\ client.next # NoKey =>
              /\ client'.buffer = NoCrypto /\ toServer' = Pushed(Into(client.buffer, e, FinNow))
              /\ client'.state \in {"post", "ticketDone"} /\ client'.extracted = None
              /\ client'.keys.oneSend = client.next
              /\ ticket' \in {ticket, BuildTicket(client'.schedule, client.extracted, client'.own)}
              /\ client.extracted = None => ticket' = ticket
         /\ ServerAside /\ toClient' = toClient
<1> DEFINE written == Into(client.buffer, e, FinNow)
           ks == Update(client.schedule, FinNow)
           sent == [client EXCEPT !.schedule = ks, !.own = client.own + 1,
                                  !.enc = client.next, !.buffer = written]
           keeping == client.extracted # None /\ config.keeps
           st == IF keeping THEN "ticketDone" ELSE "post"
           k == [client.keys EXCEPT !.oneSend = client.next]
<1>1. /\ client.schedule # NoSchedule /\ client.enc # NoKey
      /\ client.next = NoKey => client' = sent /\ UNCHANGED <<toServer, ticket>>
      /\ client.next # NoKey =>
           /\ client' = [sent EXCEPT !.buffer = NoCrypto, !.extracted = None,
                                     !.keys.oneSend = client.next, !.state = st]
           /\ toServer' = Pushed(written)
           /\ ticket' = IF keeping THEN KeptTicket(sent) ELSE ticket
      /\ UNCHANGED <<config, conn, server, toClient, store>>
  BY DEF SendFinished, FinNow
<1>2. DOMAIN client = {"state", "ticket", "hellos", "binder", "share", "psk", "proxy",
                          "schedule", "resumed", "alpn", "early", "enc", "dec", "next", "updated",
                          "extracted", "own", "keys", "buffer"} /\ DOMAIN client.keys = Tls!Keys
  BY DEF Shapes
<1>3. st \in {"post", "ticketDone"}
  OBVIOUS
<1>4. KeptTicket(sent) = BuildTicket(sent.schedule, client.extracted, sent.own)
  BY DEF KeptTicket
<1> HIDE DEF written, ks, st
<1>5. /\ DOMAIN sent = DOMAIN client /\ sent.schedule = ks /\ sent.own = client.own + 1
      /\ sent.enc = client.next /\ sent.buffer = written /\ sent.keys = client.keys
      /\ sent.state = client.state /\ sent.extracted = client.extracted
  BY <1>2
<1>6. /\ sent.ticket = client.ticket /\ sent.hellos = client.hellos
      /\ sent.binder = client.binder /\ sent.share = client.share
      /\ sent.psk = client.psk /\ sent.resumed = client.resumed
      /\ sent.alpn = client.alpn /\ sent.early = client.early /\ sent.dec = client.dec
      /\ sent.next = client.next /\ sent.updated = client.updated
  BY <1>2
<1>7. CASE client.next = NoKey
  BY <1>1, <1>5, <1>6, <1>7 DEF written, ks, ServerAside
<1>8. CASE client.next # NoKey
  <2> HIDE DEF sent, k, keeping
  <2>1. client' = [sent EXCEPT !.buffer = NoCrypto, !.extracted = None, !.keys = k, !.state = st]
    BY <1>1, <1>5, <1>8 DEF k
  <2>2. /\ DOMAIN client' = DOMAIN client /\ client'.schedule = ks /\ client'.own = client.own + 1
        /\ client'.enc = client.next /\ client'.buffer = NoCrypto /\ client'.keys = k
        /\ client'.state = st /\ client'.extracted = None
    BY <1>2, <1>5, <2>1
  <2>3. /\ client'.ticket = client.ticket /\ client'.hellos = client.hellos
        /\ client'.binder = client.binder /\ client'.share = client.share
        /\ client'.psk = client.psk /\ client'.resumed = client.resumed
        /\ client'.alpn = client.alpn /\ client'.early = client.early /\ client'.dec = client.dec
        /\ client'.next = client.next /\ client'.updated = client.updated
    BY <1>2, <1>5, <1>6, <2>1
  <2>4. /\ DOMAIN k = DOMAIN client.keys /\ k.oneSend = client.next
        /\ k.zeroSend = client.keys.zeroSend
        /\ k.hsRecv = client.keys.hsRecv /\ k.hsSend = client.keys.hsSend
        /\ k.oneRecv = client.keys.oneRecv
    BY <1>2 DEF k, Tls!Keys
  <2>5. /\ ticket' \in {ticket, BuildTicket(client'.schedule, client.extracted, client'.own)}
        /\ client.extracted = None => ticket' = ticket
    BY <1>1, <1>4, <1>5, <1>8, <2>2 DEF keeping
  <2>6. toServer' = Pushed(written) /\ UNCHANGED <<config, conn, server, toClient, store>>
        /\ client.schedule # NoSchedule /\ client.enc # NoKey
    BY <1>1, <1>8
  <2>7. QED
    BY <1>3, <1>8, <2>2, <2>3, <2>4, <2>5, <2>6 DEF written, ks, ServerAside
<1>9. QED
  BY <1>7, <1>8

\* The Finished the server waits for covers its own, so that it is not one that
\* the client writes into a transcript without it.
LEMMA FinIs ==
  \A a : IsAnswer(a) =>
     /\ Fin(a) \in Members(WithFinished(a)) /\ Fin(a).type = "FIN"
     /\ Fin(a).data.key.label = "s hs traffic"
BY AnswerIs

LEMMA VerifyIs == \A a : Verify(a).over = WithFinished(a)
<1>1. \A l, x : FinishedData(l, x).over = l.hash
  BY DEF FinishedData
<1>2. \A a, t : Applying(a, t).hash = t
  BY DEF Applying, Keyed
<1>3. QED
  BY <1>1, <1>2 DEF Verify

LEMMA NotVerified ==
  ASSUME NEW a, IsAnswer(a), NEW k, NEW key, IsSeq(k.hash),
         \A m \in Members(k.hash) : m.type = "FIN" => m.data.key.label = "c hs traffic"
  PROVE  FinishedData(k, key) # Verify(a)
<1> SUFFICES ASSUME FinishedData(k, key) = Verify(a) PROVE FALSE
  OBVIOUS
<1>1. FinishedData(k, key).over = k.hash
  BY DEF FinishedData
<1>2. k.hash = WithFinished(a)
  BY <1>1, VerifyIs
<1>3. Fin(a) \in Members(k.hash) /\ Fin(a).type = "FIN" /\ Fin(a).data.key.label = "s hs traffic"
  BY <1>2, FinIs
<1>4. QED
  BY <1>3

\* A ticket the client builds from a transcript that is complete, if it holds
\* one message of its own, is that of the server.
LEMMA NewTicket ==
  ASSUME Shapes, TicketsOK, NEW k, k = Applying(TheAnswer, k.hash), NEW own,
         own = 1 => k.hash = Complete(TheAnswer),
         ticket' = BuildTicket(k, conn, own), store' = store, conn' = conn
  PROVE  Alike(ticket)'
<1> DEFINE a == TheAnswer  t == BuildTicket(k, conn, own)
           c == Applying(a, Complete(a))
<1>1. /\ t.id = conn /\ t.suite = k.suite /\ t.own = own /\ t.secret = Derive(k, "res master")
  BY DEF BuildTicket
<1>2. k.suite = a.suite /\ c.suite = a.suite
  <2>1. \A h : Applying(a, h).suite = a.suite
    BY DEF Applying, Keyed
  <2>2. QED
    BY <2>1
<1>3. own = 1 => k = c
  OBVIOUS
<1>4. \A s \in store : s.id = conn => s = BuildTicket(c, conn, 1)
  BY DEF TicketsOK
<1> HIDE DEF c
<1>5. BuildTicket(c, conn, 1).suite = c.suite /\ BuildTicket(c, conn, 1).secret = Derive(c, "res master")
  BY DEF BuildTicket
<1> HIDE DEF t, a
<1>6. \A s \in store : s.id = conn => s.suite = c.suite /\ s.secret = Derive(c, "res master")
  BY <1>4, <1>5
<1>7. conn \in Nat /\ conn <= conn
  BY DEF Shapes
<1>8. ticket' = t
  BY DEF t
<1>9. QED
  BY <1>1, <1>2, <1>3, <1>6, <1>7, <1>8 DEF Alike

\* Where the client is when it has a key schedule and a key to write with.
LEMMA WritesWhen ==
  ASSUME Shapes, ClientOK, client.schedule # NoSchedule, client.enc # NoKey
  PROVE  /\ client.keys.hsRecv # NoKey /\ client.keys.hsSend # NoKey
         /\ client.next = NoKey => BeforeEnd(TheAnswer)
         /\ client.next # NoKey => AfterEnd(TheAnswer)
BY DEF ClientOK, BeforeHello, BeforeExtensions

LEMMA AnsweredIs ==
  ASSUME ServerOK, Answered
  PROVE  IsAnswer(TheAnswer) /\ client.hellos > 0
BY DEF ServerOK

LEMMA MoreMembers ==
  \A s, m : IsSeq(s) => IsSeq(More(s, m)) /\ Members(More(s, m)) = Members(s) \cup {m}
BY AppendIsSeq DEF More

LEMMA SendFinishedKeeps ==
  ASSUME SessionInv, NEW e \in Epochs, SendFinished(e)
  PROVE  SessionInv'
<1> DEFINE a == TheAnswer  t == client.schedule.hash
<1>0. Shapes /\ HellosOK /\ ServerOK /\ FlightOK /\ ClientOK /\ TicketsOK
  BY DEF SessionInv
<1>1. /\ client.schedule # NoSchedule /\ client.enc # NoKey
      /\ DOMAIN client' = DOMAIN client /\ DOMAIN client'.keys = DOMAIN client.keys
      /\ client'.schedule = Update(client.schedule, FinNow) /\ client'.own = client.own + 1
      /\ client'.enc = client.next
      /\ client'.ticket = client.ticket /\ client'.hellos = client.hellos
      /\ client'.binder = client.binder /\ client'.share = client.share
      /\ client'.psk = client.psk /\ client'.resumed = client.resumed
      /\ client'.alpn = client.alpn /\ client'.early = client.early /\ client'.dec = client.dec
      /\ client'.next = client.next /\ client'.updated = client.updated
      /\ client'.keys.zeroSend = client.keys.zeroSend
      /\ client'.keys.hsRecv = client.keys.hsRecv /\ client'.keys.hsSend = client.keys.hsSend
      /\ client'.keys.oneRecv = client.keys.oneRecv
      /\ config' = config /\ conn' = conn /\ server' = server /\ store' = store
      /\ toClient' = toClient
  BY <1>0, SendFinishedIs DEF ServerAside
<1>2. client.next = NoKey =>
        /\ client'.buffer = Into(client.buffer, e, FinNow) /\ toServer' = toServer
        /\ client'.state = client.state /\ client'.extracted = client.extracted
        /\ client'.keys.oneSend = client.keys.oneSend /\ ticket' = ticket
  BY <1>0, SendFinishedIs
<1>3. client.next # NoKey =>
        /\ client'.buffer = NoCrypto /\ toServer' = Pushed(Into(client.buffer, e, FinNow))
        /\ client'.state \in {"post", "ticketDone"} /\ client'.extracted = None
        /\ client'.keys.oneSend = client.next
        /\ ticket' \in {ticket, BuildTicket(client'.schedule, client.extracted, client'.own)}
        /\ client.extracted = None => ticket' = ticket
  BY <1>0, SendFinishedIs
<1>4. /\ client.keys.hsRecv # NoKey /\ client.keys.hsSend # NoKey
      /\ (client.next = NoKey => BeforeEnd(a)) /\ (client.next # NoKey => AfterEnd(a))
  BY <1>0, <1>1, WritesWhen
<1>5. Answered /\ client.hellos > 0 /\ IsAnswer(a)
  BY <1>0, <1>4, HandshakeKeyMeansAnswer, AnsweredIs
<1>6. TheAnswer' = a /\ (Answered' <=> Answered)
  BY <1>1, SameAnswer
<1> HIDE DEF a
<1>7. Unread' = Unread \cup {FinNow} /\ AreStreams(toServer)' /\ AreStreams(client.buffer)'
  BY <1>0, <1>2, <1>3, Writes, WritesAndPushes
<1>8. FinNow.type = "FIN" /\ FinNow.data = FinishedData(client.schedule, client.enc)
  BY DEF FinNow, Finished
<1>9. Shapes'
  <2>1. client'.updated \in BOOLEAN /\ client'.resumed \in BOOLEAN
    BY <1>0, <1>1 DEF Shapes
  <2>2. client'.own \in Nat /\ client'.hellos \in Nat
    BY <1>0, <1>1 DEF Shapes
  <2>3. QED
    BY <1>0, <1>1, <1>7, <2>1, <2>2 DEF Shapes
<1>10. HellosOK'
  <2>1. FirstHello' = FirstHello /\ Start' = Start
    BY <1>1 DEF FirstHello, Start
  <2>2. \A x \in Unread' : x.type \in {"CH", "CERT", "FIN"} /\ (x.type = "CH" => IsHello(x)')
    <3>1. \A x \in Unread : x.type \in {"CH", "CERT", "FIN"} /\ (x.type = "CH" => IsHello(x))
      BY <1>0 DEF HellosOK
    <3>2. \A x : IsHello(x)' <=> IsHello(x)
      BY <1>1 DEF IsHello
    <3>3. QED
      BY <1>7, <1>8, <3>1, <3>2
  <2>3. client'.hellos # 0 /\ client.hellos # 0
    BY <1>1, <1>5
  <2>4. QED
    BY <1>0, <1>1, <2>1, <2>2, <2>3 DEF HellosOK
<1>11. ServerOK'
  <2>1. FirstHello' = FirstHello
    BY <1>1 DEF FirstHello
  <2>2. server.state = "post" => client'.keys.oneSend = ClientNext(a)
    <3>1. server.state = "post" => client.keys.oneSend = ClientNext(a)
      BY <1>0, <1>5 DEF ServerOK, a
    <3>2. client.next # NoKey => client'.keys.oneSend = ClientNext(a)
      BY <1>3, <1>4 DEF AfterEnd
    <3>3. QED
      BY <1>2, <3>1, <3>2
  <2>3. QED
    BY <1>0, <1>1, <1>5, <1>6, <2>1, <2>2 DEF ServerOK, a
<1>12. FlightOK'
  BY <1>0, <1>1, <1>6 DEF FlightOK, a
<1>13. client.own \in Nat /\ client'.own # 0 /\ client'.own > 0 /\ (client'.own = 1 => client.own = 0)
  BY <1>0, <1>1 DEF Shapes
<1>14. CASE client.next = NoKey
  <2>1. BeforeEnd(a)
    BY <1>4, <1>14
  <2>2. client.schedule = Handshaking(a, t) /\ IsSeq(t)
    BY <2>1 DEF BeforeEnd
  <2> HIDE DEF t
  <2>3. client'.schedule = Handshaking(a, More(t, FinNow))
    BY <1>1, <2>2, HandshakingIs
  <2>4. client'.schedule.hash = More(t, FinNow)
    BY <2>3 DEF Handshaking, Keyed
  <2>5. IsSeq(client'.schedule.hash) /\ Members(client'.schedule.hash) = Members(t) \cup {FinNow}
    BY <2>2, <2>4, MoreMembers
  <2>6. client.enc = ClientKey(a)
    BY <1>1, <2>1 DEF BeforeEnd
  <2>7. FinNow.data.key.label = "c hs traffic"
    <3>1. \A k, x : FinishedData(k, x).key = x
      BY DEF FinishedData
    <3>2. ClientKey(a).label = "c hs traffic"
      BY DEF ClientKey, Derive
    <3>3. FinNow.data.key = client.enc
      BY <1>8, <3>1
    <3>4. QED
      BY <2>6, <3>2, <3>3
  <2>8. \A m \in Members(t) : m.type = "FIN" => m.data.key.label = "c hs traffic"
    BY <2>1 DEF BeforeEnd, t
  <2>9. \A m \in Members(client'.schedule.hash) : m.type = "FIN" => m.data.key.label = "c hs traffic"
    BY <2>5, <2>7, <2>8
  <2>10. FinNow.data # Verify(a)
    <3>1. client.schedule.hash = t
      BY DEF t
    <3>2. FinishedData(client.schedule, client.enc) # Verify(a)
      BY <1>5, <2>2, <2>8, <3>1, NotVerified
    <3>3. QED
      BY <1>8, <3>2
  <2>11. \A m \in Unread' : m.type = "FIN" => m.data # Verify(a)
    BY <1>7, <2>1, <2>10 DEF BeforeEnd
  <2>12. \E m \in Members(client'.schedule.hash) : m.type = "FIN"
    BY <1>8, <2>5
  <2>13. client'.updated = FALSE
    BY <1>0, <1>1, <2>1 DEF BeforeEnd, Shapes
  <2>14. <<client'.alpn, client'.early, client'.resumed>> = <<a.alpn, a.early, a.resumed>>
    BY <1>1, <2>1 DEF BeforeEnd
  <2>15. client'.schedule = Handshaking(a, client'.schedule.hash)
    BY <2>3, <2>4
  <2>16. BeforeEnd(a)'
    <3>1. BeforeEnd(TheAnswer)'
      BY <1>1, <1>2, <1>6, <1>13, <1>14, <2>1, <2>5, <2>9, <2>11, <2>12, <2>13, <2>14, <2>15
         DEF BeforeEnd
    <3>2. QED
      BY <3>1 DEF a
  <2>17. ClientOK'
    BY <1>1, <1>4, <1>14, <2>16 DEF ClientOK, a
  <2>18. TicketsOK'
    BY <1>0, <1>1, <1>2, <1>6, <1>14 DEF TicketsOK, Alike, a
  <2>19. QED
    BY <1>9, <1>10, <1>11, <1>12, <2>17, <2>18 DEF SessionInv
<1>15. CASE client.next # NoKey
  <2>1. AfterEnd(a)
    BY <1>4, <1>15
  <2>2. client.schedule = Applying(a, t) /\ IsSeq(t) /\ client.next = ClientNext(a)
    BY <2>1 DEF AfterEnd
  <2>3. client.own = 0 => client.enc = ClientKey(a) /\ t = WithFinished(a)
    BY <2>1 DEF AfterEnd
  <2> HIDE DEF t
  <2>4. client'.schedule = Applying(a, More(t, FinNow))
    BY <1>1, <2>2, ApplyingIs
  <2>5. client'.schedule.hash = More(t, FinNow)
    BY <2>4 DEF Applying, Keyed
  <2>6. IsSeq(client'.schedule.hash)
    BY <2>2, <2>5, MoreMembers
  <2>7. client'.own = 1 => client'.schedule.hash = Complete(a)
    <3> SUFFICES ASSUME client'.own = 1 PROVE client'.schedule.hash = Complete(a)
      OBVIOUS
    <3>1. FinNow = Finished(Verify(a))
      BY <1>13, <2>2, <2>3 DEF FinNow, Verify
    <3>2. QED
      BY <1>13, <2>3, <2>5, <3>1 DEF Complete
  <2>8. client'.keys.oneSend = ClientNext(a) /\ ClientNext(a) # NoKey
    BY <1>3, <1>15, <2>2
  <2>9. client'.updated = TRUE
    BY <1>0, <1>1, <2>1 DEF AfterEnd, Shapes
  <2>10. <<client'.alpn, client'.early, client'.resumed>> = <<a.alpn, a.early, a.resumed>>
    BY <1>1, <2>1 DEF AfterEnd
  <2>11. client'.schedule = Applying(a, client'.schedule.hash)
    BY <2>4, <2>5
  <2>12. AfterEnd(a)'
    <3>1. AfterEnd(TheAnswer)'
      BY <1>1, <1>3, <1>6, <1>13, <1>15, <2>1, <2>2, <2>6, <2>7, <2>8, <2>9, <2>10, <2>11
         DEF AfterEnd
    <3>2. QED
      BY <3>1 DEF a
  <2>13. ClientOK'
    BY <1>1, <1>4, <1>15, <2>12 DEF ClientOK, a
  <2>14. Alike(ticket)'
    <3>1. CASE ticket' = ticket
      BY <1>0, <1>1, <3>1 DEF TicketsOK, Alike
    <3>2. CASE ticket' # ticket
      <4>1. client.extracted = conn
        BY <1>3, <1>15, <2>1, <3>2 DEF AfterEnd
      <4> DEFINE k == client'.schedule  o == client'.own
      <4>2. ticket' = BuildTicket(k, conn, o) /\ k = Applying(TheAnswer, k.hash)
            /\ (o = 1 => k.hash = Complete(TheAnswer))
        BY <1>3, <1>15, <2>7, <2>11, <3>2, <4>1 DEF a
      <4> HIDE DEF k, o
      <4>3. QED
        BY <1>0, <1>1, <4>2, NewTicket
    <3>3. QED
      BY <3>1, <3>2
  <2>15. ticket' # None /\ ticket'.id = conn' => Answered'
    BY <1>5, <1>6
  <2>16. TicketsOK'
    BY <1>0, <1>1, <1>6, <2>14, <2>15 DEF TicketsOK, Alike, a
  <2>17. QED
    BY <1>9, <1>10, <1>11, <1>12, <2>13, <2>16 DEF SessionInv
<1>16. QED
  BY <1>14, <1>15

LEMMA SendCertificateIs ==
  ASSUME Shapes, SendCertificate
  PROVE  /\ client.updated
         /\ DOMAIN client' = DOMAIN client /\ client'.keys = client.keys
         /\ client'.schedule = Update(client.schedule, Certificate) /\ client'.own = client.own + 1
         /\ client'.buffer = NoCrypto /\ client'.state = client.state
         /\ client'.ticket = client.ticket /\ client'.hellos = client.hellos
         /\ client'.binder = client.binder /\ client'.share = client.share
         /\ client'.psk = client.psk /\ client'.resumed = client.resumed
         /\ client'.alpn = client.alpn /\ client'.early = client.early
         /\ client'.enc = client.enc /\ client'.dec = client.dec
         /\ client'.next = client.next /\ client'.updated = client.updated
         /\ client'.extracted = client.extracted
         /\ toServer' = Pushed(Into(client.buffer, "handshake", Certificate))
         /\ ServerAside /\ toClient' = toClient /\ ticket' = ticket
<1> DEFINE ks == Update(client.schedule, Certificate)
<1>1. /\ client' = [client EXCEPT !.schedule = ks, !.own = client.own + 1, !.buffer = NoCrypto]
      /\ toServer' = Pushed(Into(client.buffer, "handshake", Certificate))
      /\ UNCHANGED <<config, conn, server, toClient, ticket, store>>
  BY DEF SendCertificate
<1>2. client.updated
  BY DEF SendCertificate
<1>3. DOMAIN client = {"state", "ticket", "hellos", "binder", "share", "psk", "proxy",
                          "schedule", "resumed", "alpn", "early", "enc", "dec", "next", "updated",
                          "extracted", "own", "keys", "buffer"}
  BY DEF Shapes
<1> HIDE DEF ks
<1>4. /\ DOMAIN client' = DOMAIN client /\ client'.keys = client.keys
      /\ client'.schedule = ks /\ client'.own = client.own + 1
      /\ client'.buffer = NoCrypto /\ client'.state = client.state
      /\ client'.ticket = client.ticket /\ client'.hellos = client.hellos
      /\ client'.binder = client.binder /\ client'.share = client.share
      /\ client'.psk = client.psk
  BY <1>1, <1>3
<1>5. /\ client'.resumed = client.resumed
      /\ client'.alpn = client.alpn /\ client'.early = client.early
      /\ client'.enc = client.enc /\ client'.dec = client.dec
      /\ client'.next = client.next /\ client'.updated = client.updated
      /\ client'.extracted = client.extracted
  BY <1>1, <1>3
<1>6. QED
  BY <1>1, <1>2, <1>4, <1>5 DEF ks, ServerAside

LEMMA SendCertificateKeeps ==
  ASSUME SessionInv, SendCertificate
  PROVE  SessionInv'
<1> DEFINE a == TheAnswer  t == client.schedule.hash
<1>0. Shapes /\ HellosOK /\ ServerOK /\ FlightOK /\ ClientOK /\ TicketsOK
  BY DEF SessionInv
<1>1. /\ DOMAIN client' = DOMAIN client /\ client'.keys = client.keys
      /\ client'.schedule = Update(client.schedule, Certificate) /\ client'.own = client.own + 1
      /\ client'.buffer = NoCrypto /\ client'.state = client.state
      /\ client'.ticket = client.ticket /\ client'.hellos = client.hellos
      /\ client'.binder = client.binder /\ client'.share = client.share
      /\ client'.psk = client.psk /\ client'.resumed = client.resumed
      /\ client'.alpn = client.alpn /\ client'.early = client.early
      /\ client'.enc = client.enc /\ client'.dec = client.dec
      /\ client'.next = client.next /\ client'.updated = client.updated
      /\ client'.extracted = client.extracted
      /\ toServer' = Pushed(Into(client.buffer, "handshake", Certificate))
      /\ config' = config /\ conn' = conn /\ server' = server /\ store' = store
      /\ toClient' = toClient /\ ticket' = ticket
  BY <1>0, SendCertificateIs DEF ServerAside
<1>2. client.updated
  BY <1>0, SendCertificateIs
<1>3. client.keys.hsRecv # NoKey /\ client.keys.hsSend # NoKey /\ client.next # NoKey /\ AfterEnd(a)
  BY <1>0, <1>2 DEF ClientOK, BeforeHello, BeforeExtensions, BeforeEnd
<1>4. Answered /\ client.hellos > 0 /\ IsAnswer(a)
  BY <1>0, <1>3, HandshakeKeyMeansAnswer, AnsweredIs
<1>5. TheAnswer' = a /\ (Answered' <=> Answered)
  BY <1>1, SameAnswer
<1> HIDE DEF a
<1>6. Unread' = Unread \cup {Certificate} /\ AreStreams(toServer)' /\ AreStreams(client.buffer)'
  <2>1. "handshake" \in Epochs
    BY DEF Epochs
  <2>2. QED
    BY <1>0, <1>1, <2>1, WritesAndPushes
<1>7. Certificate.type = "CERT"
  BY FlightTypes
<1>8. Shapes'
  <2>1. client'.updated \in BOOLEAN /\ client'.resumed \in BOOLEAN
    BY <1>0, <1>1 DEF Shapes
  <2>2. client'.own \in Nat /\ client'.hellos \in Nat
    BY <1>0, <1>1 DEF Shapes
  <2>3. QED
    BY <1>0, <1>1, <1>6, <2>1, <2>2 DEF Shapes
<1>9. HellosOK'
  <2>1. FirstHello' = FirstHello /\ Start' = Start
    BY <1>1 DEF FirstHello, Start
  <2>2. \A x \in Unread' : x.type \in {"CH", "CERT", "FIN"} /\ (x.type = "CH" => IsHello(x)')
    <3>1. \A x \in Unread : x.type \in {"CH", "CERT", "FIN"} /\ (x.type = "CH" => IsHello(x))
      BY <1>0 DEF HellosOK
    <3>2. \A x : IsHello(x)' <=> IsHello(x)
      BY <1>1 DEF IsHello
    <3>3. QED
      BY <1>6, <1>7, <3>1, <3>2
  <2>3. client'.hellos # 0 /\ client.hellos # 0
    BY <1>1, <1>4
  <2>4. QED
    BY <1>0, <1>1, <2>1, <2>2, <2>3 DEF HellosOK
<1>10. ServerOK'
  <2>1. FirstHello' = FirstHello
    BY <1>1 DEF FirstHello
  <2>2. QED
    BY <1>0, <1>1, <1>4, <1>5, <2>1 DEF ServerOK, a
<1>11. FlightOK'
  BY <1>0, <1>1, <1>5 DEF FlightOK, a
<1>12. client.own \in Nat /\ client'.own # 0 /\ client'.own > 0 /\ (client'.own = 1 => client.own = 0)
       /\ (client.own > 0 => client.own # 0)
  BY <1>0, <1>1 DEF Shapes
<1>13. ClientOK'
  <2>1. client.schedule = Applying(a, t) /\ IsSeq(t)
    BY <1>3 DEF AfterEnd
  <2> HIDE DEF t
  <2>2. client'.schedule = Applying(a, More(t, Certificate))
    BY <1>1, <2>1, ApplyingIs
  <2>3. client'.schedule.hash = More(t, Certificate)
    BY <2>2 DEF Applying, Keyed
  <2>4. IsSeq(client'.schedule.hash) /\ client'.schedule = Applying(a, client'.schedule.hash)
    BY <2>1, <2>2, <2>3, MoreMembers
  <2>5. client'.state \in {"post", "ticketDone"} =>
          client'.keys.oneSend = ClientNext(a) /\ client'.own # 1
    BY <1>1, <1>3, <1>12 DEF AfterEnd
  <2>6. client'.updated = TRUE
    BY <1>0, <1>1, <1>2 DEF Shapes
  <2>7. <<client'.alpn, client'.early, client'.resumed>> = <<a.alpn, a.early, a.resumed>>
    BY <1>1, <1>3 DEF AfterEnd
  <2>8. \A m \in Unread' : m.type = "FIN" => m \in Unread
    BY <1>6, <1>7
  <2>9. AfterEnd(TheAnswer)'
    BY <1>1, <1>3, <1>5, <1>12, <2>4, <2>5, <2>6, <2>7, <2>8 DEF AfterEnd
  <2>10. QED
    BY <1>1, <1>3, <2>9 DEF ClientOK
<1>14. TicketsOK'
  BY <1>0, <1>1, <1>5 DEF TicketsOK, Alike, a
<1>15. QED
  BY <1>8, <1>9, <1>10, <1>11, <1>13, <1>14 DEF SessionInv

----------------------------------------------------------------------------
\* The client reads a message.

Done(m) == ~ClientBreaks(m) /\ ~ClientAlerts(m)
Took(m) == client' = [Take(m) EXCEPT !.buffer = NoCrypto]

LEMMA ClientReadsIs ==
  ASSUME ClientReads, NEW m, m = Head(toClient)
  PROVE  /\ toClient # << >> /\ ReadKey(m) /\ toClient' = Tail(toClient)
         /\ ServerAside
         /\ ~Done(m) => client' = client /\ toServer' = toServer /\ ticket' = ticket
         /\ Done(m) =>
              /\ Took(m) /\ toServer' = Pushed(client.buffer)
              /\ ticket' = IF m.type = "NST" /\ client.state = "post" /\ config.keeps
                           THEN BuildTicket(client.schedule, m.id, client.own) ELSE ticket
BY DEF ClientReads, Done, Took, ServerAside

\* What a state accepts.
LEMMA Accepted ==
  ASSUME NEW m, Done(m)
  PROVE  /\ m.type \in {"SH", "EE", "CR", "CERT", "CV", "FIN", "NST"}
         /\ m.type = "SH" => client.state = "expectSH"
         /\ m.type = "EE" => client.state = "expectEE"
         /\ m.type = "CERT" => client.state = "expectCert"
         /\ m.type = "CV" => client.state = "expectCV"
         /\ m.type = "FIN" => client.state = "expectFin"
         /\ m.type = "NST" => client.state \in {"gotFin", "post"}
         /\ m.type = "SH" /\ m.psk => client.psk.suite = m.suite
         /\ m.type = "CV" => m.over = client.schedule.hash
         /\ m.type = "FIN" => m.data = FinishedData(client.schedule, client.dec)
<1>1. m.type \in Tls!Expected(client.state)
  BY DEF Done, ClientAlerts
<1>2. \A st, ty : ty \in Tls!Expected(st) =>
        /\ ty \in {"SH", "EE", "CR", "CERT", "CV", "FIN", "NST"}
        /\ ty = "SH" => st = "expectSH"
        /\ ty = "EE" => st = "expectEE"
        /\ ty = "CERT" => st = "expectCert"
        /\ ty = "CV" => st = "expectCV"
        /\ ty = "FIN" => st = "expectFin"
        /\ ty = "NST" => st \in {"gotFin", "post"}
  BY DEF Tls!Expected
<1>3. /\ m.type = "SH" /\ m.psk => client.psk.suite = m.suite
      /\ m.type = "CV" => m.over = client.schedule.hash
      /\ m.type = "FIN" => m.data = FinishedData(client.schedule, client.dec)
  BY DEF Done, ClientAlerts
<1>4. QED
  BY <1>1, <1>2, <1>3

\* What reading leaves as it is, whatever the message.
Reading ==
  /\ toClient # << >> /\ toClient' = Tail(toClient)
  /\ config' = config /\ conn' = conn /\ server' = server /\ store' = store
  /\ DOMAIN client' = DOMAIN client /\ DOMAIN client'.keys = DOMAIN client.keys
  /\ client'.ticket = client.ticket /\ client'.hellos = client.hellos
  /\ client'.binder = client.binder /\ client'.share = client.share
  /\ client'.psk \in {client.psk, NoSchedule}
  /\ client'.keys.zeroSend = client.keys.zeroSend /\ client'.keys.oneSend = client.keys.oneSend
  /\ client'.own \in Nat /\ client'.updated \in BOOLEAN /\ client'.resumed \in BOOLEAN
  /\ Unread' = Unread /\ AreStreams(toServer)' /\ AreStreams(client.buffer)'

LEMMA ReadingKeeps ==
  ASSUME SessionInv, Reading
  PROVE  /\ Answered /\ client.hellos > 0 /\ IsAnswer(TheAnswer)
         /\ TheAnswer' = TheAnswer /\ (Answered' <=> Answered)
         /\ Shapes' /\ HellosOK' /\ ServerOK' /\ FlightOK'
         /\ Head(toClient) \in Flight(TheAnswer) /\ Head(toClient).type \in Types(toClient)
         /\ Types(toClient') \subseteq Types(toClient)
         /\ \A ty \in Types(toClient') : Place[Head(toClient).type] < Place[ty]
<1>0. Shapes /\ HellosOK /\ ServerOK /\ FlightOK
  BY DEF SessionInv
<1>1. Answered
  BY <1>0 DEF ServerOK, Reading
<1>2. client.hellos > 0 /\ IsAnswer(TheAnswer)
  BY <1>0, <1>1, AnsweredIs
<1>3. TheAnswer' = TheAnswer /\ (Answered' <=> Answered)
  BY SameAnswer DEF Reading
<1>4. /\ IsFlight(TheAnswer, toClient') /\ Types(toClient') \subseteq Types(toClient)
      /\ Head(toClient) \in Flight(TheAnswer) /\ Head(toClient).type \in Types(toClient)
      /\ \A ty \in Types(toClient') : Place[Head(toClient).type] < Place[ty]
  <2> DEFINE a == TheAnswer  s == toClient
  <2>1. IsFlight(a, s) /\ s # << >> /\ toClient' = Tail(s)
    BY <1>0 DEF FlightOK, Reading
  <2> HIDE DEF a, s
  <2>2. /\ IsFlight(a, Tail(s)) /\ Types(Tail(s)) \subseteq Types(s)
        /\ Head(s) \in Flight(a) /\ Head(s).type \in Types(s)
        /\ \A ty \in Types(Tail(s)) : Place[Head(s).type] < Place[ty]
    BY <2>1, FlightTail
  <2>3. QED
    BY <2>1, <2>2 DEF a, s
<1>5. Shapes'
  BY <1>0 DEF Shapes, Reading
<1>6. FirstHello' = FirstHello /\ Start' = Start
  BY DEF FirstHello, Start, Reading
<1>7. HellosOK'
  <2>1. \A x : IsHello(x)' <=> IsHello(x)
    BY DEF IsHello, Reading
  <2>2. \A x \in Unread' : x.type \in {"CH", "CERT", "FIN"} /\ (x.type = "CH" => IsHello(x)')
    BY <1>0, <2>1 DEF HellosOK, Reading
  <2>3. client.hellos # 0
    BY <1>2
  <2>4. QED
    BY <1>0, <1>6, <2>2, <2>3 DEF HellosOK, Reading
<1>8. ServerOK'
  BY <1>0, <1>1, <1>2, <1>3, <1>6 DEF ServerOK, Reading
<1>9. FlightOK'
  BY <1>3, <1>4 DEF FlightOK
<1>10. QED
  BY <1>1, <1>2, <1>3, <1>4, <1>5, <1>7, <1>8, <1>9

\* The tickets, when none is built.
LEMMA TicketsKept ==
  ASSUME TicketsOK, conn' = conn, store' = store, ticket' = ticket, client'.ticket = client.ticket,
         TheAnswer' = TheAnswer, Answered' <=> Answered
  PROVE  TicketsOK'
BY DEF TicketsOK, Alike

\* A message that is not taken.
LEMMA RefusedKeeps ==
  ASSUME SessionInv, ClientReads, ~Done(Head(toClient))
  PROVE  SessionInv'
<1>0. Shapes /\ HellosOK /\ ServerOK /\ FlightOK /\ ClientOK /\ TicketsOK
  BY DEF SessionInv
<1>1. /\ client' = client /\ toServer' = toServer /\ ticket' = ticket
      /\ toClient # << >> /\ toClient' = Tail(toClient)
      /\ config' = config /\ conn' = conn /\ server' = server /\ store' = store
  BY ClientReadsIs DEF ServerAside
<1>2. Reading
  BY <1>0, <1>1 DEF Reading, Shapes, Unread
<1>3. /\ TheAnswer' = TheAnswer /\ (Answered' <=> Answered)
      /\ Shapes' /\ HellosOK' /\ ServerOK' /\ FlightOK'
      /\ Types(toClient') \subseteq Types(toClient)
  BY <1>2, ReadingKeeps
<1>4. TicketsOK'
  BY <1>0, <1>1, <1>3, TicketsKept
<1>5. Unread' = Unread
  BY <1>2 DEF Reading
<1>6. ClientOK'
  <2>1. CASE client.keys.hsRecv = NoKey
    BY <1>0, <1>1, <1>5, <2>1 DEF ClientOK, BeforeHello
  <2>2. CASE client.keys.hsRecv # NoKey /\ client.keys.hsSend = NoKey
    BY <1>0, <1>1, <1>3, <1>5, <2>2 DEF ClientOK, BeforeExtensions
  <2>3. CASE client.keys.hsRecv # NoKey /\ client.keys.hsSend # NoKey /\ client.next = NoKey
    BY <1>0, <1>1, <1>3, <1>5, <2>3 DEF ClientOK, BeforeEnd, InStep
  <2>4. CASE client.keys.hsRecv # NoKey /\ client.keys.hsSend # NoKey /\ client.next # NoKey
    BY <1>0, <1>1, <1>3, <1>5, <2>4 DEF ClientOK, AfterEnd
  <2>5. QED
    BY <2>1, <2>2, <2>3, <2>4
<1>7. QED
  BY <1>3, <1>4, <1>6 DEF SessionInv

\* The ServerHello.
LEMMA SelectIs ==
  ASSUME Shapes, HellosOK, client.hellos > 0, NEW m, m.suite \in Suites,
         m.psk \in BOOLEAN, m.psk => client.psk.suite = m.suite
  PROVE  \E inputs, hash : Select(m) = Keyed(m.suite, inputs, hash)
<1>1. CASE m.psk
  <2>1. client.psk # NoSchedule
    BY <1>1, SessionAssumption DEF NoSchedule
  <2>2. client.hellos # 0
    BY DEF Shapes
  <2>3. client.ticket # None
    BY <2>1 DEF HellosOK
  <2>4. client.psk = Update(Start, FirstHello)
    BY <2>1, <2>3 DEF HellosOK
  <2> DEFINE i == <<client.ticket.secret>>  st == client.ticket.suite  t0 == << >>  x == FirstHello
  <2>5. Start = Keyed(st, i, t0)
    BY ScheduleIs DEF Start
  <2> HIDE DEF i, st, t0, x
  <2>6. client.psk = Keyed(st, i, More(t0, x))
    BY <2>4, <2>5, UpdateIs DEF x
  <2>7. st = m.suite
    BY <1>1, <2>6 DEF Keyed
  <2>8. Select(m) = client.psk
    BY <1>1 DEF Select
  <2>9. QED
    BY <2>6, <2>7, <2>8
<1>2. CASE ~m.psk
  <2> DEFINE i == <<None>>  st == m.suite  t0 == << >>  x == client.proxy
  <2>1. Schedule(m.suite, None) = Keyed(st, i, t0)
    BY ScheduleIs
  <2> HIDE DEF i, st, t0, x
  <2>2. Update(Schedule(m.suite, None), x) = Keyed(st, i, More(t0, x))
    BY <2>1, UpdateIs
  <2>3. Select(m) = Update(Schedule(m.suite, None), x)
    BY <1>2 DEF Select, x
  <2>4. QED
    BY <2>2, <2>3 DEF st
<1>3. QED
  BY <1>1, <1>2

LEMMA TakeHelloIs ==
  ASSUME Shapes, NEW m, m.type = "SH", Took(m),
         NEW ks, ks = Extract(Update(Select(m), m), [client |-> client.share, server |-> m.share]),
         NEW key, key = Derive(ks, "s hs traffic")
  PROVE  /\ DOMAIN client' = DOMAIN client /\ DOMAIN client'.keys = DOMAIN client.keys
         /\ client'.state = "expectEE" /\ client'.schedule = ks
         /\ client'.resumed = Either(client.resumed, m.psk)
         /\ client'.psk = NoSchedule /\ client'.own = 0 /\ client'.dec = key
         /\ client'.ticket = client.ticket /\ client'.hellos = client.hellos
         /\ client'.binder = client.binder /\ client'.share = client.share
         /\ client'.enc = client.enc /\ client'.next = client.next
         /\ client'.updated = client.updated /\ client'.extracted = client.extracted
         /\ client'.keys.zeroSend = client.keys.zeroSend
         /\ client'.keys.hsRecv = key /\ client'.keys.hsSend = client.keys.hsSend
         /\ client'.keys.oneRecv = client.keys.oneRecv
         /\ client'.keys.oneSend = client.keys.oneSend
         /\ client'.buffer = NoCrypto
<1> DEFINE r == Either(client.resumed, m.psk)  k == [client.keys EXCEPT !.hsRecv = key]
           c == [client EXCEPT !.state = "expectEE", !.schedule = ks, !.resumed = r,
                    !.psk = NoSchedule, !.proxy = None, !.own = 0, !.dec = key,
                    !.keys = k]
<1>1. Take(m) = c
  BY DEF Take, TakeHello, Either
<1>2. DOMAIN client = {"state", "ticket", "hellos", "binder", "share", "psk", "proxy",
                          "schedule", "resumed", "alpn", "early", "enc", "dec", "next", "updated",
                          "extracted", "own", "keys", "buffer"} /\ DOMAIN client.keys = Tls!Keys
  BY DEF Shapes
<1>3. client' = [c EXCEPT !.buffer = NoCrypto]
  BY <1>1 DEF Took
<1>4. /\ DOMAIN k = DOMAIN client.keys /\ k.zeroSend = client.keys.zeroSend
      /\ k.hsRecv = key /\ k.hsSend = client.keys.hsSend
      /\ k.oneRecv = client.keys.oneRecv /\ k.oneSend = client.keys.oneSend
  BY <1>2 DEF Tls!Keys
<1> HIDE DEF r, k
<1>5. /\ DOMAIN c = DOMAIN client /\ c.keys = k
      /\ c.state = "expectEE" /\ c.schedule = ks
      /\ c.psk = NoSchedule /\ c.own = 0 /\ c.dec = key
  BY <1>2
<1>6. /\ c.ticket = client.ticket /\ c.hellos = client.hellos
      /\ c.binder = client.binder /\ c.share = client.share
  BY <1>2
<1>7. /\ c.resumed = r
      /\ c.enc = client.enc /\ c.next = client.next
      /\ c.updated = client.updated /\ c.extracted = client.extracted
  BY <1>2
<1> HIDE DEF c
<1>8. DOMAIN c = DOMAIN client
  BY <1>2 DEF c
<1>9. /\ DOMAIN client' = DOMAIN client /\ client'.buffer = NoCrypto
      /\ client'.state = c.state /\ client'.ticket = c.ticket /\ client'.hellos = c.hellos
      /\ client'.binder = c.binder /\ client'.share = c.share /\ client'.psk = c.psk
      /\ client'.schedule = c.schedule /\ client'.resumed = c.resumed
  BY <1>2, <1>3, <1>8
<1>10. /\ client'.alpn = c.alpn /\ client'.early = c.early /\ client'.enc = c.enc
      /\ client'.dec = c.dec /\ client'.next = c.next
  BY <1>2, <1>3, <1>8
<1>11. /\ client'.updated = c.updated /\ client'.extracted = c.extracted
      /\ client'.own = c.own /\ client'.keys = c.keys
  BY <1>2, <1>3, <1>8
<1>12. QED
  BY <1>4, <1>5, <1>6, <1>7, <1>9, <1>10, <1>11 DEF r

LEMMA TakesHello ==
  ASSUME SessionInv, ClientReads, Done(Head(toClient)), Head(toClient).type = "SH"
  PROVE  SessionInv'
<1> DEFINE m == Head(toClient)  a == TheAnswer
           ks == Extract(Update(Select(m), m), [client |-> client.share, server |-> m.share])
           key == Derive(ks, "s hs traffic")
<1>0. Shapes /\ HellosOK /\ ServerOK /\ FlightOK /\ ClientOK /\ TicketsOK
  BY DEF SessionInv
<1>1. /\ Took(m) /\ toServer' = Pushed(client.buffer)
      /\ ticket' = ticket
      /\ toClient # << >> /\ toClient' = Tail(toClient)
      /\ config' = config /\ conn' = conn /\ server' = server /\ store' = store
  BY ClientReadsIs DEF ServerAside
<1>2. m.type = "SH" /\ client.state = "expectSH" /\ (m.psk => client.psk.suite = m.suite)
  BY Accepted
<1> HIDE DEF m, ks, key
<1>3. /\ DOMAIN client' = DOMAIN client /\ DOMAIN client'.keys = DOMAIN client.keys
      /\ client'.state = "expectEE" /\ client'.schedule = ks
      /\ client'.resumed = Either(client.resumed, m.psk)
      /\ client'.psk = NoSchedule /\ client'.own = 0 /\ client'.dec = key
      /\ client'.ticket = client.ticket /\ client'.hellos = client.hellos
      /\ client'.binder = client.binder /\ client'.share = client.share
      /\ client'.enc = client.enc /\ client'.next = client.next
      /\ client'.updated = client.updated /\ client'.extracted = client.extracted
      /\ client'.keys.zeroSend = client.keys.zeroSend
      /\ client'.keys.hsRecv = key /\ client'.keys.hsSend = client.keys.hsSend
      /\ client'.keys.oneRecv = client.keys.oneRecv
      /\ client'.keys.oneSend = client.keys.oneSend
      /\ client'.buffer = NoCrypto
  BY <1>0, <1>1, <1>2, TakeHelloIs DEF ks, key
<1>4. Unread' = Unread /\ AreStreams(toServer)' /\ AreStreams(client.buffer)'
  BY <1>0, <1>1, <1>3, Pushes
<1>5. Answered /\ client.hellos > 0 /\ IsAnswer(a)
  BY <1>0, <1>1, AnsweredIs DEF ServerOK
<1>6. m \in Flight(a) /\ m.type \in Types(toClient)
  BY <1>0, <1>1, FlightTail DEF FlightOK, m
<1>7. m = Sh(a) /\ m.suite = a.suite /\ m.psk = a.resumed /\ m.psk \in BOOLEAN
  <2>1. m = Sh(a)
    BY <1>2, <1>6, InFlight
  <2>2. QED
    BY <1>5, <2>1 DEF Sh, ServerHello, IsAnswer
<1>8. client.keys.hsRecv = NoKey /\ BeforeHello
  BY <1>0, <1>2, <1>6 DEF ClientOK, BeforeExtensions, BeforeEnd, AfterEnd
<1>9. client'.resumed = a.resumed /\ client'.updated = FALSE /\ client'.resumed \in BOOLEAN
  <2>1. client.resumed = FALSE /\ client.updated = FALSE
    BY <1>0, <1>8 DEF BeforeHello, Shapes
  <2>2. client'.resumed = a.resumed
    BY <1>3, <1>7, <2>1 DEF Either
  <2>3. QED
    BY <1>3, <1>7, <2>1, <2>2
<1>10. Reading
  <2>1. client'.own \in Nat
    BY <1>3
  <2>2. client'.updated \in BOOLEAN
    BY <1>9
  <2>3. QED
    BY <1>1, <1>3, <1>4, <1>9, <2>1, <2>2 DEF Reading
<1>11. /\ TheAnswer' = a /\ (Answered' <=> Answered)
       /\ Shapes' /\ HellosOK' /\ ServerOK' /\ FlightOK'
       /\ \A ty \in Types(toClient') : Place[m.type] < Place[ty]
  BY <1>10, ReadingKeeps DEF m
<1>12. "SH" \notin Types(toClient')
  BY <1>2, <1>11 DEF Place
<1>13. a.suite \in Suites
  BY <1>0, <1>5, SessionAssumption DEF ServerOK
<1>14. client'.schedule = Keyed(a.suite, client'.schedule.inputs, client'.schedule.hash)
  <2>1. PICK inputs, hash : Select(m) = Keyed(m.suite, inputs, hash)
    BY <1>0, <1>2, <1>5, <1>7, <1>13, SelectIs
  <2> DEFINE both == [client |-> client.share, server |-> m.share]
  <2> HIDE DEF both
  <2>2. ks = Keyed(a.suite, More(inputs, both), More(hash, m))
    BY <1>7, <2>1, UpdateIs, ExtractIs DEF ks, both
  <2>3. QED
    BY <1>3, <2>2 DEF Keyed
<1>15. key # NoKey /\ key = Derive(client'.schedule, "s hs traffic")
  BY <1>3, DerivedIsKey DEF key
<1>16. BeforeExtensions(TheAnswer)'
  BY <1>3, <1>4, <1>8, <1>9, <1>11, <1>12, <1>14, <1>15 DEF BeforeExtensions, BeforeHello
<1>17. ClientOK'
  BY <1>3, <1>8, <1>15, <1>16 DEF ClientOK, BeforeHello
<1>18. TicketsOK'
  BY <1>0, <1>1, <1>3, <1>11, TicketsKept
<1>19. QED
  BY <1>11, <1>17, <1>18 DEF SessionInv

\* The EncryptedExtensions.
LEMMA TakeExtensionsIs ==
  ASSUME Shapes, NEW m, m.type = "EE", Took(m),
         NEW key, key = Derive(client.schedule, "c hs traffic")
  PROVE  /\ DOMAIN client' = DOMAIN client /\ DOMAIN client'.keys = DOMAIN client.keys
         /\ client'.state = (IF client.resumed THEN "expectFin" ELSE "expectCert")
         /\ client'.schedule = Update(client.schedule, m)
         /\ client'.alpn = m.alpn /\ client'.early = m.early /\ client'.enc = key
         /\ client'.resumed = client.resumed
         /\ client'.psk = client.psk /\ client'.own = client.own /\ client'.dec = client.dec
         /\ client'.ticket = client.ticket /\ client'.hellos = client.hellos
         /\ client'.binder = client.binder /\ client'.share = client.share
         /\ client'.next = client.next
         /\ client'.updated = client.updated /\ client'.extracted = client.extracted
         /\ client'.keys.zeroSend = client.keys.zeroSend
         /\ client'.keys.hsRecv = client.keys.hsRecv /\ client'.keys.hsSend = key
         /\ client'.keys.oneRecv = client.keys.oneRecv
         /\ client'.keys.oneSend = client.keys.oneSend
         /\ client'.buffer = NoCrypto
<1> DEFINE k == [client.keys EXCEPT !.hsSend = key]  ks == Update(client.schedule, m)
           st == IF client.resumed THEN "expectFin" ELSE "expectCert"
           al == m.alpn  ea == m.early
           c == [client EXCEPT !.state = st, !.alpn = al, !.early = ea, !.enc = key,
                    !.keys = k, !.schedule = ks]
<1>1. Take(m) = c
  <2>1. Take(m) = TakeExtensions(m)
    BY DEF Take
  <2>2. QED
    BY <2>1 DEF TakeExtensions
<1>2. DOMAIN client = {"state", "ticket", "hellos", "binder", "share", "psk", "proxy",
                          "schedule", "resumed", "alpn", "early", "enc", "dec", "next", "updated",
                          "extracted", "own", "keys", "buffer"} /\ DOMAIN client.keys = Tls!Keys
  BY DEF Shapes
<1>3. client' = [c EXCEPT !.buffer = NoCrypto]
  BY <1>1 DEF Took
<1>4. /\ DOMAIN k = DOMAIN client.keys /\ k.zeroSend = client.keys.zeroSend
      /\ k.hsRecv = client.keys.hsRecv /\ k.hsSend = key
      /\ k.oneRecv = client.keys.oneRecv /\ k.oneSend = client.keys.oneSend
  BY <1>2 DEF Tls!Keys
<1> HIDE DEF k, ks, st, al, ea
<1>5. /\ DOMAIN c = DOMAIN client /\ c.keys = k
      /\ c.state = st /\ c.schedule = ks
      /\ c.alpn = al /\ c.enc = key
  BY <1>2
<1>6. /\ c.psk = client.psk /\ c.own = client.own /\ c.dec = client.dec
      /\ c.ticket = client.ticket /\ c.hellos = client.hellos
      /\ c.binder = client.binder /\ c.share = client.share
  BY <1>2
<1>7. /\ c.next = client.next
      /\ c.updated = client.updated /\ c.extracted = client.extracted
  BY <1>2
<1>8. c.resumed = client.resumed
  BY <1>2
<1>9. c.early = ea
  BY <1>2
<1> HIDE DEF c
<1>10. DOMAIN c = DOMAIN client
  BY <1>2 DEF c
<1>11. /\ DOMAIN client' = DOMAIN client /\ client'.buffer = NoCrypto
      /\ client'.state = c.state /\ client'.ticket = c.ticket /\ client'.hellos = c.hellos
      /\ client'.binder = c.binder /\ client'.share = c.share /\ client'.psk = c.psk
      /\ client'.schedule = c.schedule /\ client'.resumed = c.resumed
  BY <1>2, <1>3, <1>10
<1>12. /\ client'.alpn = c.alpn /\ client'.early = c.early /\ client'.enc = c.enc
      /\ client'.dec = c.dec /\ client'.next = c.next
  BY <1>2, <1>3, <1>10
<1>13. /\ client'.updated = c.updated /\ client'.extracted = c.extracted
      /\ client'.own = c.own /\ client'.keys = c.keys
  BY <1>2, <1>3, <1>10
<1>14. QED
  BY <1>4, <1>5, <1>6, <1>7, <1>8, <1>9, <1>11, <1>12, <1>13 DEF ks, st, al, ea

\* Equal secrets come from equal inputs and transcripts.
LEMMA SameSecret ==
  \A k, l, x, y : Derive(k, x) = Derive(l, y) => k.inputs = l.inputs /\ k.hash = l.hash
<1> SUFFICES ASSUME NEW k, NEW l, NEW x, NEW y, Derive(k, x) = Derive(l, y)
             PROVE  k.inputs = l.inputs /\ k.hash = l.hash
  OBVIOUS
<1>1. Derive(k, x).inputs = k.inputs /\ Derive(k, x).over = k.hash
  BY DEF Derive
<1>2. Derive(l, y).inputs = l.inputs /\ Derive(l, y).over = l.hash
  BY DEF Derive
<1>3. QED
  BY <1>1, <1>2

LEMMA TakesExtensions ==
  ASSUME SessionInv, ClientReads, Done(Head(toClient)), Head(toClient).type = "EE"
  PROVE  SessionInv'
<1> DEFINE m == Head(toClient)  a == TheAnswer
           key == Derive(client.schedule, "c hs traffic")
<1>0. Shapes /\ HellosOK /\ ServerOK /\ FlightOK /\ ClientOK /\ TicketsOK
  BY DEF SessionInv
<1>1. /\ Took(m) /\ toServer' = Pushed(client.buffer)
      /\ ticket' = ticket
      /\ toClient # << >> /\ toClient' = Tail(toClient)
      /\ config' = config /\ conn' = conn /\ server' = server /\ store' = store
  BY ClientReadsIs DEF ServerAside
<1>2. m.type = "EE" /\ client.state = "expectEE"
  BY Accepted
<1>3. client.keys.hsRecv = server.keys.hsSend
  <2>1. ReadKey(m)
    BY ClientReadsIs
  <2>2. QED
    BY <1>2, <2>1 DEF ReadKey
<1> HIDE DEF m, key, a
<1>4. /\ DOMAIN client' = DOMAIN client /\ DOMAIN client'.keys = DOMAIN client.keys
      /\ client'.state = (IF client.resumed THEN "expectFin" ELSE "expectCert")
      /\ client'.schedule = Update(client.schedule, m)
      /\ client'.alpn = m.alpn /\ client'.early = m.early /\ client'.enc = key
      /\ client'.resumed = client.resumed
      /\ client'.psk = client.psk /\ client'.own = client.own /\ client'.dec = client.dec
      /\ client'.ticket = client.ticket /\ client'.hellos = client.hellos
      /\ client'.binder = client.binder /\ client'.share = client.share
      /\ client'.next = client.next
      /\ client'.updated = client.updated /\ client'.extracted = client.extracted
      /\ client'.keys.zeroSend = client.keys.zeroSend
      /\ client'.keys.hsRecv = client.keys.hsRecv /\ client'.keys.hsSend = key
      /\ client'.keys.oneRecv = client.keys.oneRecv
      /\ client'.keys.oneSend = client.keys.oneSend
      /\ client'.buffer = NoCrypto
  BY <1>0, <1>1, <1>2, TakeExtensionsIs DEF key
<1>5. Unread' = Unread /\ AreStreams(toServer)' /\ AreStreams(client.buffer)'
  BY <1>0, <1>1, <1>4, Pushes
<1>6. Reading
  <2>1. client'.own \in Nat
    BY <1>0, <1>4 DEF Shapes
  <2>2. client'.updated \in BOOLEAN /\ client'.resumed \in BOOLEAN
    BY <1>0, <1>4 DEF Shapes
  <2>3. QED
    BY <1>1, <1>4, <1>5, <2>1, <2>2 DEF Reading
<1>7. /\ Answered /\ client.hellos > 0 /\ IsAnswer(a)
      /\ TheAnswer' = a /\ (Answered' <=> Answered)
      /\ Shapes' /\ HellosOK' /\ ServerOK' /\ FlightOK'
      /\ m \in Flight(a) /\ m.type \in Types(toClient)
      /\ Types(toClient') \subseteq Types(toClient)
      /\ \A ty \in Types(toClient') : Place[m.type] < Place[ty]
  BY <1>6, ReadingKeeps DEF m, a
<1>8. m = Ee(a)
  BY <1>2, <1>7, InFlight
<1>9. m.alpn = a.alpn /\ m.early = a.early
  BY <1>8 DEF Ee, EncryptedExtensions
<1>10. client.keys.hsRecv # NoKey /\ client.keys.hsSend = NoKey /\ BeforeExtensions(a)
  BY <1>0, <1>2, <1>7 DEF ClientOK, BeforeHello, BeforeEnd, AfterEnd, a
<1>11. client.schedule = Handshaking(a, WithHello(a))
  <2>1. server.keys.hsSend = ServerKey(a)
    BY <1>0, <1>7 DEF ServerOK, a
  <2> DEFINE k == client.schedule  l == Handshaking(a, WithHello(a))
  <2>2. Derive(k, "s hs traffic") = Derive(l, "s hs traffic")
    BY <1>3, <1>10, <2>1 DEF BeforeExtensions, ServerKey
  <2>3. l.inputs = a.inputs /\ l.hash = WithHello(a)
    BY DEF Handshaking, Keyed
  <2>4. k = Keyed(a.suite, k.inputs, k.hash)
    BY <1>10 DEF BeforeExtensions
  <2> HIDE DEF k, l
  <2>5. k.inputs = l.inputs /\ k.hash = l.hash
    BY <2>2, SameSecret
  <2>6. k = Keyed(a.suite, a.inputs, WithHello(a))
    BY <2>3, <2>4, <2>5
  <2>7. QED
    BY <2>6 DEF k, Handshaking
<1>12. key = ClientKey(a) /\ client.dec = ServerKey(a) /\ client.keys.hsRecv = ServerKey(a)
  BY <1>10, <1>11 DEF key, ClientKey, ServerKey, BeforeExtensions
<1>13. key # NoKey
  BY DerivedIsKey DEF key
<1>14. client'.schedule = Handshaking(a, WithExtensions(a)) /\ client'.schedule.hash = WithExtensions(a)
  <2>1. client'.schedule = Handshaking(a, WithExtensions(a))
    BY <1>4, <1>7, <1>8, <1>11, HandshakingIs, Transcripts
  <2>2. QED
    BY <2>1 DEF Handshaking, Keyed
<1>15. IsSeq(WithExtensions(a)) /\ \A x \in Members(WithExtensions(a)) : x.type # "FIN"
  BY <1>7, AnswerIs, NoFinishedBefore
<1>16. {"SH", "EE"} \cap Types(toClient') = {}
  BY <1>2, <1>7 DEF Place
<1>17. client'.resumed = a.resumed /\ client'.updated = FALSE /\ a.resumed \in BOOLEAN
  BY <1>0, <1>4, <1>7, <1>10 DEF BeforeExtensions, Shapes, IsAnswer
<1>18. <<client'.alpn, client'.early, client'.resumed>> = <<a.alpn, a.early, a.resumed>>
  BY <1>4, <1>9, <1>17
<1>19. InStep(a)'
  <2>1. a.resumed => BeforeFinished(a) = WithExtensions(a)
    BY DEF BeforeFinished
  <2>2. client'.state = (IF a.resumed THEN "expectFin" ELSE "expectCert")
    BY <1>4, <1>17
  <2>3. InStep(TheAnswer)'
    BY <1>4, <1>7, <1>12, <1>14, <2>1, <2>2 DEF InStep
  <2>4. QED
    BY <2>3 DEF a
<1>20. client'.state \in {"expectCert", "expectCV", "expectFin", "expectSH"}
  BY <1>4
<1>21. BeforeEnd(TheAnswer)'
  <2>1. \A x \in Unread' : x.type = "FIN" => x.data # Verify(a)
    BY <1>5, <1>10 DEF BeforeExtensions
  <2>2. /\ client'.own = 0 /\ client'.next = NoKey /\ client'.extracted = None
        /\ client'.psk = NoSchedule /\ client'.keys.oneRecv = NoKey /\ client'.keys.oneSend = NoKey
    BY <1>4, <1>10 DEF BeforeExtensions
  <2>3. InStep(TheAnswer)'
    BY <1>19 DEF a
  <2>4. client'.schedule = Handshaking(a, client'.schedule.hash) /\ IsSeq(client'.schedule.hash)
        /\ \A x \in Members(client'.schedule.hash) : x.type # "FIN"
    BY <1>14, <1>15
  <2>5. /\ client'.keys.hsRecv = ServerKey(a) /\ client'.keys.hsSend = ClientKey(a)
        /\ client'.dec = ServerKey(a) /\ client'.enc = ClientKey(a)
    BY <1>4, <1>12
  <2>6. QED
    BY <1>7, <1>16, <1>17, <1>18, <1>20, <2>1, <2>2, <2>3, <2>4, <2>5 DEF BeforeEnd
<1>22. ClientOK'
  BY <1>4, <1>10, <1>13, <1>21 DEF ClientOK, BeforeExtensions
<1>23. TicketsOK'
  BY <1>0, <1>1, <1>4, <1>7, TicketsKept DEF a
<1>24. QED
  BY <1>7, <1>22, <1>23 DEF SessionInv

\* The certificate and its signature.
LEMMA TakeCertificateIs ==
  ASSUME Shapes, NEW m, m.type \in {"CERT", "CV"}, Took(m)
  PROVE  /\ DOMAIN client' = DOMAIN client /\ client'.keys = client.keys
         /\ client'.state = (IF m.type = "CERT" THEN "expectCV" ELSE "expectFin")
         /\ client'.schedule = Update(client.schedule, m)
         /\ client'.alpn = client.alpn /\ client'.early = client.early /\ client'.enc = client.enc
         /\ client'.resumed = client.resumed
         /\ client'.psk = client.psk /\ client'.own = client.own /\ client'.dec = client.dec
         /\ client'.ticket = client.ticket /\ client'.hellos = client.hellos
         /\ client'.binder = client.binder /\ client'.share = client.share
         /\ client'.next = client.next
         /\ client'.updated = client.updated /\ client'.extracted = client.extracted
         /\ client'.buffer = NoCrypto
<1> DEFINE ks == Update(client.schedule, m)
           st == IF m.type = "CERT" THEN "expectCV" ELSE "expectFin"
           c == [client EXCEPT !.state = st, !.schedule = ks]
<1>1. Take(m) = c
  BY DEF Take
<1>2. DOMAIN client = {"state", "ticket", "hellos", "binder", "share", "psk", "proxy",
                          "schedule", "resumed", "alpn", "early", "enc", "dec", "next", "updated",
                          "extracted", "own", "keys", "buffer"}
  BY DEF Shapes
<1>3. client' = [c EXCEPT !.buffer = NoCrypto]
  BY <1>1 DEF Took
<1> HIDE DEF ks, st
<1>4. /\ DOMAIN c = DOMAIN client /\ c.keys = client.keys
      /\ c.state = st /\ c.schedule = ks
      /\ c.alpn = client.alpn /\ c.enc = client.enc
  BY <1>2
<1>5. /\ c.psk = client.psk /\ c.own = client.own /\ c.dec = client.dec
      /\ c.ticket = client.ticket /\ c.hellos = client.hellos
      /\ c.binder = client.binder /\ c.share = client.share
  BY <1>2
<1>6. /\ c.next = client.next
      /\ c.updated = client.updated /\ c.extracted = client.extracted
  BY <1>2
<1>7. c.resumed = client.resumed
  BY <1>2
<1>8. c.early = client.early
  BY <1>2
<1> HIDE DEF c
<1>9. DOMAIN c = DOMAIN client
  BY <1>2 DEF c
<1>10. /\ DOMAIN client' = DOMAIN client /\ client'.buffer = NoCrypto
      /\ client'.state = c.state /\ client'.ticket = c.ticket /\ client'.hellos = c.hellos
      /\ client'.binder = c.binder /\ client'.share = c.share /\ client'.psk = c.psk
      /\ client'.schedule = c.schedule /\ client'.resumed = c.resumed
  BY <1>2, <1>3, <1>9
<1>11. /\ client'.alpn = c.alpn /\ client'.early = c.early /\ client'.enc = c.enc
      /\ client'.dec = c.dec /\ client'.next = c.next
  BY <1>2, <1>3, <1>9
<1>12. /\ client'.updated = c.updated /\ client'.extracted = c.extracted
      /\ client'.own = c.own /\ client'.keys = c.keys
  BY <1>2, <1>3, <1>9
<1>13. QED
  BY <1>4, <1>5, <1>6, <1>7, <1>8, <1>10, <1>11, <1>12 DEF ks, st

LEMMA TakesCertificate ==
  ASSUME SessionInv, ClientReads, Done(Head(toClient)), Head(toClient).type \in {"CERT", "CV"}
  PROVE  SessionInv'
<1> DEFINE m == Head(toClient)  a == TheAnswer  t == client.schedule.hash
<1>0. Shapes /\ HellosOK /\ ServerOK /\ FlightOK /\ ClientOK /\ TicketsOK
  BY DEF SessionInv
<1>1. /\ Took(m) /\ toServer' = Pushed(client.buffer)
      /\ ticket' = ticket
      /\ toClient # << >> /\ toClient' = Tail(toClient)
      /\ config' = config /\ conn' = conn /\ server' = server /\ store' = store
  BY ClientReadsIs DEF ServerAside
<1>2. /\ m.type \in {"CERT", "CV"}
      /\ m.type = "CERT" => client.state = "expectCert"
      /\ m.type = "CV" => client.state = "expectCV"
  BY Accepted
<1> HIDE DEF m, a
<1>4. /\ DOMAIN client' = DOMAIN client /\ client'.keys = client.keys
      /\ client'.state = (IF m.type = "CERT" THEN "expectCV" ELSE "expectFin")
      /\ client'.schedule = Update(client.schedule, m)
      /\ client'.alpn = client.alpn /\ client'.early = client.early /\ client'.enc = client.enc
      /\ client'.resumed = client.resumed
      /\ client'.psk = client.psk /\ client'.own = client.own /\ client'.dec = client.dec
      /\ client'.ticket = client.ticket /\ client'.hellos = client.hellos
      /\ client'.binder = client.binder /\ client'.share = client.share
      /\ client'.next = client.next
      /\ client'.updated = client.updated /\ client'.extracted = client.extracted
      /\ client'.buffer = NoCrypto
  BY <1>0, <1>1, <1>2, TakeCertificateIs
<1>5. Unread' = Unread /\ AreStreams(toServer)' /\ AreStreams(client.buffer)'
  BY <1>0, <1>1, <1>4, Pushes
<1>6. Reading
  <2>1. client'.own \in Nat
    BY <1>0, <1>4 DEF Shapes
  <2>2. client'.updated \in BOOLEAN /\ client'.resumed \in BOOLEAN
    BY <1>0, <1>4 DEF Shapes
  <2>3. QED
    BY <1>1, <1>4, <1>5, <2>1, <2>2 DEF Reading
<1>7. /\ Answered /\ client.hellos > 0 /\ IsAnswer(a)
      /\ TheAnswer' = a /\ (Answered' <=> Answered)
      /\ Shapes' /\ HellosOK' /\ ServerOK' /\ FlightOK'
      /\ m \in Flight(a) /\ m.type \in Types(toClient)
      /\ Types(toClient') \subseteq Types(toClient)
  BY <1>6, ReadingKeeps DEF m, a
<1>8. /\ client.keys.hsRecv # NoKey /\ client.keys.hsSend # NoKey /\ client.next = NoKey
      /\ BeforeEnd(a)
  BY <1>0, <1>2 DEF ClientOK, BeforeHello, BeforeExtensions, AfterEnd, a
<1>9. client.schedule = Handshaking(a, t) /\ IsSeq(t)
  BY <1>8 DEF BeforeEnd
<1> HIDE DEF t
<1>10. client'.schedule = Handshaking(a, More(t, m)) /\ client'.schedule.hash = More(t, m)
  <2>1. client'.schedule = Handshaking(a, More(t, m))
    BY <1>4, <1>9, HandshakingIs
  <2>2. QED
    BY <2>1 DEF Handshaking, Keyed
<1>11. IsSeq(client'.schedule.hash) /\ Members(client'.schedule.hash) = Members(t) \cup {m}
  BY <1>9, <1>10, MoreMembers
<1>12. m.type # "FIN"
  BY <1>2
<1>13. client'.own = 0 => InStep(TheAnswer)'
  <2> SUFFICES ASSUME client'.own = 0 PROVE InStep(TheAnswer)'
    OBVIOUS
  <2>1. InStep(a)
    BY <1>4, <1>8 DEF BeforeEnd
  <2>2. CASE m.type = "CERT"
    <3>1. m = Certificate /\ client'.state = "expectCV"
      BY <1>4, <1>7, <2>2, InFlight
    <3>2. ~a.resumed /\ t = WithExtensions(a)
      BY <1>2, <2>1, <2>2 DEF InStep, t
    <3>3. client'.schedule.hash = WithCertificate(a)
      BY <1>7, <1>10, <3>1, <3>2, Transcripts
    <3>4. client'.enc = ClientKey(a)
      BY <1>4, <2>1 DEF InStep
    <3>5. QED
      BY <1>7, <3>1, <3>2, <3>3, <3>4 DEF InStep
  <2>3. CASE m.type = "CV"
    <3>1. m = Cv(a) /\ client'.state = "expectFin"
      BY <1>4, <1>7, <2>3, InFlight
    <3>2. ~a.resumed /\ t = WithCertificate(a)
      BY <1>2, <2>1, <2>3 DEF InStep, t
    <3>3. client'.schedule.hash = BeforeFinished(a)
      BY <1>7, <1>10, <3>1, <3>2, Transcripts
    <3>4. client'.enc = ClientKey(a)
      BY <1>4, <2>1 DEF InStep
    <3>5. QED
      BY <1>7, <3>1, <3>2, <3>3, <3>4 DEF InStep
  <2>4. QED
    BY <1>2, <2>2, <2>3
<1>14. client'.own # 0 => \E x \in Members(client'.schedule.hash) : x.type = "FIN"
  BY <1>4, <1>8, <1>11 DEF BeforeEnd, t
<1>15. \A x \in Members(client'.schedule.hash) : x.type = "FIN" => x.data.key.label = "c hs traffic"
  BY <1>8, <1>11, <1>12 DEF BeforeEnd, t
<1>16. client'.updated = FALSE
  BY <1>0, <1>4, <1>8 DEF BeforeEnd, Shapes
<1>17. <<client'.alpn, client'.early, client'.resumed>> = <<a.alpn, a.early, a.resumed>>
  BY <1>4, <1>8 DEF BeforeEnd
<1>18. client'.state \in {"expectCert", "expectCV", "expectFin", "expectSH"}
  BY <1>4
<1>19. client'.schedule = Handshaking(a, client'.schedule.hash)
  BY <1>10
<1>20. BeforeEnd(TheAnswer)'
  BY <1>4, <1>5, <1>7, <1>8, <1>11, <1>13, <1>14, <1>15, <1>16, <1>17, <1>18, <1>19 DEF BeforeEnd
<1>21. ClientOK'
  BY <1>4, <1>8, <1>20 DEF ClientOK
<1>22. TicketsOK'
  BY <1>0, <1>1, <1>4, <1>7, TicketsKept DEF a
<1>23. QED
  BY <1>7, <1>21, <1>22 DEF SessionInv

\* The server's Finished.
LEMMA TakeFinishedIs ==
  ASSUME Shapes, NEW m, m.type = "FIN", Took(m),
         NEW ks, ks = Extract(Update(client.schedule, m), None)
  PROVE  /\ DOMAIN client' = DOMAIN client /\ DOMAIN client'.keys = DOMAIN client.keys
         /\ client'.state = "gotFin" /\ client'.schedule = ks
         /\ client'.next = Derive(ks, "c ap traffic") /\ client'.updated = Yes
         /\ client'.alpn = client.alpn /\ client'.early = client.early /\ client'.enc = client.enc
         /\ client'.resumed = client.resumed
         /\ client'.psk = client.psk /\ client'.own = client.own
         /\ client'.ticket = client.ticket /\ client'.hellos = client.hellos
         /\ client'.binder = client.binder /\ client'.share = client.share
         /\ client'.extracted = client.extracted
         /\ client'.keys.zeroSend = client.keys.zeroSend
         /\ client'.keys.hsRecv = client.keys.hsRecv /\ client'.keys.hsSend = client.keys.hsSend
         /\ client'.keys.oneRecv = Derive(ks, "s ap traffic")
         /\ client'.keys.oneSend = client.keys.oneSend
         /\ client'.buffer = NoCrypto
<1> DEFINE key == Derive(ks, "s ap traffic")  nx == Derive(ks, "c ap traffic")
           k == [client.keys EXCEPT !.oneRecv = key]
           c == [client EXCEPT !.state = "gotFin", !.schedule = ks, !.dec = key, !.keys = k,
                    !.next = nx, !.updated = TRUE]
<1>1. Take(m) = c
  <2>1. Take(m) = TakeFinished(m)
    BY DEF Take
  <2>2. QED
    BY <2>1 DEF TakeFinished
<1>2. DOMAIN client = {"state", "ticket", "hellos", "binder", "share", "psk", "proxy",
                          "schedule", "resumed", "alpn", "early", "enc", "dec", "next", "updated",
                          "extracted", "own", "keys", "buffer"} /\ DOMAIN client.keys = Tls!Keys
  BY DEF Shapes
<1>3. client' = [c EXCEPT !.buffer = NoCrypto]
  BY <1>1 DEF Took
<1> HIDE DEF key, nx
<1>4. /\ DOMAIN k = DOMAIN client.keys /\ k.zeroSend = client.keys.zeroSend
      /\ k.hsRecv = client.keys.hsRecv /\ k.hsSend = client.keys.hsSend
      /\ k.oneRecv = key /\ k.oneSend = client.keys.oneSend
  BY <1>2 DEF Tls!Keys
<1> HIDE DEF k
<1>5. /\ DOMAIN c = DOMAIN client /\ c.keys = k
      /\ c.state = "gotFin" /\ c.schedule = ks /\ c.next = nx
      /\ c.alpn = client.alpn /\ c.enc = client.enc
  BY <1>2
<1>6. /\ c.psk = client.psk /\ c.own = client.own
      /\ c.ticket = client.ticket /\ c.hellos = client.hellos
      /\ c.binder = client.binder /\ c.share = client.share
      /\ c.extracted = client.extracted
  BY <1>2
<1>7. c.updated = Yes
  BY <1>2 DEF Yes
<1>8. c.resumed = client.resumed
  BY <1>2
<1>9. c.early = client.early
  BY <1>2
<1> HIDE DEF c
<1>10. DOMAIN c = DOMAIN client
  BY <1>2 DEF c
<1>11. /\ DOMAIN client' = DOMAIN client /\ client'.buffer = NoCrypto
      /\ client'.state = c.state /\ client'.ticket = c.ticket /\ client'.hellos = c.hellos
      /\ client'.binder = c.binder /\ client'.share = c.share /\ client'.psk = c.psk
      /\ client'.schedule = c.schedule /\ client'.resumed = c.resumed
  BY <1>2, <1>3, <1>10
<1>12. /\ client'.alpn = c.alpn /\ client'.early = c.early /\ client'.enc = c.enc
      /\ client'.dec = c.dec /\ client'.next = c.next
  BY <1>2, <1>3, <1>10
<1>13. /\ client'.updated = c.updated /\ client'.extracted = c.extracted
      /\ client'.own = c.own /\ client'.keys = c.keys
  BY <1>2, <1>3, <1>10
<1>14. QED
  BY <1>4, <1>5, <1>6, <1>7, <1>8, <1>9, <1>11, <1>12, <1>13 DEF key, nx

LEMMA TakesFinished ==
  ASSUME SessionInv, ClientReads, Done(Head(toClient)), Head(toClient).type = "FIN"
  PROVE  SessionInv'
<1> DEFINE m == Head(toClient)  a == TheAnswer  t == client.schedule.hash
           ks == Extract(Update(client.schedule, m), None)
<1>0. Shapes /\ HellosOK /\ ServerOK /\ FlightOK /\ ClientOK /\ TicketsOK
  BY DEF SessionInv
<1>1. /\ Took(m) /\ toServer' = Pushed(client.buffer)
      /\ ticket' = ticket
      /\ toClient # << >> /\ toClient' = Tail(toClient)
      /\ config' = config /\ conn' = conn /\ server' = server /\ store' = store
  BY ClientReadsIs DEF ServerAside
<1>2. /\ m.type = "FIN" /\ client.state = "expectFin"
      /\ m.data = FinishedData(client.schedule, client.dec)
  BY Accepted
<1> HIDE DEF m, a, ks
<1>4. /\ DOMAIN client' = DOMAIN client /\ DOMAIN client'.keys = DOMAIN client.keys
      /\ client'.state = "gotFin" /\ client'.schedule = ks
      /\ client'.next = Derive(ks, "c ap traffic") /\ client'.updated = Yes
      /\ client'.alpn = client.alpn /\ client'.early = client.early /\ client'.enc = client.enc
      /\ client'.resumed = client.resumed
      /\ client'.psk = client.psk /\ client'.own = client.own
      /\ client'.ticket = client.ticket /\ client'.hellos = client.hellos
      /\ client'.binder = client.binder /\ client'.share = client.share
      /\ client'.extracted = client.extracted
      /\ client'.keys.zeroSend = client.keys.zeroSend
      /\ client'.keys.hsRecv = client.keys.hsRecv /\ client'.keys.hsSend = client.keys.hsSend
      /\ client'.keys.oneRecv = Derive(ks, "s ap traffic")
      /\ client'.keys.oneSend = client.keys.oneSend
      /\ client'.buffer = NoCrypto
  BY <1>0, <1>1, <1>2, TakeFinishedIs DEF ks
<1>5. Unread' = Unread /\ AreStreams(toServer)' /\ AreStreams(client.buffer)'
  BY <1>0, <1>1, <1>4, Pushes
<1>6. Reading
  <2>1. client'.own \in Nat
    BY <1>0, <1>4 DEF Shapes
  <2>2. client'.updated \in BOOLEAN /\ client'.resumed \in BOOLEAN
    BY <1>0, <1>4 DEF Shapes, Yes
  <2>3. QED
    BY <1>1, <1>4, <1>5, <2>1, <2>2 DEF Reading
<1>7. /\ Answered /\ client.hellos > 0 /\ IsAnswer(a)
      /\ TheAnswer' = a /\ (Answered' <=> Answered)
      /\ Shapes' /\ HellosOK' /\ ServerOK' /\ FlightOK'
      /\ m \in Flight(a) /\ m.type \in Types(toClient)
      /\ \A ty \in Types(toClient') : Place[m.type] < Place[ty]
  BY <1>6, ReadingKeeps DEF m, a
<1>8. /\ client.keys.hsRecv # NoKey /\ client.keys.hsSend # NoKey /\ client.next = NoKey
      /\ BeforeEnd(a)
  BY <1>0, <1>2 DEF ClientOK, BeforeHello, BeforeExtensions, AfterEnd, a
<1>9. client.schedule = Handshaking(a, t) /\ IsSeq(t)
  BY <1>8 DEF BeforeEnd
<1>10. m = Fin(a)
  BY <1>2, <1>7, InFlight
<1>11. t = BeforeFinished(a)
  <2> DEFINE k == client.schedule  l == Handshaking(a, BeforeFinished(a))
  <2>1. FinishedData(k, client.dec) = FinishedData(l, ServerKey(a))
    BY <1>2, <1>10 DEF Fin, Finished
  <2>2. l.hash = BeforeFinished(a)
    BY DEF Handshaking, Keyed
  <2>3. FinishedData(k, client.dec).over = k.hash
    BY DEF FinishedData
  <2> HIDE DEF l
  <2>4. FinishedData(l, ServerKey(a)).over = l.hash
    BY DEF FinishedData
  <2>5. QED
    BY <2>1, <2>2, <2>3, <2>4
<1>12. client.own = 0 /\ client.enc = ClientKey(a)
  <2>1. \A x \in Members(BeforeFinished(a)) : x.type # "FIN"
    BY <1>7, AnswerIs, NoFinishedBefore
  <2>2. client.own = 0
    BY <1>8, <1>11, <2>1 DEF BeforeEnd
  <2>3. QED
    BY <1>8, <2>2 DEF BeforeEnd, InStep
<1> HIDE DEF t
<1>13. ks = Applying(a, WithFinished(a)) /\ ks.hash = WithFinished(a)
  <2>1. ks = Applying(a, WithFinished(a))
    BY <1>9, <1>10, <1>11, HandshakingIs, HandshakingEnds DEF ks, WithFinished
  <2>2. QED
    BY <2>1 DEF Applying, Keyed
<1>14. client'.next = ClientNext(a) /\ client'.keys.oneRecv = ServerNext(a) /\ client'.next # NoKey
  <2>1. client'.next = ClientNext(a) /\ client'.keys.oneRecv = ServerNext(a)
    BY <1>4, <1>13 DEF ClientNext, ServerNext
  <2>2. QED
    BY <2>1, DerivedIsKey DEF ClientNext
<1>15. {"SH", "EE", "CERT", "CV", "FIN"} \cap Types(toClient') = {}
  BY <1>2, <1>7 DEF Place
<1>16. IsSeq(WithFinished(a))
  BY <1>7, AnswerIs
<1>17. <<client'.alpn, client'.early, client'.resumed>> = <<a.alpn, a.early, a.resumed>>
  BY <1>4, <1>8 DEF BeforeEnd
<1>18. \A x \in Unread' : x.type = "FIN" => x.data # Verify(a)
  BY <1>5, <1>8 DEF BeforeEnd
<1>19. /\ client'.keys.oneSend = NoKey /\ client'.extracted = None /\ client'.psk = NoSchedule
       /\ client'.keys.hsRecv = ServerKey(a) /\ client'.keys.hsSend = ClientKey(a)
  BY <1>4, <1>8 DEF BeforeEnd
<1>20. /\ client'.schedule = Applying(a, client'.schedule.hash)
       /\ client'.schedule.hash = WithFinished(a) /\ IsSeq(client'.schedule.hash)
  BY <1>4, <1>13, <1>16
<1>21. client'.state = "gotFin" /\ client'.updated = TRUE /\ client'.enc = ClientKey(a)
  BY <1>4, <1>12 DEF Yes
<1>22. AfterEnd(TheAnswer)'
  BY <1>7, <1>14, <1>15, <1>17, <1>18, <1>19, <1>20, <1>21 DEF AfterEnd
<1>23. ClientOK'
  BY <1>4, <1>8, <1>14, <1>22 DEF ClientOK
<1>24. TicketsOK'
  BY <1>0, <1>1, <1>2, <1>4, <1>7, TicketsKept DEF a
<1>25. QED
  BY <1>7, <1>23, <1>24 DEF SessionInv

\* A session ticket.
LEMMA TakeTicketIs ==
  ASSUME Shapes, NEW m, m.type = "NST", Took(m)
  PROVE  /\ DOMAIN client' = DOMAIN client /\ client'.keys = client.keys
         /\ client'.state = client.state
         /\ client'.schedule = client.schedule
         /\ client'.alpn = client.alpn /\ client'.early = client.early /\ client'.enc = client.enc
         /\ client'.resumed = client.resumed
         /\ client'.psk = client.psk /\ client'.own = client.own /\ client'.dec = client.dec
         /\ client'.ticket = client.ticket /\ client'.hellos = client.hellos
         /\ client'.binder = client.binder /\ client'.share = client.share
         /\ client'.next = client.next
         /\ client'.updated = client.updated
         /\ client'.extracted \in {client.extracted, m.id}
         /\ client'.buffer = NoCrypto
<1> DEFINE x == IF client.state = "gotFin" THEN m.id ELSE client.extracted
           c == [client EXCEPT !.extracted = x, !.buffer = NoCrypto]
<1>1. DOMAIN client = {"state", "ticket", "hellos", "binder", "share", "psk", "proxy",
                          "schedule", "resumed", "alpn", "early", "enc", "dec", "next", "updated",
                          "extracted", "own", "keys", "buffer"}
  BY DEF Shapes
<1>2. Take(m) = IF client.state = "gotFin" THEN [client EXCEPT !.extracted = m.id] ELSE client
  BY DEF Take
<1> DEFINE id == m.id
<1> HIDE DEF id
<1>3. /\ DOMAIN client' = DOMAIN client /\ client'.keys = client.keys
      /\ client'.state = client.state /\ client'.schedule = client.schedule
      /\ client'.alpn = client.alpn /\ client'.enc = client.enc
      /\ client'.buffer = NoCrypto
  BY <1>1, <1>2 DEF Took
<1>4. /\ client'.psk = client.psk /\ client'.own = client.own /\ client'.dec = client.dec
      /\ client'.ticket = client.ticket /\ client'.hellos = client.hellos
      /\ client'.binder = client.binder /\ client'.share = client.share
  BY <1>1, <1>2 DEF Took
<1>5. client'.next = client.next /\ client'.updated = client.updated
  BY <1>1, <1>2 DEF Took
<1>6. client'.resumed = client.resumed
  BY <1>1, <1>2 DEF Took
<1>7. client'.early = client.early
  BY <1>1, <1>2 DEF Took
<1>8. client'.extracted \in {client.extracted, m.id}
  BY <1>1, <1>2 DEF Took
<1>9. QED
  BY <1>3, <1>4, <1>5, <1>6, <1>7, <1>8

LEMMA TakesTicket ==
  ASSUME SessionInv, ClientReads, Done(Head(toClient)), Head(toClient).type = "NST"
  PROVE  SessionInv'
<1> DEFINE m == Head(toClient)  a == TheAnswer
<1>0. Shapes /\ HellosOK /\ ServerOK /\ FlightOK /\ ClientOK /\ TicketsOK
  BY DEF SessionInv
<1>1. /\ Took(m) /\ toServer' = Pushed(client.buffer)
      /\ toClient # << >> /\ toClient' = Tail(toClient)
      /\ config' = config /\ conn' = conn /\ server' = server /\ store' = store
      /\ ticket' = IF m.type = "NST" /\ client.state = "post" /\ config.keeps
                   THEN BuildTicket(client.schedule, m.id, client.own) ELSE ticket
  BY ClientReadsIs DEF ServerAside
<1>2. m.type = "NST" /\ client.state \in {"gotFin", "post"}
  BY Accepted
<1> HIDE DEF m, a
<1>4. /\ DOMAIN client' = DOMAIN client /\ client'.keys = client.keys
      /\ client'.state = client.state
      /\ client'.schedule = client.schedule
      /\ client'.alpn = client.alpn /\ client'.early = client.early /\ client'.enc = client.enc
      /\ client'.resumed = client.resumed
      /\ client'.psk = client.psk /\ client'.own = client.own /\ client'.dec = client.dec
      /\ client'.ticket = client.ticket /\ client'.hellos = client.hellos
      /\ client'.binder = client.binder /\ client'.share = client.share
      /\ client'.next = client.next
      /\ client'.updated = client.updated
      /\ client'.extracted \in {client.extracted, m.id}
      /\ client'.buffer = NoCrypto
  BY <1>0, <1>1, <1>2, TakeTicketIs
<1>5. Unread' = Unread /\ AreStreams(toServer)' /\ AreStreams(client.buffer)'
  BY <1>0, <1>1, <1>4, Pushes
<1>6. Reading
  <2>1. client'.own \in Nat
    BY <1>0, <1>4 DEF Shapes
  <2>2. client'.updated \in BOOLEAN /\ client'.resumed \in BOOLEAN
    BY <1>0, <1>4 DEF Shapes
  <2>3. QED
    BY <1>1, <1>4, <1>5, <2>1, <2>2 DEF Reading
<1>7. /\ Answered /\ client.hellos > 0 /\ IsAnswer(a)
      /\ TheAnswer' = a /\ (Answered' <=> Answered)
      /\ Shapes' /\ HellosOK' /\ ServerOK' /\ FlightOK'
      /\ m \in Flight(a) /\ m.type \in Types(toClient)
      /\ Types(toClient') \subseteq Types(toClient)
  BY <1>6, ReadingKeeps DEF m, a
<1>8. m.id = conn
  <2>1. m = NewSessionTicket(a.conn)
    BY <1>2, <1>7, InFlight
  <2>2. QED
    BY <2>1 DEF NewSessionTicket, a, TheAnswer
<1>9. /\ client.keys.hsRecv # NoKey /\ client.keys.hsSend # NoKey /\ client.next # NoKey
      /\ AfterEnd(a)
  BY <1>0, <1>2 DEF ClientOK, BeforeHello, BeforeExtensions, BeforeEnd, a
<1>10. client'.updated = TRUE
  BY <1>0, <1>4, <1>9 DEF AfterEnd, Shapes
<1>11. <<client'.alpn, client'.early, client'.resumed>> = <<a.alpn, a.early, a.resumed>>
  BY <1>4, <1>9 DEF AfterEnd
<1>12. client'.extracted \in {None, conn'}
  BY <1>1, <1>4, <1>8, <1>9 DEF AfterEnd
<1>13. AfterEnd(TheAnswer)'
  BY <1>4, <1>5, <1>7, <1>9, <1>10, <1>11, <1>12 DEF AfterEnd
<1>14. ClientOK'
  BY <1>4, <1>9, <1>13 DEF ClientOK
<1>15. TicketsOK'
  <2>1. CASE ticket' = ticket
    BY <1>0, <1>1, <1>4, <1>7, <2>1, TicketsKept DEF a
  <2>2. CASE ticket' # ticket
    <3> DEFINE k == client.schedule  o == client.own
    <3>1. ticket' = BuildTicket(k, conn, o) /\ client.state = "post"
      BY <1>1, <1>8, <2>2
    <3>2. k = Applying(TheAnswer, k.hash) /\ (o = 1 => k.hash = Complete(TheAnswer))
      BY <1>9, <3>1 DEF AfterEnd, a
    <3> HIDE DEF k, o
    <3>3. Alike(ticket)'
      BY <1>0, <1>1, <3>1, <3>2, NewTicket
    <3>4. QED
      BY <1>0, <1>1, <1>4, <1>7, <3>3 DEF TicketsOK, Alike, a
  <2>3. QED
    BY <2>1, <2>2
<1>16. QED
  BY <1>7, <1>14, <1>15 DEF SessionInv

LEMMA ClientReadsKeeps ==
  ASSUME SessionInv, ClientReads
  PROVE  SessionInv'
<1>1. CASE ~Done(Head(toClient))
  BY <1>1, RefusedKeeps
<1>2. CASE Done(Head(toClient))
  <2>1. Head(toClient).type \in {"SH", "EE", "CERT", "CV", "FIN", "NST"}
    <3> DEFINE a == TheAnswer  s == toClient
    <3>1. IsFlight(a, s) /\ s # << >>
      BY ClientReadsIs DEF SessionInv, FlightOK
    <3> HIDE DEF a, s
    <3>2. Head(s) \in Flight(a)
      BY <3>1, FlightTail
    <3>3. QED
      BY <3>2, InFlight DEF s
  <2>2. QED
    BY <1>2, <2>1, TakesHello, TakesExtensions, TakesCertificate, TakesFinished, TakesTicket
<1>3. QED
  BY <1>1, <1>2

----------------------------------------------------------------------------
\* The server reads a message.

\* A list that has a member on offer has a first one.
LEMMA NegotiateIs ==
  ASSUME NEW S, NEW s \in Seq(S), NEW offered, Negotiate(s, offered) # None
  PROVE  Negotiate(s, offered) \in offered
<1> DEFINE common == {i \in 1..Len(s) : s[i] \in offered}
<1>1. common \in SUBSET Nat
  BY LenProperties
<1>2. common # {} /\ Negotiate(s, offered) = s[CHOOSE i \in common : \A j \in common : i <= j]
  BY DEF Negotiate
<1>3. PICK i \in common : \A j \in common : ~ (<<j, i>> \in OpToRel(<, Nat))
  BY <1>1, <1>2, NatLessThanWellFounded, WFMin
<1>4. ASSUME NEW j \in common PROVE i <= j
  <2>1. i \in Nat /\ j \in Nat /\ <<j, i>> \in Nat \X Nat
    BY <1>1
  <2>2. ~ (j < i)
    BY <1>3, <2>1 DEF OpToRel
  <2>3. QED
    BY <2>1, <2>2
<1>5. (CHOOSE k \in common : \A j \in common : k <= j) \in common
  BY <1>4
<1>6. QED
  BY <1>2, <1>5

\* What the reading of a message leaves as it is, whatever the message.
Serving(e) ==
  /\ toServer[e] # << >> /\ toServer' = [toServer EXCEPT ![e] = Tail(@)]
  /\ config' = config /\ conn' = conn /\ client' = client /\ ticket' = ticket

LEMMA ServerReadsIs ==
  ASSUME NEW e, ServerReads(e), NEW m, m = Head(toServer[e])
  PROVE  /\ Serving(e)
         /\ \/ server.state = "expectCH" /\ m.type = "CH" /\ ServerTakesHello(m)
            \/ server.state = "expectFin" /\ m.type = "FIN" /\ ServerTakesFinished(m)
            \/ server' = Alert(server, "unexpected") /\ UNCHANGED <<toClient, store>>
<1>1. Serving(e)
  BY DEF ServerReads, Serving
<1>2. (CASE server.state = "expectCH" /\ m.type = "CH" -> ServerTakesHello(m)
         [] server.state = "expectFin" /\ m.type = "FIN" -> ServerTakesFinished(m)
         [] OTHER -> server' = Alert(server, "unexpected") /\ UNCHANGED <<toClient, store>>)
  BY DEF ServerReads
<1>3. CASE server.state = "expectCH" /\ m.type = "CH"
  BY <1>1, <1>2, <1>3
<1>4. CASE server.state = "expectFin" /\ m.type = "FIN"
  BY <1>1, <1>2, <1>4
<1>5. CASE ~(server.state = "expectCH" /\ m.type = "CH") /\ ~(server.state = "expectFin" /\ m.type = "FIN")
  BY <1>1, <1>2, <1>5
<1>6. QED
  BY <1>3, <1>4, <1>5

LEMMA ServingKeeps ==
  ASSUME SessionInv, NEW e \in Epochs, Serving(e), NEW m, m = Head(toServer[e]),
         DOMAIN server' = DOMAIN server, DOMAIN server'.keys = DOMAIN server.keys
  PROVE  /\ Shapes' /\ HellosOK' /\ m \in Unread /\ Unread' \subseteq Unread /\ client.hellos > 0
<1>0. Shapes /\ HellosOK
  BY DEF SessionInv
<1>1. /\ Unread' \subseteq Unread /\ AreStreams(toServer)' /\ AreStreams(client.buffer)'
      /\ m \in Unread
  BY <1>0, IsRead DEF Serving
<1>2. Shapes'
  BY <1>0, <1>1 DEF Shapes, Serving
<1>3. client.hellos > 0
  <2>1. client.hellos \in Nat
    BY <1>0 DEF Shapes
  <2>2. client.hellos = 0 => Unread = {}
    BY <1>0 DEF HellosOK
  <2>3. Unread # {}
    BY <1>1
  <2>4. QED
    BY <2>1, <2>2, <2>3
<1>4. HellosOK'
  <2>1. FirstHello' = FirstHello /\ Start' = Start
    BY DEF FirstHello, Start, Serving
  <2>2. \A x : IsHello(x)' <=> IsHello(x)
    BY DEF IsHello, Serving
  <2>3. \A x \in Unread' : x.type \in {"CH", "CERT", "FIN"} /\ (x.type = "CH" => IsHello(x)')
    BY <1>0, <1>1, <2>2 DEF HellosOK
  <2>4. client.hellos # 0
    BY <1>3
  <2>5. QED
    BY <1>0, <2>1, <2>3, <2>4 DEF HellosOK, Serving
<1>5. QED
  BY <1>1, <1>2, <1>3, <1>4

\* The client is where it was, as long as the answer is.
LEMMA ClientWaits ==
  ASSUME ClientOK, client' = client, conn' = conn, Unread' \subseteq Unread, TheAnswer' = TheAnswer,
         Types(toClient') = Types(toClient)
  PROVE  ClientOK'
<1>1. CASE client.keys.hsRecv = NoKey
  BY <1>1 DEF ClientOK, BeforeHello
<1>2. CASE client.keys.hsRecv # NoKey /\ client.keys.hsSend = NoKey
  BY <1>2 DEF ClientOK, BeforeExtensions
<1>3. CASE client.keys.hsRecv # NoKey /\ client.keys.hsSend # NoKey /\ client.next = NoKey
  BY <1>3 DEF ClientOK, BeforeEnd, InStep
<1>4. CASE client.keys.hsRecv # NoKey /\ client.keys.hsSend # NoKey /\ client.next # NoKey
  BY <1>4 DEF ClientOK, AfterEnd
<1>5. QED
  BY <1>1, <1>2, <1>3, <1>4

\* A message that is refused: the state stays as it is, and so does all else if
\* the server has answered; tickets may go.
LEMMA ServerRefuses ==
  ASSUME SessionInv, NEW e \in Epochs, Serving(e), toClient' = toClient, store' \subseteq store,
         DOMAIN server' = DOMAIN server, server'.keys = server.keys, server'.state = server.state,
         Answered => /\ server'.schedule = server.schedule /\ server'.resumed = server.resumed
                     /\ server'.alpn = server.alpn /\ server'.early = server.early
                     /\ server'.expected = server.expected /\ server'.nextDec = server.nextDec
  PROVE  SessionInv'
<1>0. Shapes /\ HellosOK /\ ServerOK /\ FlightOK /\ ClientOK /\ TicketsOK
  BY DEF SessionInv
<1>1. config' = config /\ conn' = conn /\ client' = client /\ ticket' = ticket
  BY DEF Serving
<1>2. Shapes' /\ HellosOK' /\ Unread' \subseteq Unread
  BY ServingKeeps
<1>3. Answered' <=> Answered
  BY DEF Answered
<1>4. CASE Answered
  <2> DEFINE a == TheAnswer
  <2>1. TheAnswer' = a
    BY <1>1, <1>4 DEF TheAnswer
  <2> HIDE DEF a
  <2>2. ServerOK'
    <3>1. FirstHello' = FirstHello
      BY <1>1 DEF FirstHello
    <3>2. QED
      BY <1>0, <1>1, <1>3, <1>4, <2>1, <3>1 DEF ServerOK, a
  <2>3. FlightOK'
    BY <1>0, <2>1 DEF FlightOK, a
  <2>4. ClientOK'
    BY <1>0, <1>1, <1>2, <2>1, ClientWaits DEF a
  <2>5. TicketsOK'
    BY <1>0, <1>1, <1>3, <2>1 DEF TicketsOK, Alike, a
  <2>6. QED
    BY <1>2, <2>2, <2>3, <2>4, <2>5 DEF SessionInv
<1>5. CASE ~Answered
  <2>1. ServerOK'
    BY <1>0, <1>1, <1>3, <1>5 DEF ServerOK
  <2>2. toClient' = << >> /\ client.keys.hsRecv = NoKey
    BY <1>0, <1>5 DEF ServerOK
  <2>3. FlightOK'
    BY <2>2, NoFlight DEF FlightOK
  <2>4. ClientOK'
    BY <1>0, <1>1, <1>2, <2>2 DEF ClientOK, BeforeHello
  <2>5. TicketsOK'
    <3>1. \A s \in store' : s \in store /\ s.id \in Nat /\ s.id <= conn /\ s.id # conn
      BY <1>0, <1>5 DEF TicketsOK
    <3>2. QED
      BY <1>0, <1>1, <1>3, <1>5, <3>1 DEF TicketsOK, Alike
  <2>6. QED
    BY <1>2, <2>1, <2>3, <2>4, <2>5 DEF SessionInv
<1>6. QED
  BY <1>4, <1>5

\* A Finished the server takes is one the client has sent for good: the client
\* has the key it installed with it.
LEMMA FinishedWasSent ==
  ASSUME SessionInv, Answered, NEW m \in Unread, m.type = "FIN", m.data = server.expected
  PROVE  client.keys.oneSend = ClientNext(TheAnswer)
<1> DEFINE a == TheAnswer
<1>1. ClientOK /\ m.data = Verify(a)
  BY DEF SessionInv, ServerOK
<1> HIDE DEF a
<1>2. client.keys.hsRecv # NoKey /\ client.keys.hsSend # NoKey /\ client.next # NoKey
  <2>1. CASE client.keys.hsRecv = NoKey
    BY <1>1, <2>1 DEF ClientOK, BeforeHello
  <2>2. CASE client.keys.hsRecv # NoKey /\ client.keys.hsSend = NoKey
    BY <1>1, <2>2 DEF ClientOK, BeforeExtensions
  <2>3. CASE client.keys.hsRecv # NoKey /\ client.keys.hsSend # NoKey /\ client.next = NoKey
    <3>1. BeforeEnd(a)
      BY <1>1, <2>3 DEF ClientOK, a
    <3>2. QED
      BY <1>1, <3>1 DEF BeforeEnd
  <2>4. QED
    BY <2>1, <2>2, <2>3
<1>3. AfterEnd(a)
  BY <1>1, <1>2 DEF ClientOK, a
<1>4. client.keys.oneSend # NoKey /\ client.keys.oneSend \in {NoKey, ClientNext(a)}
  BY <1>1, <1>3 DEF AfterEnd
<1>5. QED
  BY <1>4 DEF a

LEMMA ServerTakesFinishedKeeps ==
  ASSUME SessionInv, NEW e \in Epochs, Serving(e), NEW m, m = Head(toServer[e]),
         server.state = "expectFin", m.type = "FIN", ServerTakesFinished(m)
  PROVE  SessionInv'
<1> DEFINE a == TheAnswer
<1>0. Shapes /\ HellosOK /\ ServerOK /\ FlightOK /\ ClientOK /\ TicketsOK
  BY DEF SessionInv
<1>1. config' = config /\ conn' = conn /\ client' = client /\ ticket' = ticket
  BY DEF Serving
<1>2. toClient' = toClient /\ store' = store
  BY DEF ServerTakesFinished
<1>3. /\ DOMAIN server = {"state", "schedule", "resumed", "alpn", "early", "dec", "nextDec",
                          "expected", "alert", "keys"}
      /\ DOMAIN server.keys = {"zeroRecv", "hsRecv", "hsSend", "oneRecv", "oneSend"}
  BY <1>0 DEF Shapes
<1>4. Answered
  BY DEF Answered
<1>5. CASE m.data # server.expected
  <2>1. server' = [server EXCEPT !.alert = "decrypt"]
    BY <1>5 DEF ServerTakesFinished, Alert
  <2>2. /\ DOMAIN server' = DOMAIN server /\ server'.keys = server.keys
        /\ server'.state = server.state
        /\ server'.schedule = server.schedule /\ server'.resumed = server.resumed
        /\ server'.alpn = server.alpn /\ server'.early = server.early
        /\ server'.expected = server.expected /\ server'.nextDec = server.nextDec
    BY <1>3, <2>1
  <2>3. QED
    BY <1>2, <2>2, ServerRefuses
<1>6. CASE m.data = server.expected
  <2> DEFINE k == [server.keys EXCEPT !.oneRecv = server.nextDec]
  <2>1. server' = [server EXCEPT !.state = "post", !.dec = server.nextDec, !.nextDec = NoKey,
                                 !.keys = k]
    BY <1>6 DEF ServerTakesFinished
  <2>2. /\ DOMAIN k = DOMAIN server.keys /\ k.oneRecv = server.nextDec
        /\ k.zeroRecv = server.keys.zeroRecv /\ k.hsRecv = server.keys.hsRecv
        /\ k.hsSend = server.keys.hsSend /\ k.oneSend = server.keys.oneSend
    BY <1>3
  <2> HIDE DEF k
  <2>3. /\ DOMAIN server' = DOMAIN server /\ server'.keys = k /\ server'.state = "post"
        /\ server'.schedule = server.schedule /\ server'.resumed = server.resumed
        /\ server'.alpn = server.alpn /\ server'.early = server.early
        /\ server'.expected = server.expected
    BY <1>3, <2>1
  <2>4. Shapes' /\ HellosOK' /\ m \in Unread /\ Unread' \subseteq Unread
    BY <2>2, <2>3, ServingKeeps
  <2>5. TheAnswer' = a /\ Answered'
    BY <1>1, <2>3 DEF TheAnswer, Answered
  <2>6. client.keys.oneSend = ClientNext(a)
    BY <1>4, <1>6, <2>4, FinishedWasSent
  <2> HIDE DEF a
  <2>7. ServerOK'
    <3>1. FirstHello' = FirstHello
      BY <1>1 DEF FirstHello
    <3>2. server.nextDec = ClientNext(a)
      BY <1>0, <1>4 DEF ServerOK, a
    <3>3. server'.keys.oneRecv = ClientNext(a) /\ client'.keys.oneSend = ClientNext(a)
      BY <1>1, <2>2, <2>3, <2>6, <3>2
    <3>4. QED
      BY <1>0, <1>1, <1>4, <2>2, <2>3, <2>5, <3>1, <3>3 DEF ServerOK, a
  <2>8. FlightOK'
    BY <1>0, <1>2, <2>5 DEF FlightOK, a
  <2>9. ClientOK'
    BY <1>0, <1>1, <1>2, <2>4, <2>5, ClientWaits DEF a
  <2>10. TicketsOK'
    BY <1>0, <1>1, <1>2, <1>4, <2>5 DEF TicketsOK, Alike, a
  <2>11. QED
    BY <2>4, <2>7, <2>8, <2>9, <2>10 DEF SessionInv
<1>7. QED
  BY <1>5, <1>6

\* Equal terms are computed from the same things.
LEMMA SameFinished ==
  \A k, l, x, y : FinishedData(k, x) = FinishedData(l, y) => x = y /\ k.hash = l.hash
<1>1. \A k, x : FinishedData(k, x).key = x /\ FinishedData(k, x).over = k.hash
  BY DEF FinishedData
<1>2. QED
  BY <1>1

LEMMA SameDerived ==
  \A k, l, x, y : Derive(k, x) = Derive(l, y) => k.inputs = l.inputs
<1>1. \A k, x : Derive(k, x).inputs = k.inputs
  BY DEF Derive
<1>2. QED
  BY <1>1

\* The key of a binder.
BinderKey(ks) == Derive(ks, "res binder")

\* A ticket that is taken up, by a hello whose binder is right, is the client's,
\* and the hello is the first the client has sent.
LEMMA TakenUpIsTheClients ==
  ASSUME SessionInv, NEW h \in Unread, h.type = "CH", NEW suite, TakenUp(suite, Found(h)),
         NEW t \in Found(h), NEW psk, psk = Schedule(suite, t.secret),
         NEW x, x = [h EXCEPT !.binder = NoKey],
         NEW key, key = BinderKey(psk), h.binder = FinishedData(Update(psk, x), key)
  PROVE  /\ client.ticket # None /\ suite = client.ticket.suite /\ t.secret = client.ticket.secret
         /\ h = FirstHello
<1>0. HellosOK /\ TicketsOK /\ client.hellos \in Nat
  BY DEF SessionInv, Shapes
<1>1. IsHello(h)
  BY <1>0 DEF HellosOK
<1>2. client.ticket # None /\ \A s \in Found(h) : s \in store /\ s.id = client.ticket.id
  BY <1>1 DEF IsHello, Found
<1>3. suite = client.ticket.suite
  <2>1. PICK s \in Found(h) : s.suite = suite
    BY DEF TakenUp
  <2>2. QED
    BY <1>0, <1>2, <2>1 DEF TicketsOK, Alike
<1>4. client.hellos > 0
  <2>1. client.hellos = 0 => Unread = {}
    BY <1>0 DEF HellosOK
  <2>2. Unread # {}
    OBVIOUS
  <2>3. QED
    BY <1>0, <2>1, <2>2
<1> DEFINE y == client.binder.over[1]
           i == <<t.secret>>  j == <<client.ticket.secret>>  e == << >>
<1>5. /\ client.binder = FinishedData(Update(Start, y), BinderKey(Start))
      /\ h.binder = client.binder
  BY <1>0, <1>1, <1>2, <1>4 DEF HellosOK, IsHello, BinderKey
<1>6. Start = Keyed(suite, j, e) /\ psk = Keyed(suite, i, e)
  BY <1>3, ScheduleIs DEF Start
<1>7. FirstHello = [y EXCEPT !.binder = h.binder]
  BY <1>5 DEF FirstHello
<1>8. h = [x EXCEPT !.binder = h.binder]
  BY <1>1 DEF IsHello
<1>9. i = j => t.secret = client.ticket.secret
  OBVIOUS
<1> DEFINE key2 == BinderKey(Start)
<1>10. FinishedData(Update(psk, x), key) = FinishedData(Update(Start, y), key2)
  BY <1>5
<1> HIDE DEF y, i, j, e, key2
<1>11. Update(psk, x) = Keyed(suite, i, More(e, x)) /\ Update(Start, y) = Keyed(suite, j, More(e, y))
  BY <1>6, UpdateIs
<1>12. More(e, x) = More(e, y) /\ key = key2
  <2>1. Update(psk, x).hash = More(e, x) /\ Update(Start, y).hash = More(e, y)
    BY <1>11 DEF Keyed
  <2>2. Update(psk, x).hash = Update(Start, y).hash /\ key = key2
    BY <1>10, SameFinished
  <2>3. QED
    BY <2>1, <2>2
<1>13. x = y
  <2>1. More(e, x) = <<x>> /\ More(e, y) = <<y>>
    BY Append0 DEF More, e
  <2>2. <<x>>[1] = x /\ <<y>>[1] = y
    OBVIOUS
  <2>3. QED
    BY <1>12, <2>1, <2>2
<1>14. i = j
  <2>1. psk.inputs = i /\ Start.inputs = j
    BY <1>6 DEF Keyed
  <2>2. psk.inputs = Start.inputs
    BY <1>12, SameDerived DEF key2, BinderKey
  <2>3. QED
    BY <2>1, <2>2
<1>15. h = FirstHello
  BY <1>7, <1>8, <1>13
<1>16. QED
  BY <1>2, <1>3, <1>9, <1>14, <1>15

\* What the answer makes of the server.
LEMMA AnswerIsThere ==
  ASSUME NEW h, NEW suite, NEW alpn, NEW secret, NEW resumed,
         NEW a, a = AnswerTo(h, suite, alpn, secret, resumed), IsAnswer(a),
         NEW psk, AnswerPuts(a, h, psk), conn' = conn
  PROVE  TheAnswer' = a
<1> DEFINE both == [client |-> h.share, server |-> <<conn, "server">>]
<1>1. /\ a.hello = h /\ a.suite = suite /\ a.resumed = resumed /\ a.alpn = alpn /\ a.conn = conn
      /\ a.inputs = <<secret, both>>
      /\ a = [hello |-> h, suite |-> suite, inputs |-> <<secret, both>>,
              resumed |-> resumed, alpn |-> alpn, early |-> a.early, conn |-> conn]
  BY DEF AnswerTo
<1>2. IsAnswer(a)
  OBVIOUS
<1>3. Complete(a)[1] = h
  BY <1>1, <1>2, AnswerIs
<1> HIDE DEF both
<1>4. More(a.inputs, None) = <<secret, both, None>>
  BY <1>1, Append2 DEF More
<1>5. More(a.inputs, None)[1] = secret /\ More(a.inputs, None)[2] = both
  BY <1>4
<1>6. /\ server'.schedule.hash = Complete(a) /\ server'.schedule.suite = suite
      /\ server'.schedule.inputs = More(a.inputs, None)
  <2>1. server'.schedule = Applying(a, Complete(a))
    BY DEF AnswerPuts
  <2>2. QED
    BY <1>1, <2>1 DEF Applying, Keyed
<1>7. TheAnswer' = [hello |-> h, suite |-> suite, inputs |-> <<secret, both>>,
                    resumed |-> resumed, alpn |-> alpn, early |-> a.early, conn |-> conn]
  <2>1. server'.resumed = resumed /\ server'.alpn = alpn /\ server'.early = a.early
    BY <1>1 DEF AnswerPuts
  <2>2. QED
    BY <1>3, <1>5, <1>6, <2>1 DEF TheAnswer
<1>8. QED
  BY <1>1, <1>7

LEMMA AnswerKeeps ==
  ASSUME SessionInv, NEW e \in Epochs, Serving(e), NEW h, h = Head(toServer[e]),
         ~Answered, NEW suite, suite \in h.suites, NEW alpn, NEW secret, NEW resumed,
         Answer(h, suite, alpn, Schedule(suite, secret), resumed),
         NEW a, a = AnswerTo(h, suite, alpn, secret, resumed), IsAnswer(a),
         a.resumed => /\ client.ticket # None /\ suite = client.ticket.suite
                      /\ secret = client.ticket.secret /\ h = FirstHello
  PROVE  SessionInv'
<1>0. Shapes /\ HellosOK /\ ServerOK /\ FlightOK /\ ClientOK /\ TicketsOK
  BY DEF SessionInv
<1>14. h.type = "CH"
  BY DEF AnswerTo, IsAnswer
<1>1. config' = config /\ conn' = conn /\ client' = client /\ ticket' = ticket
  BY DEF Serving
<1>15. a.alpn = alpn /\ a.suite = suite /\ a.hello = h /\ a.conn = conn
  BY DEF AnswerTo
<1>16. AnswerPuts(a, h, Schedule(suite, secret))
  BY <1>0, Answering
<1>2. /\ DOMAIN server' = DOMAIN server
      /\ DOMAIN server'.keys = {"zeroRecv", "hsRecv", "hsSend", "oneRecv", "oneSend"}
      /\ server'.state = "expectFin" /\ server'.schedule = Applying(a, Complete(a))
      /\ server'.resumed = a.resumed /\ server'.alpn = a.alpn /\ server'.early = a.early
      /\ server'.expected = Verify(a) /\ server'.nextDec = ClientNext(a)
      /\ server'.keys.hsSend = ServerKey(a) /\ server'.keys.hsRecv = ClientKey(a)
      /\ server'.keys.oneSend = ServerNext(a)
      /\ server'.keys.zeroRecv \in
           {NoKey, Derive(Update(Schedule(suite, secret), h), "c e traffic")}
      /\ ~a.resumed => server'.keys.zeroRecv = NoKey
      /\ toClient' = toClient \o <<Sh(a), Ee(a)>> \o Certs(a) \o <<Fin(a)>>
                       \o (IF Issues(h) THEN <<NewSessionTicket(conn)>> ELSE << >>)
      /\ store' = (store \ Found(h)) \cup
           (IF Issues(h) THEN {BuildTicket(Applying(a, Complete(a)), conn, 1)} ELSE {})
  BY <1>16 DEF AnswerPuts
<1>17. TheAnswer' = a
  BY <1>1, <1>16, AnswerIsThere
<1>18. a.inputs[2] = [client |-> h.share, server |-> <<conn, "server">>]
  BY DEF AnswerTo
<1>3. /\ TheAnswer' = a /\ IsAnswer(a) /\ a.suite = suite
      /\ a.hello = h /\ a.conn = conn
      /\ a.inputs[2] = [client |-> a.hello.share, server |-> <<conn, "server">>]
  BY <1>15, <1>17, <1>18
<1>4. Shapes' /\ HellosOK' /\ h \in Unread /\ Unread' \subseteq Unread /\ client.hellos > 0
  BY <1>0, <1>2, ServingKeeps DEF Shapes
<1>5. suite \in Members(ClientSuites)
  <2>1. IsHello(h)
    BY <1>0, <1>4, <1>14 DEF HellosOK
  <2>2. QED
    BY <2>1, SessionAssumption DEF IsHello
<1>6. Answered' /\ server'.state # "post"
  BY <1>2 DEF Answered
<1>7. toClient = << >> /\ client.keys.hsRecv = NoKey
  BY <1>0 DEF ServerOK
<1>8. server'.keys.zeroRecv \in {NoKey, client.keys.zeroSend}
  <2>1. CASE a.resumed
    <3>1. Schedule(suite, secret) = Start
      BY <2>1 DEF Start
    <3>2. client.hellos > 0 /\ client.ticket # None
      BY <1>4, <2>1
    <3>3. client.keys.zeroSend = Derive(Update(Start, FirstHello), "c e traffic")
      BY <1>0, <3>2 DEF HellosOK
    <3>4. h = FirstHello
      BY <2>1
    <3>5. QED
      BY <1>2, <3>1, <3>3, <3>4
  <2>2. CASE ~a.resumed
    BY <1>2, <2>2
  <2>3. QED
    BY <2>1, <2>2 DEF IsAnswer
<1>9. ServerOK'
  <2>1. FirstHello' = FirstHello
    BY <1>1 DEF FirstHello
  <2>2. IsAnswer(a)
    BY <1>3
  <2>3. a.resumed => /\ client'.ticket # None /\ a.suite = client'.ticket.suite
                     /\ a.hello = FirstHello'
    BY <1>1, <1>3, <2>1
  <2>4. a.inputs[2] = [client |-> a.hello.share, server |-> <<conn', "server">>]
    BY <1>1, <1>3
  <2>5. a.suite \in Members(ClientSuites) /\ client'.hellos > 0
    BY <1>1, <1>3, <1>4, <1>5
  <2>6. server'.keys.zeroRecv \in {NoKey, client'.keys.zeroSend}
    BY <1>1, <1>8
  <2>7. QED
    BY <1>2, <1>3, <1>6, <2>2, <2>3, <2>4, <2>5, <2>6 DEF ServerOK
<1>10. FlightOK'
  <2>1. Issues(h) \in BOOLEAN
    BY DEF Issues
  <2>2. IsSeq(toClient)
    BY <1>7, EmptyIsSeq
  <2> DEFINE s == toClient  issue == Issues(h)
  <2>3. toClient' = s \o <<Sh(a), Ee(a)>> \o Certs(a) \o <<Fin(a)>>
                      \o (IF issue THEN <<NewSessionTicket(a.conn)>> ELSE << >>)
    BY <1>2, <1>3
  <2>4. s = << >> /\ IsSeq(s) /\ issue \in BOOLEAN /\ IsAnswer(a)
    BY <1>3, <1>7, <2>1, <2>2
  <2> HIDE DEF s, issue
  <2>5. IsFlight(a, toClient')
    BY <2>3, <2>4, NewFlight
  <2>6. QED
    BY <1>3, <2>5 DEF FlightOK
<1>11. ClientOK'
  BY <1>0, <1>1, <1>4, <1>7 DEF ClientOK, BeforeHello
<1>12. TicketsOK'
  <2> DEFINE new == BuildTicket(Applying(a, Complete(a)), conn, 1)
  <2>1. new.id = conn /\ conn \in Nat
    BY <1>0 DEF BuildTicket, Shapes
  <2> HIDE DEF new
  <2>2. store' \subseteq store \cup {new}
    BY <1>2 DEF new
  <2>3. \A s \in store : s.id \in Nat /\ s.id <= conn /\ s.id # conn
    BY <1>0 DEF TicketsOK
  <2>4. \A s \in store' : /\ s.id \in Nat /\ s.id <= conn
                          /\ s.id = conn => Answered' /\ s = new
    BY <1>6, <2>1, <2>2, <2>3
  <2>5. ticket # None => ticket.id # conn
    BY <1>0 DEF TicketsOK
  <2>6. client.ticket # None => client.ticket.id # conn
    <3>1. client.ticket # None => client.ticket.id \in Nat /\ client.ticket.id < conn
      BY <1>0 DEF TicketsOK, Alike
    <3>2. QED
      BY <2>1, <3>1
  <2>7. Alike(ticket)'
    BY <1>0, <1>1, <2>1, <2>2, <2>5 DEF TicketsOK, Alike
  <2>8. Alike(client.ticket)'
    BY <1>0, <1>1, <2>1, <2>2, <2>6 DEF TicketsOK, Alike
  <2>9. client'.ticket # None => client'.ticket.id < conn'
    BY <1>0, <1>1 DEF TicketsOK
  <2>10. QED
    BY <1>1, <1>3, <1>6, <2>4, <2>7, <2>8, <2>9 DEF TicketsOK, new
<1>13. QED
  BY <1>4, <1>9, <1>10, <1>11, <1>12 DEF SessionInv

\* The server takes a hello, or refuses it.
LEMMA ServerTakesHelloKeeps ==
  ASSUME SessionInv, NEW e \in Epochs, Serving(e), NEW h, h = Head(toServer[e]),
         server.state = "expectCH", h.type = "CH", ServerTakesHello(h)
  PROVE  SessionInv'
<1> DEFINE suite == Negotiate(config.suites, h.suites)
           alpn == IF config.alpn = None THEN None ELSE Negotiate(config.alpn, Members(h.alpn))
           resumed == TakenUp(suite, Found(h))
           t == CHOOSE t \in Found(h) : TRUE
           secret == IF resumed THEN t.secret ELSE None
           psk == Schedule(suite, secret)
           x == [h EXCEPT !.binder = NoKey]
           binder == FinishedData(Update(psk, x), BinderKey(psk))
<1>0. Shapes /\ ~Answered /\ config \in ServerConfigs
  BY DEF SessionInv, Shapes, Answered
<1>1. DOMAIN server = {"state", "schedule", "resumed", "alpn", "early", "dec", "nextDec",
                       "expected", "alert", "keys"}
  BY <1>0 DEF Shapes
<1>2. /\ suite = None => server' = Alert(server, "suite") /\ toClient' = toClient /\ store' = store
      /\ suite # None /\ config.alpn # None /\ alpn = None =>
           server' = Alert(server, "alpn") /\ toClient' = toClient /\ store' = store
      /\ suite # None /\ ~(config.alpn # None /\ alpn = None) =>
           IF resumed /\ h.binder # binder
           THEN /\ server' = Alert([server EXCEPT !.alpn = alpn, !.schedule = psk], "psk")
                /\ toClient' = toClient /\ store' = store \ Found(h)
           ELSE Answer(h, suite, alpn, psk, resumed)
  <2>1. psk = IF resumed THEN LET u == CHOOSE u \in Found(h) : TRUE IN Schedule(suite, u.secret)
                         ELSE Schedule(suite, None)
    OBVIOUS
  <2> DEFINE p == IF resumed THEN LET u == CHOOSE u \in Found(h) : TRUE IN Schedule(suite, u.secret)
                             ELSE Schedule(suite, None)
             b == FinishedData(Update(p, x), Derive(p, "res binder"))
  <2>2. binder = b
    BY <2>1 DEF BinderKey
  <2>3. (CASE suite = None -> server' = Alert(server, "suite") /\ UNCHANGED toClient /\ UNCHANGED store
           [] suite # None /\ config.alpn # None /\ alpn = None ->
                server' = Alert(server, "alpn") /\ UNCHANGED toClient /\ UNCHANGED store
           [] OTHER -> IF resumed /\ h.binder # b
                       THEN /\ server' = Alert([server EXCEPT !.alpn = alpn, !.schedule = p], "psk")
                            /\ UNCHANGED toClient
                            /\ store' = store \ Found(h)
                       ELSE Answer(h, suite, alpn, p, resumed))
    BY DEF ServerTakesHello
  <2> HIDE DEF suite, alpn, resumed, psk, binder, p, b
  <2>4. p = psk
    BY <2>1 DEF p
  <2>5. QED
    BY <2>2, <2>3, <2>4
<1>3. ASSUME NEW what, server' = Alert(server, what), toClient' = toClient, store' = store
      PROVE  SessionInv'
  <2>1. /\ DOMAIN server' = DOMAIN server /\ server'.keys = server.keys
        /\ server'.state = server.state
    BY <1>1, <1>3 DEF Alert
  <2>2. store' \subseteq store
    BY <1>3
  <2>3. QED
    BY <1>0, <1>3, <2>1, <2>2, ServerRefuses
<1> HIDE DEF suite, alpn
<1>4. ASSUME server' = Alert([server EXCEPT !.alpn = alpn, !.schedule = psk], "psk"),
             toClient' = toClient, store' = store \ Found(h)
      PROVE  SessionInv'
  <2>1. /\ DOMAIN server' = DOMAIN server /\ server'.keys = server.keys
        /\ server'.state = server.state
    <3> HIDE DEF psk
    <3>1. QED
      BY <1>1, <1>4 DEF Alert
  <2>2. store' \subseteq store
    BY <1>4
  <2>3. QED
    BY <1>0, <1>4, <2>1, <2>2, ServerRefuses
<1>5. ASSUME suite # None, ~(resumed /\ h.binder # binder), Answer(h, suite, alpn, psk, resumed)
      PROVE  SessionInv'
  <2> DEFINE a == AnswerTo(h, suite, alpn, secret, resumed)
  <2>1. h \in Unread
    <3>1. AreStreams(toServer)
      BY <1>0 DEF Shapes
    <3>2. QED
      BY <1>0, IsRead DEF Serving
  <2>2. suite \in h.suites
    <3>1. config.suites \in Seq(Suites)
      BY <1>0, SessionAssumption
    <3>2. QED
      BY <1>5, <3>1, NegotiateIs DEF suite
  <2>3. IsAnswer(a)
    BY DEF AnswerTo, IsAnswer, TakenUp
  <2>4. a.resumed => resumed
    BY DEF AnswerTo
  <2>5. resumed => /\ client.ticket # None /\ suite = client.ticket.suite
                   /\ secret = client.ticket.secret /\ h = FirstHello
    <3>1. SUFFICES ASSUME resumed
                   PROVE  /\ client.ticket # None /\ suite = client.ticket.suite
                          /\ secret = client.ticket.secret /\ h = FirstHello
      OBVIOUS
    <3>2. t \in Found(h)
      BY <3>1 DEF TakenUp
    <3>3. secret = t.secret /\ h.binder = binder /\ TakenUp(suite, Found(h))
      BY <1>5, <3>1
    <3> DEFINE k == BinderKey(psk)
    <3>4. psk = Schedule(suite, t.secret) /\ h.binder = FinishedData(Update(psk, x), k)
          /\ k = BinderKey(psk) /\ x = [h EXCEPT !.binder = NoKey]
      BY <3>3
    <3> HIDE DEF t, psk, x, k, secret, resumed, binder
    <3>5. /\ client.ticket # None /\ suite = client.ticket.suite
          /\ t.secret = client.ticket.secret /\ h = FirstHello
      BY <2>1, <3>2, <3>3, <3>4, TakenUpIsTheClients
    <3>6. QED
      BY <3>3, <3>5
  <2>6. a.resumed => /\ client.ticket # None /\ suite = client.ticket.suite
                     /\ secret = client.ticket.secret /\ h = FirstHello
    BY <2>4, <2>5
  <2>7. a = AnswerTo(h, suite, alpn, secret, resumed) /\ Answer(h, suite, alpn, Schedule(suite, secret), resumed)
    BY <1>5
  <2> HIDE DEF a, secret, resumed, psk, t, x, binder
  <2>8. QED
    BY <1>0, <2>2, <2>3, <2>6, <2>7, AnswerKeeps
<1> HIDE DEF resumed, psk, binder
<1>6. CASE suite = None
  BY <1>2, <1>3, <1>6
<1>7. CASE suite # None /\ config.alpn # None /\ alpn = None
  BY <1>2, <1>3, <1>7
<1>8. CASE suite # None /\ ~(config.alpn # None /\ alpn = None)
  BY <1>2, <1>4, <1>5, <1>8
<1>9. QED
  BY <1>6, <1>7, <1>8

LEMMA ServerReadsKeeps ==
  ASSUME SessionInv, NEW e \in Epochs, ServerReads(e)
  PROVE  SessionInv'
<1> DEFINE m == Head(toServer[e])
<1>1. /\ Serving(e)
      /\ \/ server.state = "expectCH" /\ m.type = "CH" /\ ServerTakesHello(m)
         \/ server.state = "expectFin" /\ m.type = "FIN" /\ ServerTakesFinished(m)
         \/ server' = Alert(server, "unexpected") /\ UNCHANGED <<toClient, store>>
  BY ServerReadsIs
<1>2. m = Head(toServer[e])
  OBVIOUS
<1> HIDE DEF m
<1>3. CASE server.state = "expectCH" /\ m.type = "CH" /\ ServerTakesHello(m)
  BY <1>1, <1>2, <1>3, ServerTakesHelloKeeps
<1>4. CASE server.state = "expectFin" /\ m.type = "FIN" /\ ServerTakesFinished(m)
  BY <1>1, <1>2, <1>4, ServerTakesFinishedKeeps
<1>5. CASE server' = Alert(server, "unexpected") /\ UNCHANGED <<toClient, store>>
  <2>1. DOMAIN server = {"state", "schedule", "resumed", "alpn", "early", "dec", "nextDec",
                         "expected", "alert", "keys"}
    BY DEF SessionInv, Shapes
  <2>2. /\ DOMAIN server' = DOMAIN server /\ server'.keys = server.keys
        /\ server'.state = server.state
        /\ server'.schedule = server.schedule /\ server'.resumed = server.resumed
        /\ server'.alpn = server.alpn /\ server'.early = server.early
        /\ server'.expected = server.expected /\ server'.nextDec = server.nextDec
    BY <1>5, <2>1 DEF Alert
  <2>3. toClient' = toClient /\ store' \subseteq store
    BY <1>5
  <2>4. QED
    BY <1>1, <2>2, <2>3, ServerRefuses
<1>6. QED
  BY <1>1, <1>3, <1>4, <1>5

----------------------------------------------------------------------------
\* The theorems.

LEMMA NextKeeps == SessionInv /\ [Next]_vars => SessionInv'
<1> SUFFICES ASSUME SessionInv, [Next]_vars PROVE SessionInv'
  OBVIOUS
<1>1. DOMAIN toServer = Epochs
  BY DEF SessionInv, Shapes, AreStreams
<1>2. CASE NewConnection
  BY <1>2, NewConnectionKeeps
<1>3. ASSUME NEW suites \in Offers, SendHello(suites) PROVE SessionInv'
  BY <1>3, SendHelloKeeps
<1>4. CASE ClientReads
  BY <1>4, ClientReadsKeeps
<1>5. ASSUME NEW e \in Epochs, SendFinished(e) PROVE SessionInv'
  BY <1>5, SendFinishedKeeps
<1>6. ASSUME NEW e \in Epochs, ServerReads(e) PROVE SessionInv'
  BY <1>6, ServerReadsKeeps
<1>7. CASE SendCertificate
  BY <1>7, SendCertificateKeeps
<1>8. CASE UNCHANGED vars
  <2>1. /\ config' = config /\ conn' = conn /\ client' = client /\ server' = server
        /\ toServer' = toServer /\ toClient' = toClient /\ ticket' = ticket /\ store' = store
    BY <1>8 DEF vars
  <2>2. TheAnswer' = TheAnswer /\ (Answered' <=> Answered) /\ Unread' = Unread
        /\ FirstHello' = FirstHello /\ Start' = Start
    BY <2>1 DEF TheAnswer, Answered, Unread, FirstHello, Start
  <2>3. Shapes' /\ FlightOK' /\ ServerOK'
    BY <2>1, <2>2 DEF SessionInv, Shapes, FlightOK, ServerOK
  <2>4. HellosOK'
    <3>1. \A x : IsHello(x)' <=> IsHello(x)
      BY <2>1 DEF IsHello
    <3>2. QED
      BY <2>1, <2>2, <3>1 DEF SessionInv, HellosOK
  <2>5. TicketsOK'
    BY <2>1, <2>2, TicketsKept DEF SessionInv
  <2>6. ClientOK'
    BY <2>1, <2>2, ClientWaits DEF SessionInv
  <2>7. QED
    BY <2>3, <2>4, <2>5, <2>6 DEF SessionInv
<1>9. QED
  BY <1>1, <1>2, <1>3, <1>4, <1>5, <1>6, <1>7, <1>8 DEF Next

\* Whatever the letters ask of the client, the server's key schedule is that of
\* one answer to one hello, and the client is at one place of that answer.
THEOREM SessionInvHolds == Spec => []SessionInv
<1>1. SessionInv /\ [Next]_vars => SessionInv'
  BY NextKeeps
<1>2. QED
  BY <1>1, InitInv, PTL DEF Spec

\* A client that took the server's Finished, and a server that took the client's,
\* hold the same keys and agree on what was negotiated, hellos, Finished messages
\* and certificates in any order notwithstanding (tls.py _client_handle_finished,
\* _server_handle_finished).
THEOREM KeysAgreeHolds == Spec => []KeysAgree
<1>1. SessionInv => KeysAgree
  <2> SUFFICES ASSUME SessionInv PROVE KeysAgree
    OBVIOUS
  <2> DEFINE a == TheAnswer
  <2>1. ServerOK /\ ClientOK /\ HellosOK /\ Shapes
    BY DEF SessionInv
  <2>2. a.resumed = server.resumed /\ a.alpn = server.alpn /\ a.early = server.early
    BY DEF TheAnswer
  <2> HIDE DEF a
  <2>3. ASSUME client.state \in Established
        PROVE  /\ server.state \in {"expectFin", "post"}
               /\ client.schedule.suite = server.schedule.suite
               /\ <<client.alpn, client.early, client.resumed>>
                    = <<server.alpn, server.early, server.resumed>>
               /\ client.keys.hsRecv = server.keys.hsSend
               /\ client.keys.hsSend = server.keys.hsRecv
               /\ client.keys.oneRecv = server.keys.oneSend
    <3>1. AfterEnd(a) /\ client.keys.hsRecv # NoKey
      BY <2>1, <2>3 DEF Established, ClientOK, BeforeHello, BeforeExtensions, BeforeEnd, a
    <3>2. Answered
      BY <2>1, <3>1 DEF ServerOK
    <3>3. /\ server.state \in {"expectFin", "post"}
          /\ server.schedule = Applying(a, Complete(a))
          /\ server.keys.hsSend = ServerKey(a) /\ server.keys.hsRecv = ClientKey(a)
          /\ server.keys.oneSend = ServerNext(a)
      BY <2>1, <3>2 DEF ServerOK, a
    <3>4. client.schedule = Applying(a, client.schedule.hash)
      BY <3>1 DEF AfterEnd
    <3>5. \A t : Applying(a, t).suite = a.suite
      BY DEF Applying, Keyed
    <3>6. client.schedule.suite = server.schedule.suite
      BY <3>3, <3>4, <3>5
    <3>7. QED
      BY <2>2, <3>1, <3>3, <3>6 DEF AfterEnd
  <2>4. ASSUME server.state = "post"
        PROVE  client.keys.oneSend # NoKey /\ client.keys.oneSend = server.keys.oneRecv
    BY <2>1, <2>4, DerivedIsKey DEF ServerOK, Answered, ClientNext
  <2>5. server.keys.zeroRecv # NoKey => server.keys.zeroRecv = client.keys.zeroSend
    BY <2>1 DEF ServerOK
  <2>6. QED
    BY <2>3, <2>4, <2>5 DEF KeysAgree
<1>2. QED
  BY <1>1, SessionInvHolds, PTL

\* A ticket the client keeps, and the one the server keeps under its number, have
\* the same suite and the same secret when nothing but the client's Finished went
\* into the transcript after the server's (tls.py:1804-1806).
THEOREM TicketsAgreeHolds == Spec => []TicketsAgree
<1>1. SessionInv => TicketsAgree
  BY DEF SessionInv, TicketsOK, Alike, TicketsAgree, SameTicket
<1>2. QED
  BY <1>1, SessionInvHolds, PTL

----------------------------------------------------------------------------
\* The client does what TlsClient says.

\* What TlsClient sees of the client, as a function on the names of the fields.
Fields == {"state", "hellos", "psk", "resumed", "schedule", "fit", "mixed", "encKey", "nextKey",
           "updated", "certReq", "extracted", "heard", "keys", "buffer"}
IsView(t) == t = [f \in Fields |-> t[f]]
Held(k) == {x \in Tls!Keys : k[x] # NoKey}
Waiting(b) == UNION {{<<e, m.type>> : m \in Members(b[e])} : e \in Epochs}
Scheduled(ks) == ks # NoSchedule
Keying(key) == key # NoKey
Fitting(key, other) == key # NoKey /\ key = other
Some(n) == n > 0
Known(id) == id # None
ViewOf(c, s) ==
  [state |-> c.state, hellos |-> c.hellos, psk |-> Scheduled(c.psk), resumed |-> c.resumed,
   schedule |-> Scheduled(c.schedule), fit |-> Fitting(c.keys.hsRecv, s.keys.hsSend),
   mixed |-> Some(c.own), encKey |-> Keying(c.enc), nextKey |-> Keying(c.next),
   updated |-> c.updated, certReq |-> No, extracted |-> Known(c.extracted), heard |-> Tls!Nothing,
   keys |-> Held(c.keys), buffer |-> Waiting(c.buffer)]

LEMMA ViewIs ==
  /\ Shapes => ClientView = ViewOf(client, server)
  /\ Shapes' => ClientView' = ViewOf(client', server')
<1>1. Shapes => DOMAIN toServer = Epochs
  BY DEF Shapes, AreStreams
<1>2. Shapes' => DOMAIN toServer' = Epochs
  BY DEF Shapes, AreStreams
<1>3. QED
  BY <1>1, <1>2 DEF ClientView, ViewOf, Held, Waiting, Scheduled, Keying, Fitting, Some,
    Known, No

LEMMA ViewFields ==
  ASSUME NEW c, NEW s, NEW t, t = ViewOf(c, s)
  PROVE  /\ IsView(t) /\ t.state = c.state /\ t.hellos = c.hellos
         /\ t.psk = Scheduled(c.psk) /\ t.resumed = c.resumed
         /\ t.schedule = Scheduled(c.schedule)
         /\ t.fit = Fitting(c.keys.hsRecv, s.keys.hsSend)
         /\ t.mixed = Some(c.own) /\ t.encKey = Keying(c.enc) /\ t.nextKey = Keying(c.next)
         /\ t.updated = c.updated /\ t.certReq = No /\ t.extracted = Known(c.extracted)
         /\ t.heard = Tls!Nothing /\ t.keys = Held(c.keys) /\ t.buffer = Waiting(c.buffer)
<1>1. DOMAIN t = Fields
  BY DEF ViewOf, Fields
<1>2. IsView(t)
  <2>1. t = [f \in DOMAIN t |-> t[f]]
    BY DEF ViewOf
  <2>2. QED
    BY <1>1, <2>1 DEF IsView
<1>3. QED
  BY <1>2 DEF ViewOf

LEMMA SameView ==
  ASSUME NEW t, IsView(t), NEW u, IsView(u),
         t.state = u.state, t.hellos = u.hellos, t.psk = u.psk, t.resumed = u.resumed,
         t.schedule = u.schedule, t.fit = u.fit, t.mixed = u.mixed, t.encKey = u.encKey,
         t.nextKey = u.nextKey, t.updated = u.updated, t.certReq = u.certReq,
         t.extracted = u.extracted, t.heard = u.heard, t.keys = u.keys, t.buffer = u.buffer
  PROVE  t = u
<1>1. \A f \in Fields : t[f] = u[f]
  BY DEF Fields
<1>2. QED
  BY <1>1 DEF IsView

\* The operators of TlsClient on such a function.
LEMMA Flushes ==
  ASSUME NEW t, IsView(t), NEW u, u = Flushed(t)
  PROVE  /\ IsView(u) /\ u.buffer = {}
         /\ u.state = t.state /\ u.hellos = t.hellos /\ u.psk = t.psk /\ u.resumed = t.resumed
         /\ u.schedule = t.schedule /\ u.fit = t.fit /\ u.mixed = t.mixed
         /\ u.encKey = t.encKey /\ u.nextKey = t.nextKey /\ u.updated = t.updated
         /\ u.certReq = t.certReq /\ u.extracted = t.extracted /\ u.heard = t.heard
         /\ u.keys = t.keys
<1>1. DOMAIN t = Fields /\ u = [t EXCEPT !.buffer = {}]
  BY DEF IsView, Flushed
<1>2. IsView(u)
  BY <1>1 DEF IsView
<1>3. QED
  BY <1>1, <1>2 DEF Fields

LEMMA ViewHello ==
  ASSUME NEW t, IsView(t), t.psk \in {Yes, No}, NEW id,
         NEW u, u = Tls!SendHello(t, Known(id))
  PROVE  /\ IsView(u) /\ u.state = "expectSH" /\ u.hellos = t.hellos + 1
         /\ id # None /\ t.hellos = 0 => u.psk = Yes /\ u.keys = t.keys \cup {"zeroSend"}
         /\ id = None \/ t.hellos # 0 => u.psk = t.psk /\ u.keys = t.keys
         /\ u.resumed = t.resumed
         /\ u.schedule = t.schedule /\ u.fit = t.fit /\ u.mixed = t.mixed
         /\ u.encKey = t.encKey /\ u.nextKey = t.nextKey /\ u.updated = t.updated
         /\ u.certReq = t.certReq /\ u.extracted = t.extracted /\ u.heard = t.heard
<1> DEFINE first == (id # None /\ t.hellos = 0)  p == (t.psk \/ first)  k == IF first THEN t.keys \cup {"zeroSend"} ELSE t.keys
           b == t.buffer \cup {<<"initial", "CH">>}
<1>1. DOMAIN t = Fields
  BY DEF IsView
<1>2. u = [t EXCEPT !.state = "expectSH", !.hellos = t.hellos + 1, !.psk = p, !.keys = k, !.buffer = b]
  BY DEF Tls!SendHello, Known
<1>7. /\ first => p = Yes /\ k = t.keys \cup {"zeroSend"}
      /\ ~first => p = t.psk /\ k = t.keys
  BY DEF Yes, No
<1> HIDE DEF p, k, b
<1>3. IsView(u)
  BY <1>1, <1>2 DEF IsView
<1>4. /\ u.state = "expectSH" /\ u.hellos = t.hellos + 1 /\ u.psk = p /\ u.keys = k
  BY <1>1, <1>2 DEF Fields
<1>5. /\ u.resumed = t.resumed
      /\ u.schedule = t.schedule /\ u.fit = t.fit /\ u.mixed = t.mixed
      /\ u.encKey = t.encKey /\ u.nextKey = t.nextKey /\ u.updated = t.updated
      /\ u.certReq = t.certReq /\ u.extracted = t.extracted /\ u.heard = t.heard
  BY <1>1, <1>2 DEF Fields
<1>6. QED
  BY <1>3, <1>4, <1>5, <1>7

LEMMA ViewFinished ==
  ASSUME NEW t, IsView(t), t.schedule = Yes, t.encKey = Yes, t.nextKey \in {Yes, No},
         NEW e, NEW keep, NEW u, u = Tls!SendFinished(t, e, keep)
  PROVE  /\ IsView(u) /\ u.hellos = t.hellos /\ u.psk = t.psk /\ u.resumed = t.resumed
         /\ u.schedule = t.schedule /\ u.fit = t.fit /\ u.mixed = Yes
         /\ u.encKey = t.nextKey /\ u.nextKey = t.nextKey /\ u.updated = t.updated
         /\ u.certReq = t.certReq /\ u.heard = t.heard
         /\ t.nextKey = No =>
              /\ u.state = t.state /\ u.keys = t.keys
              /\ u.extracted = t.extracted /\ u.buffer = t.buffer \cup {<<e, "FIN">>}
         /\ t.nextKey = Yes =>
              /\ u.keys = t.keys \cup {"oneSend"} /\ u.extracted = No
              /\ t.extracted = Yes /\ keep = Yes => u.state = "ticketDone"
              /\ t.extracted = No \/ keep = No => u.state = "post"
<1> DEFINE b == t.buffer \cup {<<e, "FIN">>}  k == t.keys \cup {"oneSend"}
           st == IF t.extracted /\ keep THEN "ticketDone" ELSE "post"
           w == [t EXCEPT !.buffer = b, !.mixed = TRUE, !.encKey = t.nextKey]
           v == [w EXCEPT !.keys = k, !.state = st, !.extracted = FALSE]
<1>1. DOMAIN t = Fields
  BY DEF IsView
<1>2. w.keys = t.keys /\ w.state = t.state /\ w.extracted = t.extracted
  BY <1>1 DEF Fields
<1>3. u = IF ~t.nextKey THEN w ELSE v
  BY <1>2 DEF Tls!SendFinished, Tls!FinishedIsWritten, Yes
<1>12. /\ t.extracted = Yes /\ keep = Yes => st = "ticketDone"
       /\ t.extracted = No \/ keep = No => st = "post"
  BY DEF Yes, No
<1> HIDE DEF b, k, st
<1>5. DOMAIN w = Fields /\ IsView(w)
  BY <1>1 DEF IsView
<1>6. /\ w.hellos = t.hellos /\ w.psk = t.psk /\ w.resumed = t.resumed
      /\ w.schedule = t.schedule /\ w.fit = t.fit /\ w.mixed = Yes
      /\ w.encKey = t.nextKey /\ w.nextKey = t.nextKey /\ w.updated = t.updated
      /\ w.certReq = t.certReq /\ w.heard = t.heard /\ w.buffer = b
  BY <1>1 DEF Fields, Yes
<1> HIDE DEF w
<1>7. IsView(v) /\ v.keys = k /\ v.state = st /\ v.extracted = No
  BY <1>5 DEF IsView, Fields, No
<1>8. /\ v.hellos = w.hellos /\ v.psk = w.psk /\ v.resumed = w.resumed
      /\ v.schedule = w.schedule /\ v.fit = w.fit /\ v.mixed = w.mixed
      /\ v.encKey = w.encKey /\ v.nextKey = w.nextKey /\ v.updated = w.updated
      /\ v.certReq = w.certReq /\ v.heard = w.heard
  BY <1>5 DEF Fields
<1> HIDE DEF v
<1>9. CASE t.nextKey = No
  <2>1. u = w /\ No # Yes
    BY <1>3, <1>9 DEF No, Yes
  <2>2. QED
    BY <1>2, <1>5, <1>6, <1>9, <2>1 DEF b
<1>10. CASE t.nextKey = Yes
  <2>1. u = v /\ No # Yes
    BY <1>3, <1>10 DEF Yes, No
  <2>2. QED
    BY <1>6, <1>7, <1>8, <1>10, <1>12, <2>1 DEF k
<1>11. QED
  BY <1>9, <1>10

LEMMA SentWhen ==
  ASSUME NEW t, t.schedule = Yes, t.encKey = Yes
  PROVE  /\ t.nextKey = Yes => Tls!FinishedIsSent(t)
         /\ t.nextKey = No => ~Tls!FinishedIsSent(t)
BY DEF Tls!FinishedIsSent, Tls!FinishedIsWritten, Yes, No

LEMMA ViewCertificate ==
  ASSUME NEW t, IsView(t), NEW u, u = Tls!WriteOwn(t, "CERT")
  PROVE  /\ IsView(u) /\ u.mixed = Yes
         /\ u.state = t.state /\ u.hellos = t.hellos /\ u.psk = t.psk /\ u.resumed = t.resumed
         /\ u.schedule = t.schedule /\ u.fit = t.fit
         /\ u.encKey = t.encKey /\ u.nextKey = t.nextKey /\ u.updated = t.updated
         /\ u.certReq = t.certReq /\ u.extracted = t.extracted /\ u.heard = t.heard
         /\ u.keys = t.keys
<1> DEFINE b == t.buffer \cup {<<"handshake", "CERT">>}
<1>1. DOMAIN t = Fields /\ u = [t EXCEPT !.buffer = b, !.mixed = TRUE]
  BY DEF IsView, Tls!WriteOwn
<1> HIDE DEF b
<1>2. IsView(u)
  BY <1>1 DEF IsView
<1>3. QED
  BY <1>1, <1>2 DEF Fields, Yes

LEMMA ViewTakesHello ==
  ASSUME NEW t, IsView(t), t.resumed \in {Yes, No}, NEW last, NEW psk, NEW u,
         u = Tls!Take(t, "SH", last, psk)
  PROVE  /\ IsView(u) /\ u.state = "expectEE" /\ u.psk = No
         /\ psk = Yes => u.resumed = Yes
         /\ psk = No => u.resumed = t.resumed
         /\ u.schedule = Yes /\ u.mixed = No
         /\ last = Yes /\ (psk = Yes => t.hellos = 1) /\ psk \in {Yes, No} => u.fit = Yes
         /\ last = No => u.fit = No
         /\ u.keys = t.keys \cup {"hsRecv"}
         /\ u.hellos = t.hellos /\ u.encKey = t.encKey /\ u.nextKey = t.nextKey
         /\ u.updated = t.updated /\ u.certReq = t.certReq /\ u.extracted = t.extracted
         /\ u.heard = t.heard
<1> DEFINE r == (t.resumed \/ psk)  f == (last /\ (psk => t.hellos = 1))  k == t.keys \cup {"hsRecv"}
<1>1. DOMAIN t = Fields
  BY DEF IsView
<1>2. u = [t EXCEPT !.state = "expectEE", !.psk = FALSE, !.resumed = r, !.schedule = TRUE,
                    !.fit = f, !.mixed = FALSE, !.keys = k]
  BY DEF Tls!Take, Tls!TakeHello
<1>7. /\ psk = Yes => r = Yes
      /\ psk = No => r = t.resumed
      /\ last = Yes /\ (psk = Yes => t.hellos = 1) /\ psk \in {Yes, No} => f = Yes
      /\ last = No => f = No
  BY DEF Yes, No
<1> HIDE DEF r, f, k
<1>3. IsView(u)
  BY <1>1, <1>2 DEF IsView
<1>4. /\ u.state = "expectEE" /\ u.psk = No /\ u.resumed = r
      /\ u.schedule = Yes /\ u.fit = f /\ u.mixed = No /\ u.keys = k
  BY <1>1, <1>2 DEF Fields, Yes, No
<1>5. /\ u.hellos = t.hellos /\ u.encKey = t.encKey /\ u.nextKey = t.nextKey
      /\ u.updated = t.updated /\ u.certReq = t.certReq /\ u.extracted = t.extracted
      /\ u.heard = t.heard
  BY <1>1, <1>2 DEF Fields
<1>6. QED
  BY <1>3, <1>4, <1>5, <1>7 DEF k

LEMMA ViewTakesExtensions ==
  ASSUME NEW t, IsView(t), NEW last, NEW psk, NEW u, u = Tls!Take(t, "EE", last, psk)
  PROVE  /\ IsView(u)
         /\ t.resumed = Yes => u.state = "expectFin"
         /\ t.resumed = No => u.state = "expectCert"
         /\ u.encKey = Yes /\ u.keys = t.keys \cup {"hsSend"}
         /\ u.hellos = t.hellos /\ u.psk = t.psk /\ u.resumed = t.resumed
         /\ u.schedule = t.schedule /\ u.fit = t.fit /\ u.mixed = t.mixed
         /\ u.nextKey = t.nextKey /\ u.updated = t.updated
         /\ u.certReq = t.certReq /\ u.extracted = t.extracted /\ u.heard = t.heard
<1> DEFINE st == IF t.resumed THEN "expectFin" ELSE "expectCert"  k == t.keys \cup {"hsSend"}
<1>1. DOMAIN t = Fields /\ u = [t EXCEPT !.state = st, !.encKey = TRUE, !.keys = k]
  BY DEF IsView, Tls!Take, Tls!TakeEncryptedExtensions
<1>6. (t.resumed = Yes => st = "expectFin") /\ (t.resumed = No => st = "expectCert")
  BY DEF Yes, No
<1> HIDE DEF st, k
<1>2. IsView(u)
  BY <1>1 DEF IsView
<1>3. u.state = st /\ u.encKey = Yes /\ u.keys = k
  BY <1>1 DEF Fields, Yes
<1>4. /\ u.hellos = t.hellos /\ u.psk = t.psk /\ u.resumed = t.resumed
      /\ u.schedule = t.schedule /\ u.fit = t.fit /\ u.mixed = t.mixed
      /\ u.nextKey = t.nextKey /\ u.updated = t.updated
      /\ u.certReq = t.certReq /\ u.extracted = t.extracted /\ u.heard = t.heard
  BY <1>1 DEF Fields
<1>5. QED
  BY <1>2, <1>3, <1>4, <1>6 DEF k

\* The certificate, and the proof of it.
LEMMA ViewMovesOn ==
  ASSUME NEW t, IsView(t), NEW st, NEW u, u = [t EXCEPT !.state = st]
  PROVE  /\ IsView(u) /\ u.state = st
         /\ u.hellos = t.hellos /\ u.psk = t.psk /\ u.resumed = t.resumed
         /\ u.schedule = t.schedule /\ u.fit = t.fit /\ u.mixed = t.mixed
         /\ u.encKey = t.encKey /\ u.nextKey = t.nextKey /\ u.updated = t.updated
         /\ u.certReq = t.certReq /\ u.extracted = t.extracted /\ u.heard = t.heard
         /\ u.keys = t.keys
<1>1. DOMAIN t = Fields
  BY DEF IsView
<1>2. IsView(u)
  BY <1>1 DEF IsView
<1>3. QED
  BY <1>1, <1>2 DEF Fields

LEMMA ViewTakesCertificate ==
  ASSUME NEW t, NEW last, NEW psk
  PROVE  /\ Tls!Take(t, "CERT", last, psk) = [t EXCEPT !.state = "expectCV"]
         /\ Tls!Take(t, "CV", last, psk) = [t EXCEPT !.state = "expectFin"]
BY DEF Tls!Take

LEMMA ViewTakesFinished ==
  ASSUME NEW t, IsView(t), NEW last, NEW psk, NEW u, u = Tls!Take(t, "FIN", last, psk)
  PROVE  /\ IsView(u) /\ u.state = "gotFin" /\ u.nextKey = Yes /\ u.updated = Yes
         /\ u.keys = t.keys \cup {"oneRecv"}
         /\ u.hellos = t.hellos /\ u.psk = t.psk /\ u.resumed = t.resumed
         /\ u.schedule = t.schedule /\ u.fit = t.fit /\ u.mixed = t.mixed
         /\ u.encKey = t.encKey
         /\ u.certReq = t.certReq /\ u.extracted = t.extracted /\ u.heard = t.heard
<1> DEFINE k == t.keys \cup {"oneRecv"}
<1>1. DOMAIN t = Fields /\ u = [t EXCEPT !.state = "gotFin", !.nextKey = TRUE, !.updated = TRUE,
                                         !.keys = k]
  BY DEF IsView, Tls!Take, Tls!TakeFinished
<1> HIDE DEF k
<1>2. IsView(u)
  BY <1>1 DEF IsView
<1>3. u.state = "gotFin" /\ u.nextKey = Yes /\ u.updated = Yes /\ u.keys = k
  BY <1>1 DEF Fields, Yes
<1>4. /\ u.hellos = t.hellos /\ u.psk = t.psk /\ u.resumed = t.resumed
      /\ u.schedule = t.schedule /\ u.fit = t.fit /\ u.mixed = t.mixed
      /\ u.encKey = t.encKey
      /\ u.certReq = t.certReq /\ u.extracted = t.extracted /\ u.heard = t.heard
  BY <1>1 DEF Fields
<1>5. QED
  BY <1>2, <1>3, <1>4 DEF k

LEMMA ViewTakesTicket ==
  ASSUME NEW t, IsView(t), t.extracted \in {Yes, No}, NEW last, NEW psk, NEW u,
         u = Tls!Take(t, "NST", last, psk)
  PROVE  /\ IsView(u)
         /\ t.state = "gotFin" => u.extracted = Yes
         /\ t.state # "gotFin" => u.extracted = t.extracted
         /\ u.state = t.state /\ u.hellos = t.hellos /\ u.psk = t.psk /\ u.resumed = t.resumed
         /\ u.schedule = t.schedule /\ u.fit = t.fit /\ u.mixed = t.mixed
         /\ u.encKey = t.encKey /\ u.nextKey = t.nextKey /\ u.updated = t.updated
         /\ u.certReq = t.certReq /\ u.heard = t.heard /\ u.keys = t.keys
<1> DEFINE x == (t.extracted \/ t.state = "gotFin")
<1>1. DOMAIN t = Fields /\ u = [t EXCEPT !.extracted = x]
  BY DEF IsView, Tls!Take
<1>6. (t.state = "gotFin" => x = Yes) /\ (t.state # "gotFin" => x = t.extracted)
  BY DEF Yes, No
<1> HIDE DEF x
<1>2. IsView(u)
  BY <1>1 DEF IsView
<1>3. u.extracted = x
  BY <1>1 DEF Fields
<1>4. /\ u.state = t.state /\ u.hellos = t.hellos /\ u.psk = t.psk /\ u.resumed = t.resumed
      /\ u.schedule = t.schedule /\ u.fit = t.fit /\ u.mixed = t.mixed
      /\ u.encKey = t.encKey /\ u.nextKey = t.nextKey /\ u.updated = t.updated
      /\ u.certReq = t.certReq /\ u.heard = t.heard /\ u.keys = t.keys
  BY <1>1 DEF Fields
<1>5. QED
  BY <1>2, <1>3, <1>4, <1>6

\* What is held and what waits, after a key is installed and a message written.
LEMMA HeldIs ==
  ASSUME NEW k, NEW l, NEW x \in Tls!Keys, l[x] # NoKey, \A y \in Tls!Keys : y # x => l[y] = k[y]
  PROVE  Held(l) = Held(k) \cup {x}
BY DEF Held

LEMMA NothingWaits == Waiting(NoCrypto) = {}
<1>1. \A e \in Epochs : Members(NoCrypto[e]) = {}
  BY EmptyIsSeq DEF NoCrypto, Epochs
<1>2. QED
  BY <1>1 DEF Waiting

LEMMA MoreWaits ==
  ASSUME NEW b, AreStreams(b), NEW e \in Epochs, NEW m
  PROVE  Waiting(Into(b, e, m)) = Waiting(b) \cup {<<e, m.type>>}
<1> DEFINE c == Into(b, e, m)
<1>1. \A f \in Epochs : Members(c[f]) = IF f = e THEN Members(b[f]) \cup {m} ELSE Members(b[f])
  <2>1. IsSeq(b[e]) /\ DOMAIN b = Epochs
    BY DEF AreStreams
  <2>2. c[e] = Append(b[e], m) /\ \A f \in Epochs : f # e => c[f] = b[f]
    BY <2>1 DEF Into
  <2>3. Members(c[e]) = Members(b[e]) \cup {m}
    BY <2>1, <2>2, AppendIsSeq
  <2>4. QED
    BY <2>2, <2>3
<1> HIDE DEF c
<1>2. \A x : x \in Waiting(c) <=> \E f \in Epochs : \E n \in Members(c[f]) : x = <<f, n.type>>
  BY DEF Waiting
<1>3. \A x : x \in Waiting(b) <=> \E f \in Epochs : \E n \in Members(b[f]) : x = <<f, n.type>>
  BY DEF Waiting
<1>4. ASSUME NEW x \in Waiting(c) PROVE x \in Waiting(b) \cup {<<e, m.type>>}
  <2>1. PICK f \in Epochs : \E n \in Members(c[f]) : x = <<f, n.type>>
    BY <1>2
  <2>2. PICK n \in Members(c[f]) : x = <<f, n.type>>
    BY <2>1
  <2>3. n \in Members(b[f]) \/ (f = e /\ n = m)
    BY <1>1
  <2>4. QED
    BY <1>3, <2>2, <2>3
<1>5. ASSUME NEW x \in Waiting(b) PROVE x \in Waiting(c)
  <2>1. PICK f \in Epochs : \E n \in Members(b[f]) : x = <<f, n.type>>
    BY <1>3
  <2>2. PICK n \in Members(b[f]) : x = <<f, n.type>>
    BY <2>1
  <2>3. n \in Members(c[f])
    BY <1>1
  <2>4. QED
    BY <1>2, <2>2, <2>3
<1>6. <<e, m.type>> \in Waiting(c)
  <2>1. m \in Members(c[e])
    BY <1>1
  <2>2. QED
    BY <1>2, <2>1
<1>7. QED
  BY <1>4, <1>5, <1>6 DEF c

\* A connection begins.
LEMMA NewConnectionView ==
  ASSUME Shapes', NewConnection
  PROVE  ClientView' = Tls!FreshTls
<1> DEFINE c == client'  s == server'  t == Tls!FreshTls  u == ViewOf(c, s)
<1>1. c = FreshClient(ticket') /\ s = FreshServer
  BY DEF NewConnection
<1>2. ClientView' = u
  BY ViewIs
<1>3. /\ c.state = "start" /\ c.hellos = 0 /\ c.psk = NoSchedule /\ c.resumed = FALSE
      /\ c.schedule = NoSchedule /\ c.own = 0 /\ c.enc = NoKey
  BY <1>1 DEF FreshClient
<1>4. /\ c.next = NoKey /\ c.updated = FALSE /\ c.extracted = None /\ c.buffer = NoCrypto
      /\ c.keys = [k \in Tls!Keys |-> NoKey]
  BY <1>1 DEF FreshClient
<1>5. /\ DOMAIN t = Fields /\ t.state = "start" /\ t.hellos = 0 /\ t.psk = FALSE /\ t.resumed = FALSE
      /\ t.schedule = FALSE /\ t.fit = FALSE /\ t.mixed = FALSE /\ t.encKey = FALSE
  BY DEF Tls!FreshTls, Fields
<1>6. /\ t.nextKey = FALSE /\ t.updated = FALSE /\ t.certReq = No /\ t.extracted = FALSE
      /\ t.heard = Tls!Nothing /\ t.keys = {} /\ t.buffer = {}
  BY DEF Tls!FreshTls, No
<1>7. IsView(t)
  <2>1. t = [f \in DOMAIN t |-> t[f]]
    BY DEF Tls!FreshTls
  <2>2. QED
    BY <1>5, <2>1 DEF IsView
<1> HIDE DEF c, s, t, u
<1>8. /\ IsView(u) /\ u.state = c.state /\ u.hellos = c.hellos
      /\ u.psk = Scheduled(c.psk) /\ u.resumed = c.resumed
      /\ u.schedule = Scheduled(c.schedule)
      /\ u.fit = Fitting(c.keys.hsRecv, s.keys.hsSend)
      /\ u.mixed = Some(c.own) /\ u.encKey = Keying(c.enc) /\ u.nextKey = Keying(c.next)
      /\ u.updated = c.updated /\ u.certReq = No /\ u.extracted = Known(c.extracted)
      /\ u.heard = Tls!Nothing /\ u.keys = Held(c.keys) /\ u.buffer = Waiting(c.buffer)
  BY ViewFields DEF u
<1>9. Held(c.keys) = {} /\ c.keys.hsRecv = NoKey
  BY <1>4 DEF Held, Tls!Keys
<1>10. Some(0) = FALSE /\ Scheduled(NoSchedule) = FALSE /\ Keying(NoKey) = FALSE
       /\ Known(None) = FALSE /\ No = FALSE /\ \A k : Fitting(NoKey, k) = FALSE
  BY DEF Some, Scheduled, Keying, Known, No, Fitting
<1>11. /\ u.psk = FALSE /\ u.schedule = FALSE /\ u.fit = FALSE /\ u.encKey = FALSE
       /\ u.nextKey = FALSE /\ u.extracted = FALSE /\ u.mixed = FALSE /\ u.certReq = FALSE
  BY <1>3, <1>4, <1>8, <1>9, <1>10
<1>12. u.buffer = {}
  BY <1>4, <1>8, NothingWaits
<1>13. t = u
  <2>1. /\ t.state = u.state /\ t.hellos = u.hellos /\ t.psk = u.psk /\ t.resumed = u.resumed
        /\ t.schedule = u.schedule /\ t.fit = u.fit /\ t.mixed = u.mixed /\ t.encKey = u.encKey
    BY <1>3, <1>5, <1>8, <1>11
  <2>2. /\ t.nextKey = u.nextKey /\ t.updated = u.updated /\ t.certReq = u.certReq
        /\ t.extracted = u.extracted /\ t.heard = u.heard
    BY <1>4, <1>6, <1>8, <1>10, <1>11
  <2>3. t.keys = u.keys /\ t.buffer = u.buffer
    BY <1>6, <1>8, <1>9, <1>12
  <2>4. QED
    BY <1>7, <1>8, <2>1, <2>2, <2>3, SameView
<1>14. QED
  BY <1>2, <1>13 DEF t

\* A hello.
LEMMA SendHelloView ==
  ASSUME SessionInv, Shapes', NEW suites \in Offers, SendHello(suites)
  PROVE  ClientView' = Flushed(Tls!SendHello(ClientView, client.ticket # None))
<1> DEFINE c == client'  s == server'  t == ClientView  u == ViewOf(c, s)
           v == Tls!SendHello(t, Known(client.ticket))  x == Flushed(v)
           offer == OfferTicket(HelloOf(suites))  first == (client.ticket # None /\ client.hellos = 0)
<1>0. Shapes /\ HellosOK
  BY DEF SessionInv
<1>1. ClientView' = u /\ t = ViewOf(client, server)
  BY <1>0, ViewIs
<1>2. /\ c.state = "expectSH" /\ c.hellos = client.hellos + 1
      /\ c.psk = offer.psk /\ c.keys = [client.keys EXCEPT !.zeroSend = offer.key]
      /\ c.buffer = NoCrypto /\ c.schedule = client.schedule
      /\ c.resumed = client.resumed /\ c.enc = client.enc
      /\ c.next = client.next /\ c.updated = client.updated
      /\ c.extracted = client.extracted /\ c.own = client.own /\ s = server
  BY <1>0, SendHelloIs DEF ServerAside
<1>3. /\ client.ticket = None =>
              offer.binder = NoKey /\ offer.psk = NoSchedule /\ offer.key = NoKey
      /\ client.hellos > 0 =>
              offer.psk = client.psk /\ offer.key = client.keys.zeroSend
      /\ client.ticket # None /\ client.hellos = 0 =>
              /\ offer.psk = Update(Start, FinalOf(suites))
              /\ offer.key = Derive(offer.psk, "c e traffic")
  BY <1>0, OfferIs
<1>4. DOMAIN client.keys = Tls!Keys /\ client.hellos \in Nat
  BY <1>0 DEF Shapes
<1>5. client.hellos = 0 \/ client.ticket = None => client.psk = NoSchedule /\ client.keys.zeroSend = NoKey
  BY <1>0 DEF HellosOK
<1>6. first => offer.psk # NoSchedule /\ offer.key # NoKey
  <2>1. Update(Start, FinalOf(suites)) # NoSchedule
    <3>1. Update(Start, FinalOf(suites)).hash = <<FinalOf(suites)>> /\ "hash" \in DOMAIN Update(Start, FinalOf(suites))
      BY StartIs DEF Update, Start, Schedule
    <3>2. QED
      BY <3>1 DEF NoSchedule
  <2>2. QED
    BY <1>3, <2>1, DerivedIsKey
<1> HIDE DEF c, s, t, u, offer, v, x, first
<1>7. /\ IsView(u) /\ u.state = c.state /\ u.hellos = c.hellos
      /\ u.psk = Scheduled(c.psk) /\ u.resumed = c.resumed
      /\ u.schedule = Scheduled(c.schedule)
      /\ u.fit = Fitting(c.keys.hsRecv, s.keys.hsSend)
      /\ u.mixed = Some(c.own) /\ u.encKey = Keying(c.enc) /\ u.nextKey = Keying(c.next)
      /\ u.updated = c.updated /\ u.certReq = No /\ u.extracted = Known(c.extracted)
      /\ u.heard = Tls!Nothing /\ u.keys = Held(c.keys) /\ u.buffer = Waiting(c.buffer)
  BY ViewFields DEF u
<1>8. /\ IsView(t) /\ t.state = client.state /\ t.hellos = client.hellos
      /\ t.psk = Scheduled(client.psk) /\ t.resumed = client.resumed
      /\ t.schedule = Scheduled(client.schedule)
      /\ t.fit = Fitting(client.keys.hsRecv, server.keys.hsSend)
      /\ t.mixed = Some(client.own) /\ t.encKey = Keying(client.enc)
      /\ t.nextKey = Keying(client.next)
      /\ t.updated = client.updated /\ t.certReq = No /\ t.extracted = Known(client.extracted)
      /\ t.heard = Tls!Nothing /\ t.keys = Held(client.keys)
  BY <1>1, ViewFields
<1>9. t.psk \in {Yes, No} /\ (first <=> client.ticket # None /\ t.hellos = 0)
  BY <1>8 DEF first, Scheduled, Yes, No
<1>10. /\ IsView(v) /\ v.state = "expectSH" /\ v.hellos = t.hellos + 1
       /\ client.ticket # None /\ t.hellos = 0 => v.psk = Yes /\ v.keys = t.keys \cup {"zeroSend"}
       /\ client.ticket = None \/ t.hellos # 0 => v.psk = t.psk /\ v.keys = t.keys
       /\ v.resumed = t.resumed
       /\ v.schedule = t.schedule /\ v.fit = t.fit /\ v.mixed = t.mixed
       /\ v.encKey = t.encKey /\ v.nextKey = t.nextKey /\ v.updated = t.updated
       /\ v.certReq = t.certReq /\ v.extracted = t.extracted /\ v.heard = t.heard
  <2>1. IsView(t) /\ t.psk \in {Yes, No} /\ v = Tls!SendHello(t, Known(client.ticket))
    BY <1>8, <1>9 DEF v
  <2>2. QED
    BY <2>1, ViewHello
<1>11. /\ IsView(x) /\ x.buffer = {}
       /\ x.state = v.state /\ x.hellos = v.hellos /\ x.psk = v.psk /\ x.resumed = v.resumed
       /\ x.schedule = v.schedule /\ x.fit = v.fit /\ x.mixed = v.mixed
       /\ x.encKey = v.encKey /\ x.nextKey = v.nextKey /\ x.updated = v.updated
       /\ x.certReq = v.certReq /\ x.extracted = v.extracted /\ x.heard = v.heard
       /\ x.keys = v.keys
  BY <1>10, Flushes DEF x
<1>12. c.keys.hsRecv = client.keys.hsRecv
  BY <1>2, <1>4 DEF Tls!Keys
<1>13. u.psk = x.psk
  <2>1. CASE first
    <3>1. u.psk = Yes
      BY <1>2, <1>6, <1>7, <2>1 DEF Scheduled, Yes, No
    <3>2. QED
      BY <1>9, <1>10, <1>11, <2>1, <3>1
  <2>2. CASE ~first
    <3>1. client.ticket = None \/ client.hellos > 0
      BY <1>4, <2>2 DEF first
    <3>2. offer.psk = client.psk
      BY <1>3, <1>5, <3>1
    <3>3. QED
      BY <1>2, <1>7, <1>8, <1>9, <1>10, <1>11, <2>2, <3>2
  <2>3. QED
    BY <2>1, <2>2
<1>14. /\ first => Held(c.keys) = Held(client.keys) \cup {"zeroSend"}
       /\ ~first => Held(c.keys) = Held(client.keys)
  <2>1. \A y \in Tls!Keys : y # "zeroSend" => c.keys[y] = client.keys[y]
    BY <1>2, <1>4
  <2>2. "zeroSend" \in Tls!Keys /\ c.keys["zeroSend"] = offer.key
    BY <1>2, <1>4 DEF Tls!Keys
  <2>3. CASE first
    <3>1. c.keys["zeroSend"] # NoKey
      BY <1>6, <2>2, <2>3
    <3>2. QED
      BY <2>1, <2>2, <2>3, <3>1, HeldIs
  <2>4. CASE ~first
    <3>0. client.ticket = None \/ client.hellos > 0
      BY <1>4, <2>4 DEF first
    <3>1. offer.key = client.keys["zeroSend"]
      BY <1>3, <1>5, <3>0
    <3>2. \A y \in Tls!Keys : c.keys[y] = client.keys[y]
      BY <2>1, <2>2, <3>1
    <3>3. QED
      BY <2>4, <3>2 DEF Held
  <2>5. QED
    BY <2>3, <2>4
<1>15. u.keys = x.keys /\ u.buffer = x.buffer /\ u.fit = x.fit
  <2>1. u.fit = x.fit
    BY <1>2, <1>7, <1>8, <1>10, <1>11, <1>12
  <2>2. u.buffer = x.buffer
    BY <1>2, <1>7, <1>11, NothingWaits
  <2>3. u.keys = x.keys
    BY <1>7, <1>8, <1>9, <1>10, <1>11, <1>14
  <2>4. QED
    BY <2>1, <2>2, <2>3
<1>16. u.hellos = x.hellos /\ u.state = x.state /\ u.mixed = x.mixed
  BY <1>2, <1>7, <1>8, <1>10, <1>11
<1>17. u.encKey = x.encKey /\ u.nextKey = x.nextKey /\ u.updated = x.updated
  BY <1>2, <1>7, <1>8, <1>10, <1>11
<1>18. /\ u.certReq = x.certReq /\ u.extracted = x.extracted /\ u.heard = x.heard
       /\ u.resumed = x.resumed /\ u.schedule = x.schedule
  BY <1>2, <1>7, <1>8, <1>10, <1>11
<1>19. u = x
  BY <1>7, <1>11, <1>13, <1>15, <1>16, <1>17, <1>18, SameView
<1>20. QED
  BY <1>1, <1>19 DEF x, v, t, Known

\* The Finished of the client.
LEMMA FinishedState ==
  ASSUME Shapes, NEW e, SendFinished(e), client.next # NoKey
  PROVE  /\ Known(client.extracted) = Yes /\ config.keeps = Yes => client'.state = "ticketDone"
         /\ Known(client.extracted) = No \/ config.keeps = No => client'.state = "post"
<1> DEFINE written == Into(client.buffer, e, FinNow)
           ks == Update(client.schedule, FinNow)
           sent == [client EXCEPT !.schedule = ks, !.own = client.own + 1,
                                  !.enc = client.next, !.buffer = written]
           keeping == client.extracted # None /\ config.keeps
           st == IF keeping THEN "ticketDone" ELSE "post"
           k == [sent.keys EXCEPT !.oneSend = client.next]
<1>1. client' = [sent EXCEPT !.buffer = NoCrypto, !.extracted = None, !.keys = k, !.state = st]
  BY DEF SendFinished, FinNow
<1>2. DOMAIN client = {"state", "ticket", "hellos", "binder", "share", "psk", "proxy",
                          "schedule", "resumed", "alpn", "early", "enc", "dec", "next", "updated",
                          "extracted", "own", "keys", "buffer"}
  BY DEF Shapes
<1>3. /\ Known(client.extracted) = Yes /\ config.keeps = Yes => st = "ticketDone"
      /\ Known(client.extracted) = No \/ config.keeps = No => st = "post"
  BY DEF Known, Yes, No
<1> HIDE DEF written, ks, st, k
<1>4. DOMAIN sent = DOMAIN client
  OBVIOUS
<1> HIDE DEF sent
<1>5. client'.state = st
  BY <1>1, <1>2, <1>4
<1>6. QED
  BY <1>3, <1>5

LEMMA UpdateIsSchedule ==
  \A suite, inputs, hash, m : Scheduled(Update(Keyed(suite, inputs, hash), m)) = Yes
<1>1. ASSUME NEW suite, NEW inputs, NEW hash, NEW m
      PROVE  Scheduled(Update(Keyed(suite, inputs, hash), m)) = Yes
  <2> DEFINE t == More(hash, m)
  <2>1. Update(Keyed(suite, inputs, hash), m) = Keyed(suite, inputs, t)
    BY UpdateIs
  <2> HIDE DEF t
  <2>2. Keyed(suite, inputs, t) # NoSchedule
    BY DEF Keyed, NoSchedule
  <2>3. QED
    BY <2>1, <2>2 DEF Scheduled, Yes
<1>2. QED
  BY <1>1

LEMMA IsThere ==
  /\ \A k : k # NoKey => Keying(k) = Yes
  /\ Keying(NoKey) = No
  /\ \A k : Keying(k) \in {Yes, No} /\ Scheduled(k) \in {Yes, No} /\ Known(k) \in {Yes, No}
  /\ \A ks : ks # NoSchedule => Scheduled(ks) = Yes
  /\ Scheduled(NoSchedule) = No
  /\ \A n \in Nat : Some(n + 1) = Yes
  /\ Some(0) = No /\ Known(None) = No
  /\ \A id : id # None => Known(id) = Yes
  /\ Yes # No
<1>1. \A n \in Nat : Some(n + 1) = Yes
  <2>1. \A n \in Nat : n + 1 > 0
    OBVIOUS
  <2>2. QED
    BY <2>1 DEF Some, Yes
<1>2. Some(0) = No
  BY DEF Some, No
<1>3. /\ \A k : k # NoKey => Keying(k) = Yes
      /\ Keying(NoKey) = No
      /\ \A ks : ks # NoSchedule => Scheduled(ks) = Yes
      /\ Scheduled(NoSchedule) = No /\ Known(None) = No
      /\ \A id : id # None => Known(id) = Yes
      /\ Yes # No
  BY DEF Keying, Scheduled, Known, Yes, No
<1>4. \A k : Keying(k) \in {Yes, No} /\ Scheduled(k) \in {Yes, No} /\ Known(k) \in {Yes, No}
  BY DEF Keying, Scheduled, Known, Yes, No
<1>5. QED
  BY <1>1, <1>2, <1>3, <1>4

LEMMA SendFinishedView ==
  ASSUME SessionInv, Shapes', NEW e \in Epochs, SendFinished(e),
         NEW v, v = Tls!SendFinished(ClientView, e, config.keeps)
  PROVE  /\ ~Tls!FinishedIsSent(ClientView) => ClientView' = v
         /\ Tls!FinishedIsSent(ClientView) => ClientView' = Flushed(v)
<1> DEFINE c == client'  s == server'  t == ClientView  u == ViewOf(c, s)
           x == Flushed(v)
<1>0. Shapes /\ ClientOK
  BY DEF SessionInv
<1>1. ClientView' = u /\ t = ViewOf(client, server)
  BY <1>0, ViewIs
<1>2. /\ client.schedule # NoSchedule /\ client.enc # NoKey
      /\ c.schedule = Update(client.schedule, FinNow) /\ c.own = client.own + 1
      /\ c.enc = client.next /\ c.hellos = client.hellos
      /\ c.psk = client.psk /\ c.resumed = client.resumed
      /\ c.next = client.next /\ c.updated = client.updated /\ s = server
  BY <1>0, SendFinishedIs DEF ServerAside
<1>3. /\ c.keys.zeroSend = client.keys.zeroSend
      /\ c.keys.hsRecv = client.keys.hsRecv /\ c.keys.hsSend = client.keys.hsSend
      /\ c.keys.oneRecv = client.keys.oneRecv
  BY <1>0, SendFinishedIs
<1>4. /\ client.next = NoKey =>
              /\ c.buffer = Into(client.buffer, e, FinNow)
              /\ c.state = client.state /\ c.extracted = client.extracted
              /\ c.keys.oneSend = client.keys.oneSend
      /\ client.next # NoKey =>
              /\ c.buffer = NoCrypto /\ c.extracted = None
              /\ c.keys.oneSend = client.next
  BY <1>0, SendFinishedIs
<1>5. client.next # NoKey =>
         /\ Known(client.extracted) = Yes /\ config.keeps = Yes => c.state = "ticketDone"
         /\ Known(client.extracted) = No \/ config.keeps = No => c.state = "post"
  BY <1>0, FinishedState
<1>6. client.own \in Nat /\ AreStreams(client.buffer) /\ config.keeps \in {Yes, No}
  BY <1>0, SessionAssumption DEF Shapes, Yes, No
<1>7. Scheduled(c.schedule) = Yes
  <2>1. \E ks, h : client.schedule = Keyed(ks.suite, ks.inputs, h)
    <3>1. /\ client.next = NoKey => BeforeEnd(TheAnswer)
          /\ client.next # NoKey => AfterEnd(TheAnswer)
      BY <1>0, <1>2, WritesWhen
    <3>2. client.schedule = Handshaking(TheAnswer, client.schedule.hash)
            \/ client.schedule = Applying(TheAnswer, client.schedule.hash)
      BY <3>1 DEF BeforeEnd, AfterEnd
    <3>3. \A a, h : \E ks : Handshaking(a, h) = Keyed(ks.suite, ks.inputs, h)
      BY DEF Handshaking
    <3>4. \A a, h : Applying(a, h) = Keyed(Applying(a, h).suite, Applying(a, h).inputs, h)
      BY KeyedIs DEF Applying
    <3>5. QED
      BY <3>2, <3>3, <3>4
  <2>2. QED
    BY <1>2, <2>1, UpdateIsSchedule
<1>8. FinNow.type = "FIN"
  BY DEF FinNow, Finished
<1> HIDE DEF c, s, t, u, x
<1>9. /\ IsView(u) /\ u.state = c.state /\ u.hellos = c.hellos
      /\ u.psk = Scheduled(c.psk) /\ u.resumed = c.resumed
      /\ u.schedule = Scheduled(c.schedule) /\ u.fit = Fitting(c.keys.hsRecv, s.keys.hsSend)
      /\ u.mixed = Some(c.own) /\ u.encKey = Keying(c.enc) /\ u.nextKey = Keying(c.next)
      /\ u.updated = c.updated /\ u.certReq = No /\ u.extracted = Known(c.extracted)
      /\ u.heard = Tls!Nothing /\ u.keys = Held(c.keys) /\ u.buffer = Waiting(c.buffer)
  BY ViewFields DEF u
<1>10. /\ IsView(t) /\ t.state = client.state /\ t.hellos = client.hellos
       /\ t.psk = Scheduled(client.psk) /\ t.resumed = client.resumed
       /\ t.schedule = Scheduled(client.schedule)
       /\ t.fit = Fitting(client.keys.hsRecv, server.keys.hsSend)
       /\ t.mixed = Some(client.own) /\ t.encKey = Keying(client.enc)
       /\ t.nextKey = Keying(client.next)
       /\ t.updated = client.updated /\ t.certReq = No /\ t.extracted = Known(client.extracted)
       /\ t.heard = Tls!Nothing /\ t.keys = Held(client.keys)
       /\ t.buffer = Waiting(client.buffer)
  BY <1>1, ViewFields
<1>11. t.schedule = Yes /\ t.encKey = Yes /\ t.nextKey \in {Yes, No}
  BY <1>2, <1>10, IsThere
<1>12. v = Tls!SendFinished(t, e, config.keeps)
  BY DEF t
<1>13. /\ IsView(v) /\ v.hellos = t.hellos /\ v.psk = t.psk /\ v.resumed = t.resumed
         /\ v.schedule = t.schedule /\ v.fit = t.fit /\ v.mixed = Yes
         /\ v.encKey = t.nextKey /\ v.nextKey = t.nextKey /\ v.updated = t.updated
         /\ v.certReq = t.certReq /\ v.heard = t.heard
  BY <1>10, <1>11, <1>12, ViewFinished
<1>18. t.nextKey = No =>
         /\ v.state = t.state /\ v.keys = t.keys
         /\ v.extracted = t.extracted /\ v.buffer = t.buffer \cup {<<e, "FIN">>}
  BY <1>10, <1>11, <1>12, ViewFinished
<1>19. t.nextKey = Yes =>
         /\ v.keys = t.keys \cup {"oneSend"} /\ v.extracted = No
         /\ t.extracted = Yes /\ config.keeps = Yes => v.state = "ticketDone"
         /\ t.extracted = No \/ config.keeps = No => v.state = "post"
  BY <1>10, <1>11, <1>12, ViewFinished
<1>20. /\ t.nextKey = Yes => Tls!FinishedIsSent(t)
       /\ t.nextKey = No => ~Tls!FinishedIsSent(t)
  BY <1>11, SentWhen
<1>14. /\ u.hellos = v.hellos /\ u.psk = v.psk /\ u.resumed = v.resumed
       /\ u.schedule = v.schedule /\ u.fit = v.fit /\ u.mixed = v.mixed
       /\ u.encKey = v.encKey /\ u.nextKey = v.nextKey /\ u.updated = v.updated
       /\ u.certReq = v.certReq /\ u.heard = v.heard
  <2>1. u.mixed = Yes
    BY <1>2, <1>6, <1>9, IsThere
  <2>2. u.fit = v.fit
    BY <1>2, <1>3, <1>9, <1>10, <1>13
  <2>3. u.schedule = v.schedule
    BY <1>7, <1>9, <1>11, <1>13
  <2>4. /\ u.hellos = v.hellos /\ u.psk = v.psk /\ u.resumed = v.resumed
        /\ u.encKey = v.encKey /\ u.nextKey = v.nextKey /\ u.updated = v.updated
        /\ u.certReq = v.certReq /\ u.heard = v.heard
    BY <1>2, <1>9, <1>10, <1>13
  <2>5. QED
    BY <1>13, <2>1, <2>2, <2>3, <2>4
<1>15. CASE client.next = NoKey
  <2>1. t.nextKey = No
    BY <1>10, <1>15, IsThere
  <2>2. u.state = v.state /\ u.extracted = v.extracted
    BY <1>4, <1>9, <1>10, <1>15, <1>18, <2>1
  <2>3. u.keys = v.keys
    <3>1. \A y \in Tls!Keys : c.keys[y] = client.keys[y]
      BY <1>3, <1>4, <1>15 DEF Tls!Keys
    <3>2. Held(c.keys) = Held(client.keys)
      BY <3>1 DEF Held
    <3>3. QED
      BY <1>9, <1>10, <1>18, <2>1, <3>2
  <2>4. u.buffer = v.buffer
    <3>1. Waiting(c.buffer) = Waiting(client.buffer) \cup {<<e, "FIN">>}
      BY <1>4, <1>6, <1>8, <1>15, MoreWaits
    <3>2. QED
      BY <1>9, <1>10, <1>18, <2>1, <3>1
  <2>5. u = v
    BY <1>9, <1>13, <1>14, <2>2, <2>3, <2>4, SameView
  <2>6. ~Tls!FinishedIsSent(t)
    BY <1>20, <2>1
  <2>7. QED
    BY <1>1, <2>5, <2>6 DEF t
<1>16. CASE client.next # NoKey
  <2>1. t.nextKey = Yes
    BY <1>10, <1>16, IsThere
  <2>2. /\ IsView(x) /\ x.buffer = {}
        /\ x.state = v.state /\ x.hellos = v.hellos /\ x.psk = v.psk /\ x.resumed = v.resumed
        /\ x.schedule = v.schedule /\ x.fit = v.fit /\ x.mixed = v.mixed
        /\ x.encKey = v.encKey /\ x.nextKey = v.nextKey /\ x.updated = v.updated
        /\ x.certReq = v.certReq /\ x.extracted = v.extracted /\ x.heard = v.heard
        /\ x.keys = v.keys
    BY <1>13, Flushes DEF x
  <2>3. u.extracted = x.extracted
    BY <1>4, <1>9, <1>16, <1>19, <2>1, <2>2, IsThere
  <2>4. u.state = x.state
    <3>1. Known(client.extracted) \in {Yes, No}
      BY IsThere
    <3>2. QED
      BY <1>5, <1>6, <1>9, <1>10, <1>16, <1>19, <2>1, <2>2, <3>1
  <2>5. u.keys = x.keys
    <3>1. \A y \in Tls!Keys : y # "oneSend" => c.keys[y] = client.keys[y]
      BY <1>3 DEF Tls!Keys
    <3>2. "oneSend" \in Tls!Keys /\ c.keys["oneSend"] # NoKey
      BY <1>4, <1>16 DEF Tls!Keys
    <3>3. Held(c.keys) = Held(client.keys) \cup {"oneSend"}
      BY <3>1, <3>2, HeldIs
    <3>4. QED
      BY <1>9, <1>10, <1>19, <2>1, <2>2, <3>3
  <2>6. u.buffer = x.buffer
    BY <1>4, <1>9, <1>16, <2>2, NothingWaits
  <2>7. u = x
    BY <1>9, <1>14, <2>2, <2>3, <2>4, <2>5, <2>6, SameView
  <2>8. Tls!FinishedIsSent(t)
    BY <1>20, <2>1
  <2>9. QED
    BY <1>1, <2>7, <2>8 DEF t, x
<1>17. QED
  BY <1>15, <1>16

\* The certificate of the client.
LEMMA SendCertificateView ==
  ASSUME SessionInv, Shapes', SendCertificate
  PROVE  /\ Tls!CanSendCertificate(ClientView)
         /\ ClientView' = Flushed(Tls!WriteOwn(ClientView, "CERT"))
<1> DEFINE c == client'  s == server'  t == ClientView  u == ViewOf(c, s)
           v == Tls!WriteOwn(t, "CERT")  x == Flushed(v)  a == TheAnswer
<1>0. Shapes /\ ClientOK
  BY DEF SessionInv
<1>1. ClientView' = u /\ t = ViewOf(client, server)
  BY <1>0, ViewIs
<1>2. /\ client.updated /\ c.keys = client.keys
      /\ c.schedule = Update(client.schedule, Certificate) /\ c.own = client.own + 1
      /\ c.buffer = NoCrypto /\ c.state = client.state /\ c.hellos = client.hellos
      /\ c.psk = client.psk /\ c.resumed = client.resumed
      /\ c.enc = client.enc /\ c.next = client.next /\ c.updated = client.updated
      /\ c.extracted = client.extracted /\ s = server
  BY <1>0, SendCertificateIs DEF ServerAside
<1>3. client.own \in Nat
  BY <1>0 DEF Shapes
<1>4. Scheduled(c.schedule) = Yes /\ Scheduled(client.schedule) = Yes
  <2>1. AfterEnd(a)
    BY <1>0, <1>2 DEF ClientOK, BeforeHello, BeforeExtensions, BeforeEnd
  <2>2. client.schedule = Applying(a, client.schedule.hash)
    BY <2>1 DEF AfterEnd
  <2> DEFINE i == More(a.inputs, None)  h == client.schedule.hash  st == a.suite
  <2>3. client.schedule = Keyed(st, i, h)
    BY <2>2 DEF Applying
  <2> HIDE DEF i, h, st
  <2>4. Scheduled(Update(Keyed(st, i, h), Certificate)) = Yes
    BY UpdateIsSchedule
  <2>5. Keyed(st, i, h) # NoSchedule
    BY DEF Keyed, NoSchedule
  <2>6. QED
    BY <1>2, <2>3, <2>4, <2>5, IsThere
<1>5. Tls!CanSendCertificate(t)
  <2>1. t.updated = client.updated
    BY <1>1, ViewFields
  <2>2. QED
    BY <1>2, <2>1 DEF Tls!CanSendCertificate
<1> HIDE DEF c, s, t, u, v, x
<1>6. /\ IsView(u) /\ u.state = c.state /\ u.hellos = c.hellos
      /\ u.psk = Scheduled(c.psk) /\ u.resumed = c.resumed
      /\ u.schedule = Scheduled(c.schedule) /\ u.fit = Fitting(c.keys.hsRecv, s.keys.hsSend)
      /\ u.mixed = Some(c.own) /\ u.encKey = Keying(c.enc) /\ u.nextKey = Keying(c.next)
      /\ u.updated = c.updated /\ u.certReq = No /\ u.extracted = Known(c.extracted)
      /\ u.heard = Tls!Nothing /\ u.keys = Held(c.keys) /\ u.buffer = Waiting(c.buffer)
  BY ViewFields DEF u
<1>7. /\ IsView(t) /\ t.state = client.state /\ t.hellos = client.hellos
      /\ t.psk = Scheduled(client.psk) /\ t.resumed = client.resumed
      /\ t.schedule = Scheduled(client.schedule)
      /\ t.fit = Fitting(client.keys.hsRecv, server.keys.hsSend)
      /\ t.encKey = Keying(client.enc) /\ t.nextKey = Keying(client.next)
      /\ t.updated = client.updated /\ t.certReq = No /\ t.extracted = Known(client.extracted)
      /\ t.heard = Tls!Nothing /\ t.keys = Held(client.keys)
  BY <1>1, ViewFields
<1>8. /\ IsView(v) /\ v.mixed = Yes
      /\ v.state = t.state /\ v.hellos = t.hellos /\ v.psk = t.psk /\ v.resumed = t.resumed
      /\ v.schedule = t.schedule /\ v.fit = t.fit
      /\ v.encKey = t.encKey /\ v.nextKey = t.nextKey /\ v.updated = t.updated
      /\ v.certReq = t.certReq /\ v.extracted = t.extracted /\ v.heard = t.heard
      /\ v.keys = t.keys
  BY <1>7, ViewCertificate DEF v
<1>9. /\ IsView(x) /\ x.buffer = {}
      /\ x.state = v.state /\ x.hellos = v.hellos /\ x.psk = v.psk /\ x.resumed = v.resumed
      /\ x.schedule = v.schedule /\ x.fit = v.fit /\ x.mixed = v.mixed
      /\ x.encKey = v.encKey /\ x.nextKey = v.nextKey /\ x.updated = v.updated
      /\ x.certReq = v.certReq /\ x.extracted = v.extracted /\ x.heard = v.heard
      /\ x.keys = v.keys
  BY <1>8, Flushes DEF x
<1>10. u.mixed = x.mixed
  BY <1>2, <1>3, <1>6, <1>8, <1>9, IsThere
<1>11. u.schedule = x.schedule
  BY <1>4, <1>6, <1>7, <1>8, <1>9
<1>12. u.buffer = x.buffer
  BY <1>2, <1>6, <1>9, NothingWaits
<1>13. /\ u.state = x.state /\ u.hellos = x.hellos /\ u.psk = x.psk /\ u.resumed = x.resumed
       /\ u.fit = x.fit /\ u.encKey = x.encKey /\ u.nextKey = x.nextKey /\ u.updated = x.updated
       /\ u.certReq = x.certReq /\ u.extracted = x.extracted /\ u.heard = x.heard
       /\ u.keys = x.keys
  BY <1>2, <1>6, <1>7, <1>8, <1>9
<1>14. u = x
  BY <1>6, <1>9, <1>10, <1>11, <1>12, <1>13, SameView
<1>15. QED
  BY <1>1, <1>5, <1>14 DEF t, v, x

\* The server reads: the client sees nothing of it, since the key it reads with
\* is there only when the server has answered.
LEMMA SendKeyStays ==
  ASSUME SessionInv, Answered, NEW e, ServerReads(e)
  PROVE  server'.keys.hsSend = server.keys.hsSend
<1> DEFINE m == Head(toServer[e])
<1>1. ~(server.state = "expectCH" /\ m.type = "CH")
  BY DEF Answered
<1>2. /\ DOMAIN server = {"state", "schedule", "resumed", "alpn", "early", "dec", "nextDec",
                          "expected", "alert", "keys"}
      /\ DOMAIN server.keys = {"zeroRecv", "hsRecv", "hsSend", "oneRecv", "oneSend"}
  BY DEF SessionInv, Shapes
<1>3. \A w : Alert(server, w).keys = server.keys
  BY <1>2 DEF Alert
<1>4. CASE ServerTakesFinished(m)
  <2> DEFINE k == [server.keys EXCEPT !.oneRecv = server.nextDec]  nd == server.nextDec
  <2>1. \/ server' = [server EXCEPT !.state = "post", !.dec = nd, !.nextDec = NoKey, !.keys = k]
        \/ server' = Alert(server, "decrypt")
    BY <1>4 DEF ServerTakesFinished
  <2>2. k.hsSend = server.keys.hsSend
    BY <1>2
  <2> HIDE DEF k, nd
  <2>3. CASE server' = [server EXCEPT !.state = "post", !.dec = nd, !.nextDec = NoKey, !.keys = k]
    <3>1. server'.keys = k
      BY <1>2, <2>3
    <3>2. QED
      BY <2>2, <3>1
  <2>4. QED
    BY <1>3, <2>1, <2>3
<1>5. CASE server' = Alert(server, "unexpected")
  BY <1>3, <1>5
<1>6. QED
  BY <1>1, <1>4, <1>5, ServerReadsIs

LEMMA ServerReadsView ==
  ASSUME SessionInv, Shapes', NEW e, ServerReads(e)
  PROVE  ClientView' = ClientView
<1> DEFINE s == server'  t == ClientView  u == ViewOf(client, s)
<1>0. Shapes /\ ServerOK
  BY DEF SessionInv
<1>1. client' = client
  BY ServerReadsIs DEF Serving
<1>2. ClientView' = u /\ t = ViewOf(client, server)
  BY <1>0, <1>1, ViewIs
<1>3. Fitting(client.keys.hsRecv, s.keys.hsSend) = Fitting(client.keys.hsRecv, server.keys.hsSend)
  <2>1. CASE Answered
    BY <2>1, SendKeyStays
  <2>2. CASE ~Answered
    <3>1. client.keys.hsRecv = NoKey
      BY <1>0, <2>2 DEF ServerOK
    <3>2. \A k : Fitting(NoKey, k) = No
      BY DEF Fitting, No
    <3>3. QED
      BY <3>1, <3>2
  <2>3. QED
    BY <2>1, <2>2
<1>4. u = t
  BY <1>2, <1>3 DEF ViewOf
<1>5. QED
  BY <1>2, <1>4

\* A client with the server's handshake key has a key schedule.
LEMMA ScheduleIsThere ==
  /\ ClientOK /\ client.keys.hsRecv # NoKey => Scheduled(client.schedule) = Yes
  /\ ClientOK' /\ client'.keys.hsRecv # NoKey => Scheduled(client'.schedule) = Yes
<1>1. \A st, i, h : Keyed(st, i, h) # NoSchedule
  BY DEF Keyed, NoSchedule
<1>2. \A a, h : Handshaking(a, h) # NoSchedule /\ Applying(a, h) # NoSchedule
  BY <1>1 DEF Handshaking, Applying
<1>3. ClientOK /\ client.keys.hsRecv # NoKey => client.schedule # NoSchedule
  BY <1>1, <1>2 DEF ClientOK, BeforeExtensions, BeforeEnd, AfterEnd
<1>4. ClientOK' /\ client'.keys.hsRecv # NoKey => client'.schedule # NoSchedule
  BY <1>1, <1>2 DEF ClientOK, BeforeExtensions, BeforeEnd, AfterEnd
<1>5. QED
  BY <1>3, <1>4, IsThere

\* What is read is of the answer.
LEMMA HeadIs ==
  ASSUME SessionInv, toClient # << >>
  PROVE  /\ Answered /\ client.hellos > 0 /\ IsAnswer(TheAnswer)
         /\ Head(toClient) \in Flight(TheAnswer) /\ Head(toClient).type \in Types(toClient)
<1>1. Answered
  BY DEF SessionInv, ServerOK
<1>2. QED
  BY <1>1, AnsweredIs, FlightTail DEF SessionInv, FlightOK

LEMMA ExpectedIn ==
  \A st, ty : ty \in Tls!Expected(st) =>
        /\ ty = "CV" => st = "expectCV"
        /\ ty = "FIN" => st = "expectFin"
BY DEF Tls!Expected

\* The client fails the server's CertificateVerify and Finished when it has put
\* something of its own into the transcript before, and only then.
LEMMA VerifyFails ==
  ASSUME SessionInv, toClient # << >>, NEW m, m = Head(toClient), m.type \in Tls!Expected(client.state)
  PROVE  /\ m.type = "CV" => (m.over # client.schedule.hash <=> client.own > 0)
         /\ m.type = "FIN" =>
              (m.data # FinishedData(client.schedule, client.dec) <=> client.own > 0)
<1> DEFINE a == TheAnswer  h == client.schedule.hash
<1>0. Shapes /\ ClientOK
  BY DEF SessionInv
<1>1. client.own \in Nat /\ (client.own > 0 <=> client.own # 0)
  BY <1>0 DEF Shapes
<1>2. IsAnswer(a) /\ m \in Flight(a)
  BY HeadIs
<1>3. \A x \in Members(BeforeFinished(a)) \cup Members(WithCertificate(a)) : x.type # "FIN"
  BY <1>2, AnswerIs, NoFinishedBefore
<1>4. client.state \in {"expectCV", "expectFin"} => BeforeEnd(a)
  BY <1>0 DEF ClientOK, BeforeHello, BeforeExtensions, AfterEnd
<1> HIDE DEF a
<1>5. BeforeEnd(a) =>
        /\ client.own = 0 => InStep(a)
        /\ client.own # 0 => \E x \in Members(h) : x.type = "FIN"
        /\ client.schedule = Handshaking(a, h) /\ client.dec = ServerKey(a)
  BY DEF BeforeEnd
<1>6. ASSUME m.type = "CV" PROVE m.over # client.schedule.hash <=> client.own > 0
  <2>1. client.state = "expectCV"
    BY <1>6, ExpectedIn
  <2>2. m.over = WithCertificate(a)
    <3>1. m = Cv(a)
      BY <1>2, <1>6, InFlight
    <3>2. QED
      BY <3>1 DEF Cv
  <2>3. client.own = 0 => h = WithCertificate(a)
    BY <1>4, <1>5, <2>1 DEF InStep
  <2>4. client.own # 0 => h # WithCertificate(a)
    BY <1>3, <1>4, <1>5, <2>1
  <2>5. QED
    BY <1>1, <2>2, <2>3, <2>4
<1>7. ASSUME m.type = "FIN"
      PROVE  m.data # FinishedData(client.schedule, client.dec) <=> client.own > 0
  <2>1. client.state = "expectFin"
    BY <1>7, ExpectedIn
  <2>2. m.data = FinishedData(Handshaking(a, BeforeFinished(a)), ServerKey(a))
    <3>1. m = Fin(a)
      BY <1>2, <1>7, InFlight
    <3>2. QED
      BY <3>1 DEF Fin, Finished
  <2>3. client.own = 0 => h = BeforeFinished(a)
    BY <1>4, <1>5, <2>1 DEF InStep
  <2>4. client.own # 0 => h # BeforeFinished(a)
    BY <1>3, <1>4, <1>5, <2>1
  <2>5. client.schedule = Handshaking(a, h) /\ client.dec = ServerKey(a)
    BY <1>4, <1>5, <2>1
  <2>6. \A k, x : FinishedData(k, x).over = k.hash
    BY DEF FinishedData
  <2>7. \A t : Handshaking(a, t).hash = t
    BY DEF Handshaking, Keyed
  <2>8. client.own = 0 => m.data = FinishedData(client.schedule, client.dec)
    BY <2>2, <2>3, <2>5
  <2>9. client.own # 0 => m.data # FinishedData(client.schedule, client.dec)
    BY <2>2, <2>4, <2>6, <2>7
  <2>10. QED
    BY <1>1, <2>8, <2>9
<1>8. QED
  BY <1>6, <1>7

\* The ServerHello is refused when it takes up a ticket whose schedule is gone.
LEMMA HelloFails ==
  ASSUME SessionInv, toClient # << >>, NEW m, m = Head(toClient), m.type = "SH"
  PROVE  /\ m.suite \in Members(ClientSuites) /\ m.psk = TheAnswer.resumed /\ m.psk \in BOOLEAN
         /\ m.psk => (client.psk.suite # m.suite <=> client.psk = NoSchedule)
<1> DEFINE a == TheAnswer
<1>0. Shapes /\ HellosOK /\ ServerOK
  BY DEF SessionInv
<1>1. Answered /\ client.hellos > 0 /\ IsAnswer(a) /\ m \in Flight(a)
  BY HeadIs
<1>2. m.suite = a.suite /\ m.psk = a.resumed
  <2>1. m = Sh(a)
    BY <1>1, InFlight
  <2>2. QED
    BY <2>1 DEF Sh, ServerHello
<1>3. a.suite \in Members(ClientSuites) /\ (a.resumed => client.ticket # None /\ a.suite = client.ticket.suite)
  BY <1>0, <1>1 DEF ServerOK
<1>4. m.suite \in Suites /\ m.suite # None
  BY <1>2, <1>3, SessionAssumption
<1>5. m.psk \in BOOLEAN
  BY <1>1, <1>2 DEF IsAnswer
<1>6. ASSUME m.psk PROVE client.psk.suite # m.suite <=> client.psk = NoSchedule
  <2>1. client.ticket # None /\ m.suite = client.ticket.suite
    BY <1>2, <1>3, <1>6
  <2>2. client.psk \in {NoSchedule, Update(Start, FirstHello)}
    BY <1>0, <1>1, <2>1 DEF HellosOK
  <2>3. Update(Start, FirstHello).suite = client.ticket.suite
    BY StartIs
  <2>4. NoSchedule.suite = None
    BY DEF NoSchedule
  <2>5. QED
    BY <1>4, <2>1, <2>2, <2>3, <2>4
<1>7. QED
  BY <1>2, <1>3, <1>5, <1>6

Psk(m) == m.type = "SH" /\ m.psk
LEMMA AlertsAlike ==
  ASSUME SessionInv, toClient # << >>, NEW m, m = Head(toClient)
  PROVE  Done(m) <=> ~(Tls!Breaks(ClientView, m.type) \/ Tls!Alerts(ClientView, m.type, Psk(m)))
<1> DEFINE t == ClientView
<1>0. Shapes
  BY DEF SessionInv
<1>1. t = ViewOf(client, server)
  BY <1>0, ViewIs
<1>2. t.state = client.state /\ t.psk = Scheduled(client.psk) /\ t.mixed = Some(client.own)
  BY <1>1, ViewFields
<1> HIDE DEF t
<1>3. Tls!Breaks(t, m.type) <=> ClientBreaks(m)
  BY <1>2 DEF Tls!Breaks, ClientBreaks
<1>4. (t.psk <=> client.psk # NoSchedule) /\ (t.mixed <=> client.own > 0)
  BY <1>2 DEF Scheduled, Some
<1>5. Tls!Alerts(t, m.type, Psk(m)) <=>
        /\ ~ClientBreaks(m)
        /\ \/ m.type \notin Tls!Expected(client.state)
           \/ m.type = "SH" /\ m.psk /\ client.psk = NoSchedule
           \/ m.type \in {"CV", "FIN"} /\ client.own > 0
  BY <1>2, <1>3, <1>4 DEF Tls!Alerts, Psk
<1>6. ClientAlerts(m) <=>
        \/ m.type \notin Tls!Expected(client.state)
        \/ m.type = "SH" /\ m.suite \notin Members(ClientSuites)
        \/ m.type = "SH" /\ m.psk /\ client.psk.suite # m.suite
        \/ m.type = "CV" /\ m.over # client.schedule.hash
        \/ m.type = "FIN" /\ m.data # FinishedData(client.schedule, client.dec)
  BY DEF ClientAlerts
<1>7. m.type = "SH" => /\ m.suite \in Members(ClientSuites)
                       /\ m.psk => (client.psk.suite # m.suite <=> client.psk = NoSchedule)
  BY HelloFails
<1>8. m.type \in Tls!Expected(client.state) =>
        /\ m.type = "CV" => (m.over # client.schedule.hash <=> client.own > 0)
        /\ m.type = "FIN" =>
              (m.data # FinishedData(client.schedule, client.dec) <=> client.own > 0)
  BY VerifyFails
<1>9. QED
  BY <1>3, <1>5, <1>6, <1>7, <1>8 DEF Done, t

\* The view of a client that has pushed its buffers.
LEMMA FlushedView ==
  ASSUME NEW c, c.buffer = NoCrypto, NEW s, NEW v, IsView(v),
         v.state = c.state, v.hellos = c.hellos, v.psk = Scheduled(c.psk), v.resumed = c.resumed,
         v.schedule = Scheduled(c.schedule), v.fit = Fitting(c.keys.hsRecv, s.keys.hsSend),
         v.mixed = Some(c.own), v.encKey = Keying(c.enc), v.nextKey = Keying(c.next),
         v.updated = c.updated, v.certReq = No, v.extracted = Known(c.extracted),
         v.heard = Tls!Nothing, v.keys = Held(c.keys)
  PROVE  ViewOf(c, s) = Flushed(v)
<1> DEFINE u == ViewOf(c, s)  x == Flushed(v)
<1>1. /\ IsView(u) /\ u.state = c.state /\ u.hellos = c.hellos
      /\ u.psk = Scheduled(c.psk) /\ u.resumed = c.resumed
      /\ u.schedule = Scheduled(c.schedule) /\ u.fit = Fitting(c.keys.hsRecv, s.keys.hsSend)
      /\ u.mixed = Some(c.own) /\ u.encKey = Keying(c.enc) /\ u.nextKey = Keying(c.next)
      /\ u.updated = c.updated /\ u.certReq = No /\ u.extracted = Known(c.extracted)
      /\ u.heard = Tls!Nothing /\ u.keys = Held(c.keys) /\ u.buffer = Waiting(c.buffer)
  BY ViewFields
<1>2. /\ IsView(x) /\ x.buffer = {}
      /\ x.state = v.state /\ x.hellos = v.hellos /\ x.psk = v.psk /\ x.resumed = v.resumed
      /\ x.schedule = v.schedule /\ x.fit = v.fit /\ x.mixed = v.mixed
      /\ x.encKey = v.encKey /\ x.nextKey = v.nextKey /\ x.updated = v.updated
      /\ x.certReq = v.certReq /\ x.extracted = v.extracted /\ x.heard = v.heard
      /\ x.keys = v.keys
  BY Flushes
<1> HIDE DEF u, x
<1>3. u.buffer = x.buffer
  BY <1>1, <1>2, NothingWaits
<1>4. /\ u.state = x.state /\ u.hellos = x.hellos /\ u.psk = x.psk /\ u.resumed = x.resumed
      /\ u.schedule = x.schedule /\ u.fit = x.fit /\ u.mixed = x.mixed /\ u.encKey = x.encKey
  BY <1>1, <1>2
<1>5. /\ u.nextKey = x.nextKey /\ u.updated = x.updated /\ u.certReq = x.certReq
      /\ u.extracted = x.extracted /\ u.heard = x.heard /\ u.keys = x.keys
  BY <1>1, <1>2
<1>6. IsView(u) /\ IsView(x)
  BY <1>1, <1>2
<1>7. u = x
  BY <1>3, <1>4, <1>5, <1>6, SameView
<1>8. QED
  BY <1>7 DEF u, x

\* What a message makes of the client, when it is taken.
ReadAs(m) == \E last \in BOOLEAN : ClientView' = Flushed(Tls!Take(ClientView, m.type, last, Psk(m)))

\* The EncryptedExtensions.
LEMMA TakesExtensionsView ==
  ASSUME SessionInv, SessionInv', ClientReads, NEW m, m = Head(toClient), Done(m), m.type = "EE"
  PROVE  ReadAs(m)
<1> DEFINE c == client'  t == ClientView  v == Tls!Take(t, m.type, No, Psk(m))
<1>0. Shapes /\ ClientOK /\ Shapes' /\ ClientOK'
  BY DEF SessionInv
<1>1. t = ViewOf(client, server) /\ ClientView' = ViewOf(c, server)
  <2>1. server' = server
    BY ClientReadsIs DEF ServerAside
  <2>2. QED
    BY <1>0, <2>1, ViewIs
<1>2. /\ DOMAIN c = DOMAIN client /\ DOMAIN c.keys = DOMAIN client.keys
      /\ c.state = (IF client.resumed THEN "expectFin" ELSE "expectCert")
      /\ c.enc = Derive(client.schedule, "c hs traffic") /\ c.resumed = client.resumed
      /\ c.psk = client.psk /\ c.own = client.own /\ c.hellos = client.hellos
      /\ c.next = client.next /\ c.updated = client.updated /\ c.extracted = client.extracted
      /\ c.buffer = NoCrypto
  BY <1>0, ClientReadsIs, TakeExtensionsIs
<1>3. /\ c.keys.zeroSend = client.keys.zeroSend
      /\ c.keys.hsRecv = client.keys.hsRecv
      /\ c.keys.hsSend = Derive(client.schedule, "c hs traffic")
      /\ c.keys.oneRecv = client.keys.oneRecv
      /\ c.keys.oneSend = client.keys.oneSend
  BY <1>0, ClientReadsIs, TakeExtensionsIs
<1>4. client.keys.hsRecv # NoKey
  BY <1>0, Accepted DEF ClientOK, BeforeHello
<1>5. Scheduled(client.schedule) = Yes /\ Scheduled(c.schedule) = Yes
  BY <1>0, <1>3, <1>4, ScheduleIsThere
<1>6. c.enc # NoKey /\ c.keys.hsSend # NoKey
  BY <1>2, <1>3, DerivedIsKey
<1>7. (client.resumed = Yes \/ client.resumed = No)
      /\ (client.resumed = Yes => c.state = "expectFin")
      /\ (client.resumed = No => c.state = "expectCert")
  BY <1>0, <1>2 DEF Shapes, Yes, No
<1> HIDE DEF c, t
<1>8. /\ IsView(t) /\ t.state = client.state /\ t.hellos = client.hellos
      /\ t.psk = Scheduled(client.psk) /\ t.resumed = client.resumed
      /\ t.schedule = Scheduled(client.schedule)
      /\ t.fit = Fitting(client.keys.hsRecv, server.keys.hsSend)
      /\ t.mixed = Some(client.own) /\ t.encKey = Keying(client.enc)
      /\ t.nextKey = Keying(client.next)
      /\ t.updated = client.updated /\ t.certReq = No /\ t.extracted = Known(client.extracted)
      /\ t.heard = Tls!Nothing /\ t.keys = Held(client.keys)
  BY <1>1, ViewFields
<1>9. v = Tls!Take(t, "EE", No, Psk(m))
  BY DEF v
<1> HIDE DEF v
<1>10. /\ IsView(v)
       /\ v.encKey = Yes /\ v.keys = t.keys \cup {"hsSend"}
       /\ v.hellos = t.hellos /\ v.psk = t.psk /\ v.resumed = t.resumed
       /\ v.schedule = t.schedule /\ v.fit = t.fit /\ v.mixed = t.mixed
       /\ v.nextKey = t.nextKey /\ v.updated = t.updated
       /\ v.certReq = t.certReq /\ v.extracted = t.extracted /\ v.heard = t.heard
  BY <1>8, <1>9, ViewTakesExtensions
<1>11. /\ t.resumed = Yes => v.state = "expectFin"
       /\ t.resumed = No => v.state = "expectCert"
  BY <1>8, <1>9, ViewTakesExtensions
<1>12. v.state = c.state
  BY <1>7, <1>8, <1>11
<1>13. v.keys = Held(c.keys)
  <2>1. \A y \in Tls!Keys : y # "hsSend" => c.keys[y] = client.keys[y]
    BY <1>3 DEF Tls!Keys
  <2>2. "hsSend" \in Tls!Keys /\ c.keys["hsSend"] # NoKey
    BY <1>6 DEF Tls!Keys
  <2>3. Held(c.keys) = Held(client.keys) \cup {"hsSend"}
    BY <2>1, <2>2, HeldIs
  <2>4. QED
    BY <1>8, <1>10, <2>3
<1>14. v.encKey = Keying(c.enc)
  BY <1>6, <1>10, IsThere
<1>15. v.schedule = Scheduled(c.schedule) /\ v.fit = Fitting(c.keys.hsRecv, server.keys.hsSend)
  BY <1>3, <1>5, <1>8, <1>10
<1>16. /\ v.hellos = c.hellos /\ v.psk = Scheduled(c.psk) /\ v.resumed = c.resumed
       /\ v.mixed = Some(c.own) /\ v.nextKey = Keying(c.next) /\ v.updated = c.updated
       /\ v.certReq = No /\ v.extracted = Known(c.extracted) /\ v.heard = Tls!Nothing
  BY <1>2, <1>8, <1>10
<1>17. c.buffer = NoCrypto
  BY <1>2
<1>20. ViewOf(c, server) = Flushed(v)
  BY <1>17, <1>10, <1>12, <1>13, <1>14, <1>15, <1>16, FlushedView
<1>21. QED
  <2>1. No \in BOOLEAN
    BY DEF No
  <2>2. ClientView' = Flushed(Tls!Take(ClientView, m.type, No, Psk(m)))
    BY <1>1, <1>20 DEF v, t
  <2>3. QED
    BY <2>1, <2>2 DEF ReadAs

\* The certificate, and the proof of it.
LEMMA TakesCertificateView ==
  ASSUME SessionInv, SessionInv', ClientReads, NEW m, m = Head(toClient), Done(m), m.type \in {"CERT", "CV"}
  PROVE  ReadAs(m)
<1> DEFINE c == client'  t == ClientView  v == Tls!Take(t, m.type, No, Psk(m))
<1>0. Shapes /\ ClientOK /\ Shapes' /\ ClientOK'
  BY DEF SessionInv
<1>1. t = ViewOf(client, server) /\ ClientView' = ViewOf(c, server)
  <2>1. server' = server
    BY ClientReadsIs DEF ServerAside
  <2>2. QED
    BY <1>0, <2>1, ViewIs
<1>2. /\ c.keys = client.keys
      /\ c.state = (IF m.type = "CERT" THEN "expectCV" ELSE "expectFin")
      /\ c.enc = client.enc /\ c.resumed = client.resumed
      /\ c.psk = client.psk /\ c.own = client.own /\ c.hellos = client.hellos
      /\ c.next = client.next /\ c.updated = client.updated /\ c.extracted = client.extracted
      /\ c.buffer = NoCrypto
  BY <1>0, ClientReadsIs, TakeCertificateIs
<1>3. client.keys.hsRecv # NoKey
  BY <1>0, Accepted DEF ClientOK, BeforeHello
<1>4. Scheduled(client.schedule) = Yes /\ Scheduled(c.schedule) = Yes
  BY <1>0, <1>2, <1>3, ScheduleIsThere
<1> DEFINE st == IF m.type = "CERT" THEN "expectCV" ELSE "expectFin"
<1>5. v = [t EXCEPT !.state = st]
  BY ViewTakesCertificate
<1> HIDE DEF c, t, v
<1>8. /\ IsView(t) /\ t.state = client.state /\ t.hellos = client.hellos
      /\ t.psk = Scheduled(client.psk) /\ t.resumed = client.resumed
      /\ t.schedule = Scheduled(client.schedule)
      /\ t.fit = Fitting(client.keys.hsRecv, server.keys.hsSend)
      /\ t.mixed = Some(client.own) /\ t.encKey = Keying(client.enc)
      /\ t.nextKey = Keying(client.next)
      /\ t.updated = client.updated /\ t.certReq = No /\ t.extracted = Known(client.extracted)
      /\ t.heard = Tls!Nothing /\ t.keys = Held(client.keys)
  BY <1>1, ViewFields
<1>10. /\ IsView(v) /\ v.state = st
       /\ v.hellos = t.hellos /\ v.psk = t.psk /\ v.resumed = t.resumed
       /\ v.schedule = t.schedule /\ v.fit = t.fit /\ v.mixed = t.mixed
       /\ v.encKey = t.encKey /\ v.nextKey = t.nextKey /\ v.updated = t.updated
       /\ v.certReq = t.certReq /\ v.extracted = t.extracted /\ v.heard = t.heard
       /\ v.keys = t.keys
  <2> HIDE DEF st
  <2>1. QED
    BY <1>5, <1>8, ViewMovesOn
<1>11. v.state = c.state /\ v.schedule = Scheduled(c.schedule)
  BY <1>2, <1>4, <1>8, <1>10
<1>12. /\ v.hellos = c.hellos /\ v.psk = Scheduled(c.psk) /\ v.resumed = c.resumed
       /\ v.fit = Fitting(c.keys.hsRecv, server.keys.hsSend) /\ v.keys = Held(c.keys)
       /\ v.mixed = Some(c.own) /\ v.encKey = Keying(c.enc) /\ v.nextKey = Keying(c.next)
       /\ v.updated = c.updated
       /\ v.certReq = No /\ v.extracted = Known(c.extracted) /\ v.heard = Tls!Nothing
  BY <1>2, <1>8, <1>10
<1>20. ViewOf(c, server) = Flushed(v)
  BY <1>2, <1>10, <1>11, <1>12, FlushedView
<1>21. QED
  <2>1. No \in BOOLEAN
    BY DEF No
  <2>2. ClientView' = Flushed(Tls!Take(ClientView, m.type, No, Psk(m)))
    BY <1>1, <1>20 DEF v, t
  <2>3. QED
    BY <2>1, <2>2 DEF ReadAs

\* The Finished of the server.
LEMMA FinishedTaken ==
  ASSUME Shapes,  NEW m, m.type = "FIN", Took(m)
  PROVE  /\ client'.state = "gotFin" /\ client'.next # NoKey /\ client'.updated = Yes
         /\ client'.enc = client.enc /\ client'.resumed = client.resumed
         /\ client'.psk = client.psk /\ client'.own = client.own
         /\ client'.hellos = client.hellos /\ client'.extracted = client.extracted
         /\ client'.keys.zeroSend = client.keys.zeroSend
         /\ client'.keys.hsRecv = client.keys.hsRecv /\ client'.keys.hsSend = client.keys.hsSend
         /\ client'.keys.oneRecv # NoKey
         /\ client'.keys.oneSend = client.keys.oneSend
         /\ client'.buffer = NoCrypto
<1>1. PICK ks : ks = Extract(Update(client.schedule, m), None)
  OBVIOUS
<1>2. /\ DOMAIN client' = DOMAIN client /\ DOMAIN client'.keys = DOMAIN client.keys
         /\ client'.state = "gotFin" /\ client'.schedule = ks
         /\ client'.next = Derive(ks, "c ap traffic") /\ client'.updated = Yes
         /\ client'.alpn = client.alpn /\ client'.early = client.early /\ client'.enc = client.enc
         /\ client'.resumed = client.resumed
         /\ client'.psk = client.psk /\ client'.own = client.own
         /\ client'.ticket = client.ticket /\ client'.hellos = client.hellos
         /\ client'.binder = client.binder /\ client'.share = client.share
         /\ client'.extracted = client.extracted
         /\ client'.keys.zeroSend = client.keys.zeroSend
         /\ client'.keys.hsRecv = client.keys.hsRecv /\ client'.keys.hsSend = client.keys.hsSend
         /\ client'.keys.oneRecv = Derive(ks, "s ap traffic")
         /\ client'.keys.oneSend = client.keys.oneSend
         /\ client'.buffer = NoCrypto
  BY <1>1, TakeFinishedIs
<1>3. client'.next # NoKey /\ client'.keys.oneRecv # NoKey
  BY <1>2, DerivedIsKey
<1>4. QED
  BY <1>2, <1>3

LEMMA TakesFinishedView ==
  ASSUME SessionInv, SessionInv', ClientReads, NEW m, m = Head(toClient), Done(m), m.type = "FIN"
  PROVE  ReadAs(m)
<1> DEFINE c == client'  t == ClientView  v == Tls!Take(t, m.type, No, Psk(m))
<1>0. Shapes /\ ClientOK /\ Shapes' /\ ClientOK'
  BY DEF SessionInv
<1>1. t = ViewOf(client, server) /\ ClientView' = ViewOf(c, server)
  <2>1. server' = server
    BY ClientReadsIs DEF ServerAside
  <2>2. QED
    BY <1>0, <2>1, ViewIs
<1>30. Took(m)
  BY ClientReadsIs
<1>31. /\ c.state = "gotFin" /\ c.next # NoKey /\ c.updated = Yes
       /\ c.enc = client.enc /\ c.resumed = client.resumed
       /\ c.psk = client.psk /\ c.own = client.own
       /\ c.hellos = client.hellos /\ c.extracted = client.extracted
       /\ c.keys.zeroSend = client.keys.zeroSend
       /\ c.keys.hsRecv = client.keys.hsRecv /\ c.keys.hsSend = client.keys.hsSend
       /\ c.keys.oneRecv # NoKey
       /\ c.keys.oneSend = client.keys.oneSend
       /\ c.buffer = NoCrypto
  BY <1>0, <1>30, FinishedTaken
<1>2. /\ c.state = "gotFin"
      /\ c.enc = client.enc /\ c.resumed = client.resumed
      /\ c.psk = client.psk /\ c.own = client.own /\ c.hellos = client.hellos
      /\ c.extracted = client.extracted
  BY <1>31
<1>3. /\ c.keys.zeroSend = client.keys.zeroSend
      /\ c.keys.hsRecv = client.keys.hsRecv /\ c.keys.hsSend = client.keys.hsSend
      /\ c.keys.oneSend = client.keys.oneSend
  BY <1>31
<1>34. c.buffer = NoCrypto
  BY <1>31
<1>4. client.keys.hsRecv # NoKey
  BY <1>0, Accepted DEF ClientOK, BeforeHello
<1>5. Scheduled(client.schedule) = Yes /\ Scheduled(c.schedule) = Yes
  BY <1>0, <1>3, <1>4, ScheduleIsThere
<1>6. c.next # NoKey /\ c.keys.oneRecv # NoKey /\ c.updated = Yes
  BY <1>31
<1> HIDE DEF c, t
<1>8. /\ IsView(t) /\ t.state = client.state /\ t.hellos = client.hellos
      /\ t.psk = Scheduled(client.psk) /\ t.resumed = client.resumed
      /\ t.schedule = Scheduled(client.schedule)
      /\ t.fit = Fitting(client.keys.hsRecv, server.keys.hsSend)
      /\ t.mixed = Some(client.own) /\ t.encKey = Keying(client.enc)
      /\ t.nextKey = Keying(client.next)
      /\ t.updated = client.updated /\ t.certReq = No /\ t.extracted = Known(client.extracted)
      /\ t.heard = Tls!Nothing /\ t.keys = Held(client.keys)
  BY <1>1, ViewFields
<1>9. v = Tls!Take(t, "FIN", No, Psk(m))
  BY DEF v
<1> HIDE DEF v
<1>10. /\ IsView(v) /\ v.state = "gotFin" /\ v.nextKey = Yes /\ v.updated = Yes
       /\ v.keys = t.keys \cup {"oneRecv"}
       /\ v.hellos = t.hellos /\ v.psk = t.psk /\ v.resumed = t.resumed
       /\ v.schedule = t.schedule /\ v.fit = t.fit /\ v.mixed = t.mixed
       /\ v.encKey = t.encKey
       /\ v.certReq = t.certReq /\ v.extracted = t.extracted /\ v.heard = t.heard
  BY <1>8, <1>9, ViewTakesFinished
<1>11. v.keys = Held(c.keys)
  <2>1. \A y \in Tls!Keys : y # "oneRecv" => c.keys[y] = client.keys[y]
    BY <1>3 DEF Tls!Keys
  <2>2. "oneRecv" \in Tls!Keys /\ c.keys["oneRecv"] # NoKey
    BY <1>6 DEF Tls!Keys
  <2>3. Held(c.keys) = Held(client.keys) \cup {"oneRecv"}
    BY <2>1, <2>2, HeldIs
  <2>4. QED
    BY <1>8, <1>10, <2>3
<1>12. v.nextKey = Keying(c.next) /\ v.updated = c.updated
  BY <1>6, <1>10, IsThere
<1>13. v.schedule = Scheduled(c.schedule) /\ v.fit = Fitting(c.keys.hsRecv, server.keys.hsSend)
  BY <1>3, <1>5, <1>8, <1>10
<1>14. /\ v.state = c.state
       /\ v.hellos = c.hellos /\ v.psk = Scheduled(c.psk) /\ v.resumed = c.resumed
       /\ v.mixed = Some(c.own) /\ v.encKey = Keying(c.enc)
       /\ v.certReq = No /\ v.extracted = Known(c.extracted) /\ v.heard = Tls!Nothing
  BY <1>2, <1>8, <1>10
<1>35. IsView(v)
  BY <1>10
<1>20. ViewOf(c, server) = Flushed(v)
  BY <1>34, <1>35, <1>11, <1>12, <1>13, <1>14, FlushedView
<1>21. QED
  <2>1. No \in BOOLEAN
    BY DEF No
  <2>2. ClientView' = Flushed(Tls!Take(ClientView, m.type, No, Psk(m)))
    BY <1>1, <1>20 DEF v, t
  <2>3. QED
    BY <2>1, <2>2 DEF ReadAs

\* A ticket waits when the client has not sent its Finished.
LEMMA TicketWaits ==
  ASSUME Shapes, NEW m, m.type = "NST", Took(m)
  PROVE  /\ client.state = "gotFin" => client'.extracted = m.id
         /\ client.state # "gotFin" => client'.extracted = client.extracted
<1>1. DOMAIN client = {"state", "ticket", "hellos", "binder", "share", "psk", "proxy",
                          "schedule", "resumed", "alpn", "early", "enc", "dec", "next", "updated",
                          "extracted", "own", "keys", "buffer"}
  BY DEF Shapes
<1>2. Take(m) = IF client.state = "gotFin" THEN [client EXCEPT !.extracted = m.id] ELSE client
  BY DEF Take
<1> DEFINE id == m.id
<1> HIDE DEF id
<1>3. client.state = "gotFin" => client'.extracted = id
  BY <1>1, <1>2 DEF id, Took
<1>4. client.state # "gotFin" => client'.extracted = client.extracted
  BY <1>1, <1>2 DEF Took
<1>5. QED
  BY <1>3, <1>4 DEF id

LEMMA TakesTicketView ==
  ASSUME SessionInv, SessionInv', ClientReads, NEW m, m = Head(toClient), Done(m), m.type = "NST"
  PROVE  ReadAs(m)
<1> DEFINE c == client'  t == ClientView  v == Tls!Take(t, m.type, No, Psk(m))
<1>0. Shapes /\ ClientOK /\ Shapes' /\ ClientOK'
  BY DEF SessionInv
<1>1. t = ViewOf(client, server) /\ ClientView' = ViewOf(c, server)
  <2>1. server' = server
    BY ClientReadsIs DEF ServerAside
  <2>2. QED
    BY <1>0, <2>1, ViewIs
<1>2. /\ c.keys = client.keys /\ c.state = client.state /\ c.schedule = client.schedule
      /\ c.enc = client.enc /\ c.resumed = client.resumed
      /\ c.psk = client.psk /\ c.own = client.own /\ c.hellos = client.hellos
      /\ c.next = client.next /\ c.updated = client.updated /\ c.buffer = NoCrypto
  BY <1>0, ClientReadsIs, TakeTicketIs
<1>3. /\ client.state = "gotFin" => c.extracted = m.id
      /\ client.state # "gotFin" => c.extracted = client.extracted
  BY <1>0, ClientReadsIs, TicketWaits
<1>4. m.id # None
  <2>1. m \in Flight(TheAnswer)
    BY ClientReadsIs, HeadIs
  <2>2. m = NewSessionTicket(TheAnswer.conn)
    BY <2>1, InFlight
  <2>3. m.id = conn
    BY <2>2 DEF NewSessionTicket, TheAnswer
  <2>4. QED
    BY <1>0, <2>3, SessionAssumption DEF Shapes
<1> HIDE DEF c, t
<1>8. /\ IsView(t) /\ t.state = client.state /\ t.hellos = client.hellos
      /\ t.psk = Scheduled(client.psk) /\ t.resumed = client.resumed
      /\ t.schedule = Scheduled(client.schedule)
      /\ t.fit = Fitting(client.keys.hsRecv, server.keys.hsSend)
      /\ t.mixed = Some(client.own) /\ t.encKey = Keying(client.enc)
      /\ t.nextKey = Keying(client.next)
      /\ t.updated = client.updated /\ t.certReq = No /\ t.extracted = Known(client.extracted)
      /\ t.heard = Tls!Nothing /\ t.keys = Held(client.keys)
  BY <1>1, ViewFields
<1>9. v = Tls!Take(t, "NST", No, Psk(m)) /\ t.extracted \in {Yes, No}
  BY <1>8, IsThere DEF v
<1> HIDE DEF v
<1>10. /\ IsView(v)
       /\ v.state = t.state /\ v.hellos = t.hellos /\ v.psk = t.psk /\ v.resumed = t.resumed
       /\ v.schedule = t.schedule /\ v.fit = t.fit /\ v.mixed = t.mixed
       /\ v.encKey = t.encKey /\ v.nextKey = t.nextKey /\ v.updated = t.updated
       /\ v.certReq = t.certReq /\ v.heard = t.heard /\ v.keys = t.keys
  BY <1>8, <1>9, ViewTakesTicket
<1>11. /\ t.state = "gotFin" => v.extracted = Yes
       /\ t.state # "gotFin" => v.extracted = t.extracted
  BY <1>8, <1>9, ViewTakesTicket
<1>12. v.extracted = Known(c.extracted)
  BY <1>3, <1>4, <1>8, <1>11, IsThere
<1>13. /\ v.state = c.state /\ v.schedule = Scheduled(c.schedule)
       /\ v.hellos = c.hellos /\ v.psk = Scheduled(c.psk) /\ v.resumed = c.resumed
       /\ v.fit = Fitting(c.keys.hsRecv, server.keys.hsSend) /\ v.keys = Held(c.keys)
       /\ v.mixed = Some(c.own) /\ v.encKey = Keying(c.enc) /\ v.nextKey = Keying(c.next)
       /\ v.updated = c.updated
       /\ v.certReq = No /\ v.heard = Tls!Nothing
  BY <1>2, <1>8, <1>10
<1>20. ViewOf(c, server) = Flushed(v)
  BY <1>2, <1>10, <1>12, <1>13, FlushedView
<1>21. QED
  <2>1. No \in BOOLEAN
    BY DEF No
  <2>2. ClientView' = Flushed(Tls!Take(ClientView, m.type, No, Psk(m)))
    BY <1>1, <1>20 DEF v, t
  <2>3. QED
    BY <2>1, <2>2 DEF ReadAs

\* The ServerHello.  The keys fit only if it answers the last hello, and, if it
\* takes up the ticket, only if that was the first.
LEMMA HelloTaken ==
  ASSUME Shapes, NEW m, m.type = "SH", Took(m),
         NEW ks, ks = Extract(Update(Select(m), m), [client |-> client.share, server |-> m.share])
  PROVE  /\ client'.state = "expectEE" /\ client'.schedule = ks
         /\ client'.resumed = Either(client.resumed, m.psk)
         /\ client'.psk = NoSchedule /\ client'.own = 0 /\ client'.hellos = client.hellos
         /\ client'.enc = client.enc /\ client'.next = client.next
         /\ client'.updated = client.updated /\ client'.extracted = client.extracted
         /\ client'.keys.zeroSend = client.keys.zeroSend
         /\ client'.keys.hsRecv = Derive(ks, "s hs traffic")
         /\ client'.keys.hsSend = client.keys.hsSend
         /\ client'.keys.oneRecv = client.keys.oneRecv
         /\ client'.keys.oneSend = client.keys.oneSend
         /\ client'.buffer = NoCrypto
<1>1. PICK key : key = Derive(ks, "s hs traffic")
  OBVIOUS
<1>2. /\ DOMAIN client' = DOMAIN client /\ DOMAIN client'.keys = DOMAIN client.keys
      /\ client'.state = "expectEE" /\ client'.schedule = ks
      /\ client'.resumed = Either(client.resumed, m.psk)
      /\ client'.psk = NoSchedule /\ client'.own = 0 /\ client'.dec = key
      /\ client'.ticket = client.ticket /\ client'.hellos = client.hellos
      /\ client'.binder = client.binder /\ client'.share = client.share
      /\ client'.enc = client.enc /\ client'.next = client.next
      /\ client'.updated = client.updated /\ client'.extracted = client.extracted
      /\ client'.keys.zeroSend = client.keys.zeroSend
      /\ client'.keys.hsRecv = key /\ client'.keys.hsSend = client.keys.hsSend
      /\ client'.keys.oneRecv = client.keys.oneRecv
      /\ client'.keys.oneSend = client.keys.oneSend
      /\ client'.buffer = NoCrypto
  BY <1>1, TakeHelloIs, ZenonT(60)
<1>3. QED
  BY <1>1, <1>2

LEMMA TakesHelloView ==
  ASSUME SessionInv, SessionInv', ClientReads, NEW m, m = Head(toClient), Done(m), m.type = "SH"
  PROVE  ReadAs(m)
<1> DEFINE c == client'  t == ClientView  f == Fitting(c.keys.hsRecv, server.keys.hsSend)
           v == Tls!Take(t, m.type, f, Psk(m))  a == TheAnswer
           ks == Extract(Update(Select(m), m), [client |-> client.share, server |-> m.share])
<1>0. Shapes /\ ClientOK /\ Shapes' /\ ClientOK'
  BY DEF SessionInv
<1>1. t = ViewOf(client, server) /\ ClientView' = ViewOf(c, server)
  <2>1. server' = server
    BY ClientReadsIs DEF ServerAside
  <2>2. QED
    BY <1>0, <2>1, ViewIs
<1> DEFINE key == Derive(ks, "s hs traffic")
<1>31. /\ Took(m)
       /\ ks = Extract(Update(Select(m), m), [client |-> client.share, server |-> m.share])
  BY ClientReadsIs
<1>32. key = Derive(ks, "s hs traffic")
  OBVIOUS
<1> HIDE DEF ks, key
<1>33. /\ c.state = "expectEE" /\ c.schedule = ks
       /\ c.resumed = Either(client.resumed, m.psk)
       /\ c.psk = NoSchedule /\ c.own = 0 /\ c.hellos = client.hellos
       /\ c.enc = client.enc /\ c.next = client.next
       /\ c.updated = client.updated /\ c.extracted = client.extracted
       /\ c.keys.zeroSend = client.keys.zeroSend
       /\ c.keys.hsRecv = Derive(ks, "s hs traffic")
       /\ c.keys.hsSend = client.keys.hsSend
       /\ c.keys.oneRecv = client.keys.oneRecv
       /\ c.keys.oneSend = client.keys.oneSend
       /\ c.buffer = NoCrypto
  BY <1>0, <1>31, HelloTaken
<1>2. /\ c.state = "expectEE" /\ c.schedule = ks
      /\ c.psk = NoSchedule /\ c.own = 0 /\ c.hellos = client.hellos
      /\ c.enc = client.enc /\ c.next = client.next
      /\ c.updated = client.updated /\ c.extracted = client.extracted
      /\ c.buffer = NoCrypto
  BY <1>33
<1>3. /\ c.keys.zeroSend = client.keys.zeroSend
      /\ c.keys.hsRecv = key /\ c.keys.hsSend = client.keys.hsSend
      /\ c.keys.oneRecv = client.keys.oneRecv
      /\ c.keys.oneSend = client.keys.oneSend
  BY <1>32, <1>33
<1>34. c.resumed = Either(client.resumed, m.psk)
  BY <1>33
<1>4. c.keys.hsRecv # NoKey
  BY <1>3, <1>32, DerivedIsKey
<1>5. Scheduled(c.schedule) = Yes
  BY <1>0, <1>4, ScheduleIsThere
<1>6. /\ client.resumed \in {Yes, No} /\ Psk(m) \in {Yes, No}
      /\ Psk(m) = Yes => c.resumed = Yes
      /\ Psk(m) = No => c.resumed = client.resumed
  <2>1. m.psk \in BOOLEAN /\ client.resumed \in BOOLEAN
    BY <1>0, ClientReadsIs, HelloFails DEF Shapes
  <2>2. QED
    BY <1>34, <2>1 DEF Psk, Yes, No, Either
<1>7. f \in BOOLEAN /\ f \in {Yes, No} /\ (f = Yes /\ Psk(m) = Yes => client.hellos = 1)
  <2>1. f \in BOOLEAN /\ f \in {Yes, No}
    BY DEF Fitting, Yes, No
  <2>2. ASSUME f = Yes, Psk(m) = Yes PROVE client.hellos = 1
    <3>1. c.keys.hsRecv = server.keys.hsSend /\ m.psk
      BY <2>2 DEF Fitting, Yes, Psk
    <3>2. /\ Answered /\ client.hellos > 0 /\ IsAnswer(a) /\ m \in Flight(a)
          /\ m.psk = a.resumed /\ m.psk \in BOOLEAN /\ m.suite \in Suites
          /\ m.psk => client.psk.suite = m.suite
      <4>1. toClient # << >>
        BY ClientReadsIs
      <4>2. QED
        BY <4>1, Accepted, HeadIs, HelloFails, SessionAssumption
    <3>3. /\ server.keys.hsSend = ServerKey(a)
          /\ a.inputs[2] = [client |-> a.hello.share, server |-> <<conn, "server">>]
          /\ client.ticket # None /\ a.hello = FirstHello
      BY <3>1, <3>2 DEF SessionInv, ServerOK
    <3>4. ks.inputs = a.inputs
      <4>1. Derive(ks, "s hs traffic") = Derive(Handshaking(a, WithHello(a)), "s hs traffic")
        BY <1>3, <1>32, <3>1, <3>3 DEF ServerKey
      <4>2. Handshaking(a, WithHello(a)).inputs = a.inputs
        BY DEF Handshaking, Keyed
      <4>3. QED
        BY <4>1, <4>2, SameSecret
    <3>5. \E x : ks.inputs = <<x, [client |-> client.share, server |-> m.share]>>
      <4> DEFINE both == [client |-> client.share, server |-> m.share]
      <4>1. client.ticket # None /\ client.psk # NoSchedule
        BY <3>1, <3>2, <3>3, SessionAssumption DEF NoSchedule
      <4>2. client.psk = Update(Start, FirstHello)
        BY <3>2, <4>1 DEF SessionInv, HellosOK
      <4>3. Select(m) = client.psk
        BY <3>1 DEF Select
      <4> DEFINE i == <<client.ticket.secret>>  st == client.ticket.suite  t0 == << >>  x == FirstHello
      <4>4. Start = Keyed(st, i, t0)
        BY ScheduleIs DEF Start
      <4> HIDE DEF both, st, t0, x
      <4>5. ks = Keyed(st, More(i, both), More(More(t0, x), m))
        <5> HIDE DEF i
        <5>1. Update(Start, FirstHello) = Keyed(st, i, More(t0, x))
          BY <4>4, UpdateIs DEF x
        <5>2. QED
          BY <1>31, <4>2, <4>3, <5>1, UpdateIs, ExtractIs DEF both
      <4>6. More(i, both) = <<client.ticket.secret, both>>
        BY Append1 DEF More
      <4>7. ks.inputs = <<client.ticket.secret, both>>
        BY <4>5, <4>6, KeyedIs
      <4>8. QED
        BY <4>7 DEF both
    <3>6. a.inputs[2].client = client.share
      BY <3>4, <3>5
    <3>7. a.hello.share = client.share
      BY <3>3, <3>6
    <3>8. client.share = <<conn, client.hellos>>
      BY <3>2 DEF SessionInv, HellosOK
    <3>9. FirstHello.share = <<conn, 1>>
      BY <3>2, <3>3 DEF SessionInv, HellosOK
    <3>10. <<conn, client.hellos>>[2] = <<conn, 1>>[2]
      BY <3>3, <3>7, <3>8, <3>9
    <3>11. QED
      BY <3>10
  <2>3. QED
    BY <2>1, <2>2
<1> HIDE DEF c, t, f, a
<1>8. /\ IsView(t) /\ t.state = client.state /\ t.hellos = client.hellos
      /\ t.psk = Scheduled(client.psk) /\ t.resumed = client.resumed
      /\ t.schedule = Scheduled(client.schedule)
      /\ t.fit = Fitting(client.keys.hsRecv, server.keys.hsSend)
      /\ t.mixed = Some(client.own) /\ t.encKey = Keying(client.enc)
      /\ t.nextKey = Keying(client.next)
      /\ t.updated = client.updated /\ t.certReq = No /\ t.extracted = Known(client.extracted)
      /\ t.heard = Tls!Nothing /\ t.keys = Held(client.keys)
  BY <1>1, ViewFields
<1>9. v = Tls!Take(t, "SH", f, Psk(m)) /\ t.resumed \in {Yes, No}
  BY <1>6, <1>8 DEF v
<1> HIDE DEF v
<1>10. /\ IsView(v) /\ v.state = "expectEE" /\ v.psk = No
       /\ v.schedule = Yes /\ v.mixed = No /\ v.keys = t.keys \cup {"hsRecv"}
       /\ v.hellos = t.hellos /\ v.encKey = t.encKey /\ v.nextKey = t.nextKey
       /\ v.updated = t.updated /\ v.certReq = t.certReq /\ v.extracted = t.extracted
       /\ v.heard = t.heard
  BY <1>8, <1>9, ViewTakesHello
<1>11. /\ Psk(m) = Yes => v.resumed = Yes
       /\ Psk(m) = No => v.resumed = t.resumed
       /\ f = Yes /\ (Psk(m) = Yes => t.hellos = 1) /\ Psk(m) \in {Yes, No} => v.fit = Yes
       /\ f = No => v.fit = No
  BY <1>8, <1>9, ViewTakesHello
<1>12. v.resumed = c.resumed
  BY <1>6, <1>8, <1>11
<1>13. v.fit = f
  BY <1>6, <1>7, <1>8, <1>11
<1>14. v.keys = Held(c.keys)
  <2>1. \A y \in Tls!Keys : y # "hsRecv" => c.keys[y] = client.keys[y]
    BY <1>3 DEF Tls!Keys
  <2>2. "hsRecv" \in Tls!Keys /\ c.keys["hsRecv"] # NoKey
    BY <1>4 DEF Tls!Keys
  <2>3. Held(c.keys) = Held(client.keys) \cup {"hsRecv"}
    BY <2>1, <2>2, HeldIs
  <2>4. QED
    BY <1>8, <1>10, <2>3
<1>15. v.psk = Scheduled(c.psk) /\ v.mixed = Some(c.own) /\ v.schedule = Scheduled(c.schedule)
  BY <1>2, <1>5, <1>10, IsThere
<1>16. /\ v.state = c.state /\ v.hellos = c.hellos /\ v.encKey = Keying(c.enc)
       /\ v.nextKey = Keying(c.next) /\ v.updated = c.updated
       /\ v.certReq = No /\ v.extracted = Known(c.extracted) /\ v.heard = Tls!Nothing
  BY <1>2, <1>8, <1>10
<1>17. v.fit = Fitting(c.keys.hsRecv, server.keys.hsSend)
  BY <1>13 DEF f
<1>20. ViewOf(c, server) = Flushed(v)
  BY <1>2, <1>10, <1>12, <1>14, <1>15, <1>16, <1>17, FlushedView
<1>21. QED
  <2>1. f \in BOOLEAN
    BY <1>7
  <2>2. ClientView' = Flushed(Tls!Take(ClientView, m.type, f, Psk(m)))
    BY <1>1, <1>20 DEF v, t
  <2>3. QED
    BY <2>1, <2>2 DEF ReadAs

\* What the client reads moves its view as TlsClient says.
LEMMA ClientReadsView ==
  ASSUME SessionInv, SessionInv', ClientReads
  PROVE  ViewReads(ClientView, ClientView', Head(toClient))
<1> DEFINE m == Head(toClient)
<1>1. toClient # << >> /\ ServerAside /\ (~Done(m) => client' = client)
  BY ClientReadsIs
<1>2. m.type \in {"SH", "EE", "CERT", "CV", "FIN", "NST"}
  BY <1>1, HeadIs, InFlight
<1>3. Done(m) <=> ~(Tls!Breaks(ClientView, m.type) \/ Tls!Alerts(ClientView, m.type, Psk(m)))
  BY <1>1, AlertsAlike
<1> HIDE DEF m
<1>4. ASSUME ~Done(m) PROVE ClientView' = ClientView
  <2>1. client' = client /\ server' = server
    BY <1>1, <1>4 DEF ServerAside
  <2>2. Shapes /\ Shapes'
    BY DEF SessionInv
  <2>3. QED
    BY <2>1, <2>2, ViewIs
<1>5. ASSUME Done(m) PROVE ReadAs(m)
  <2>1. m = Head(toClient)
    BY DEF m
  <2>2. CASE m.type = "SH"
    BY <1>5, <2>1, <2>2, TakesHelloView
  <2>3. CASE m.type = "EE"
    BY <1>5, <2>1, <2>3, TakesExtensionsView
  <2>4. CASE m.type \in {"CERT", "CV"}
    BY <1>5, <2>1, <2>4, TakesCertificateView
  <2>5. CASE m.type = "FIN"
    BY <1>5, <2>1, <2>5, TakesFinishedView
  <2>6. CASE m.type = "NST"
    BY <1>5, <2>1, <2>6, TakesTicketView
  <2>7. QED
    BY <1>2, <2>2, <2>3, <2>4, <2>5, <2>6
<1> DEFINE t == ClientView  u == ClientView'  ty == m.type  p == Psk(m)
           refused == Tls!Breaks(t, ty) \/ Tls!Alerts(t, ty, p)
<1>6. refused => u = t
  BY <1>3, <1>4
<1>7. ~refused => \E last \in BOOLEAN : u = Flushed(Tls!Take(t, ty, last, p))
  BY <1>3, <1>5 DEF ReadAs
<1>8. ViewReads(t, u, m) = IF refused THEN u = t
                           ELSE \E last \in BOOLEAN : u = Flushed(Tls!Take(t, ty, last, p))
  BY DEF ViewReads, Psk
<1> HIDE DEF t, u, ty, p, refused
<1>9. ViewReads(t, u, m)
  BY <1>6, <1>7, <1>8
<1>10. QED
  BY <1>9 DEF m, t, u

\* What else moves the view of the client is a letter, or a new connection.
LEMMA OtherStepsView ==
  ASSUME SessionInv, SessionInv', Next, ~ClientReads, ClientView' # ClientView
  PROVE  ViewStep(ClientView, ClientView')
<1>0. Shapes /\ Shapes' /\ DOMAIN toServer = Epochs
  BY DEF SessionInv, Shapes, AreStreams
<1>1. CASE NewConnection
  BY <1>0, <1>1, NewConnectionView DEF ViewStep
<1>2. ASSUME NEW suites \in Offers, SendHello(suites) PROVE ViewStep(ClientView, ClientView')
  BY <1>0, <1>2, SendHelloView DEF ViewStep
<1>3. ASSUME NEW e \in Epochs, SendFinished(e) PROVE ViewStep(ClientView, ClientView')
  <2> DEFINE s == Tls!SendFinished(ClientView, e, config.keeps)
  <2>1. /\ ~Tls!FinishedIsSent(ClientView) => ClientView' = s
        /\ Tls!FinishedIsSent(ClientView) => ClientView' = Flushed(s)
    BY <1>0, <1>3, SendFinishedView
  <2>2. ClientView' = IF Tls!FinishedIsSent(ClientView) THEN Flushed(s) ELSE s
    BY <2>1
  <2>3. QED
    BY <1>0, <2>2 DEF ViewStep
<1>4. ASSUME NEW e \in Epochs, ServerReads(e) PROVE FALSE
  BY <1>0, <1>4, ServerReadsView
<1>5. CASE SendCertificate
  BY <1>0, <1>5, SendCertificateView DEF ViewStep
<1>6. QED
  BY <1>0, <1>1, <1>2, <1>3, <1>4, <1>5 DEF Next

\* Every step of the client is one TlsClient allows, Alerts included: the client
\* with its secrets, transcript and key schedules (tls.py, Context) does to what
\* TlsClient keeps of it what TlsClient says, whatever comes from the server.
THEOREM ImplementsTlsClientHolds == Spec => ImplementsTlsClient
<1> DEFINE Step == /\ ClientReads => ViewReads(ClientView, ClientView', Head(toClient))
                   /\ ~ClientReads /\ ClientView' # ClientView => ViewStep(ClientView, ClientView')
<1>1. SessionInv /\ SessionInv' /\ [Next]_vars => [Step]_vars
  <2> SUFFICES ASSUME SessionInv, SessionInv', Next PROVE Step
    OBVIOUS
  <2>1. ClientReads => ViewReads(ClientView, ClientView', Head(toClient))
    BY ClientReadsView
  <2>2. ~ClientReads /\ ClientView' # ClientView => ViewStep(ClientView, ClientView')
    BY OtherStepsView
  <2>3. QED
    BY <2>1, <2>2
<1> HIDE DEF Step
<1>2. [][Step]_vars => ImplementsTlsClient
  BY DEF ImplementsTlsClient, Step
<1>3. QED
  BY <1>1, <1>2, SessionInvHolds, PTL DEF Spec
====
