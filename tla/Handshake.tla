---- MODULE Handshake ----
(***************************************************************************)
(* What the mapper's letters and the server's packets do to a              *)
(* QuicConnection until and after its handshake: the packet spaces that    *)
(* may be written, CRYPTO data, probes, CONNECTION_CLOSE, Retry and        *)
(* Version Negotiation.  A connection is a record; the operators are       *)
(* called by the actions of Mapper.                                        *)
(***************************************************************************)
EXTENDS TlsClient, FiniteSets

Epochs == {"initial", "zero", "handshake", "one"}
Early == {"initial", "handshake"}

\* What _payload_received and receive_datagram put into peerResponse.
Responses == TlsMessages \cup
  {"HANDSHAKE_DONE", "NEW_TOKEN", "PING.ACKED", "CONNECTION_CLOSE", "RETRY",
   "VERSION_NEGOTIATION"}

Silence == [m \in Responses |-> 0]
Count(h, m) == [h EXCEPT ![m] = @ + 1]

(***************************************************************************)
(* epoch: sendEpochType; dst: what _peer_cid.cid holds, and fixed: its     *)
(* sequence number is known; knocked: the destinations INITIAL packets     *)
(* were sent to; pings, acks: spaces with an unacknowledged PING and with  *)
(* ack_at set; streams: CRYPTO data not sent yet; stale: the version was   *)
(* changed under INITIAL keys of the old one; closeSent: a                 *)
(* CONNECTION_CLOSE has left.                                              *)
(***************************************************************************)
FreshConnection ==
  [state |-> "first", tls |-> FreshTls, streams |-> {}, epoch |-> "none",
   closeEvent |-> FALSE, closePending |-> FALSE, closeSent |-> FALSE,
   probe |-> FALSE, pings |-> {}, acks |-> {}, handshakeSent |-> FALSE,
   complete |-> FALSE, confirmed |-> FALSE, gotHello |-> FALSE, retried |-> FALSE,
   negotiated |-> FALSE, stale |-> FALSE, dst |-> "orig", fixed |-> FALSE,
   knocked |-> {}, heard |-> Silence, error |-> FALSE]

EndStates == {"closing", "draining", "terminated"}
Ended(c) == c.state \in EndStates

SendKey(e) == CASE e = "zero" -> "zeroSend" [] e = "handshake" -> "hsSend" [] e = "one" -> "oneSend"
CanWrite(c, e) == e = "initial" \/ SendKey(e) \in c.tls.keys

\* _initialize: a new TLS context, new keys, CRYPTO streams and packet spaces.
Initialize(c) ==
  [c EXCEPT !.tls = FreshTls, !.streams = {}, !.pings = {}, !.acks = {}, !.stale = FALSE]

\* _push_crypto_data.
Push(c) ==
  [c EXCEPT !.streams = @ \cup c.tls.buffer, !.tls.buffer = {}]

(***************************************************************************)
(* Sending.                                                                *)
(***************************************************************************)
\* What every written packet leaves behind; to: the epochs written in.
Written(c, to) ==
  [c EXCEPT !.knocked = IF "initial" \in to THEN @ \cup {c.dst} ELSE @,
            !.handshakeSent = @ \/ "handshake" \in to,
            !.epoch = "none"]

\* The epochs a CONNECTION_CLOSE is written in: possibly none at all.
CloseEpochs(c) ==
  IF c.epoch = "zero" /\ CanWrite(c, "zero") THEN {"zero"}
  ELSE {e \in (IF ~c.confirmed \/ c.epoch \in Early THEN Early ELSE {}) \cup {"one"} :
          c.epoch \in {e, "none"} /\ CanWrite(c, e)}

TransmitClose(c) ==
  [Written(c, CloseEpochs(c)) EXCEPT !.closePending = FALSE,
                                     !.closeSent = @ \/ CloseEpochs(c) # {}]

\* The epochs _write_handshake and _write_application look at.
OpenEpochs(c) ==
  {e \in Epochs : /\ CanWrite(c, e)
                  /\ e \in Early => ~c.confirmed \/ c.epoch \in Early
                  /\ e = "zero" => c.epoch = "zero"}

CryptoIn(c, e) == \E d \in c.streams : d[1] = e

\* Where the probe goes.  CRYPTO data that is written first takes its place;
\* without a key the probe waits.
ProbeEpochs(c) ==
  LET open == OpenEpochs(c)
      early == {e \in Early \cap open : CryptoIn(c, e)}
      before == IF c.epoch = "initial" THEN {"initial"} ELSE Early
  IN IF ~c.probe THEN {}
     ELSE IF c.epoch \in Early \cap open /\ early \cap before = {} THEN {c.epoch}
     ELSE IF early # {} THEN {}
     ELSE IF "zero" \in open THEN {"zero"} ELSE {"one"} \cap open

TransmitFrames(c) ==
  LET open == OpenEpochs(c)
      acked == c.acks \cap (Early \cup IF c.complete THEN {"one"} ELSE {}) \cap open
      crypto == {e \in open : CryptoIn(c, e)}
      probe == ProbeEpochs(c)
  IN [Written(c, acked \cup crypto \cup probe) EXCEPT
        !.streams = {d \in @ : d[1] \notin open},
        !.acks = @ \ acked,
        !.probe = @ /\ probe = {} /\ crypto \cap Early = {},
        !.pings = @ \cup {IF e = "zero" THEN "one" ELSE e : e \in probe}]

\* datagrams_to_send, without a malformed packet.
Transmit(c) ==
  CASE Ended(c) -> c
    [] ~Ended(c) /\ c.closePending -> TransmitClose(c)
    [] OTHER -> TransmitFrames(c)

\* _write_malformed_packet in place of everything else, and resetMalformedPacket.
TransmitMalformed(c, e) ==
  IF Ended(c) THEN c
  ELSE Written(c, IF CanWrite(c, e) THEN {e} ELSE {})

(***************************************************************************)
(* The methods behind the letters.  A method that raises leaves the letter *)
(* without a transmit.                                                     *)
(***************************************************************************)
\* Mutant: the key is not looked at.
NeverRaises(c, e) == FALSE

\* close(); the letter goes on to transmit unless the key is missing.
CloseRaises(c, e) == ~c.closeEvent /\ ~Ended(c) /\ e # "none" /\ ~CanWrite(c, e)
Close(c, e) ==
  CASE c.closeEvent \/ Ended(c) -> c
    [] CloseRaises(c, e) -> [c EXCEPT !.error = TRUE]
    [] OTHER ->
         [c EXCEPT !.closeEvent = TRUE, !.closePending = TRUE,
                   !.epoch = CASE e # "none" -> e
                               [] e = "none" /\ ~c.handshakeSent -> @
                               [] OTHER -> IF c.confirmed THEN "one" ELSE "handshake"]

\* probe().
ProbeRaises(c, e) == e # "none" /\ ~CanWrite(c, e)
Probe(c, e) ==
  IF ProbeRaises(c, e) THEN [c EXCEPT !.error = TRUE]
  ELSE [c EXCEPT !.probe = TRUE,
                 !.epoch = CASE e # "none" -> e
                             [] e = "none" /\ c.confirmed -> "one"
                             [] OTHER -> IF c.handshakeSent THEN "handshake" ELSE "initial"]

\* clientHello().
Hello(c, ticket) ==
  Push([c EXCEPT !.tls = SendHello(@, ticket), !.epoch = "initial"])

\* sendFinished(): the epoch is set before the TLS context may raise.
Finish(c, e, keep) ==
  LET f == [c EXCEPT !.tls = SendFinished(@, e, keep), !.epoch = e]
  IN IF FinishedIsSent(c.tls) THEN [Push(f) EXCEPT !.complete = TRUE] ELSE f

\* sendValid-, sendEmpty-, sendInvalidClientCertificate().
Certificate(c) ==
  IF CanSendCertificate(c.tls) THEN Push([c EXCEPT !.tls = WriteOwn(@, "CERT")])
  ELSE [c EXCEPT !.error = TRUE]
Verify(c) ==
  IF CanSendVerify(c.tls) THEN Push([c EXCEPT !.tls = WriteOwn(@, "CV")]) ELSE c

\* changeDestinationConnectionID().
ChangeDestination(c, to) ==
  IF c.gotHello /\ c.dst # to THEN [c EXCEPT !.dst = to] ELSE c

(***************************************************************************)
(* Receiving: what one packet with one frame does, and the transmit that   *)
(* follows it in datagram_received.                                        *)
(***************************************************************************)
\* The first packet that can be read names the server's connection ID.
Opened(c) ==
  [c EXCEPT !.state = IF @ = "first" THEN "connected" ELSE @,
            !.dst = IF c.fixed THEN @ ELSE "server",
            !.fixed = TRUE]

ToAck(c, e) == [c EXCEPT !.acks = @ \cup {e}]

\* Mutant: the responses are passed on without clearing them.
ReceiveTlsTwice(c, m, e, last, psk) ==
  LET o == [Opened(c) EXCEPT !.tls.heard = Count(@, m)]
  IN IF Breaks(c.tls, m) \/ Alerts(c.tls, m, psk) THEN o
     ELSE Transmit([o EXCEPT !.tls = Take(o.tls, m, last, psk),
                             !.heard = [x \in Responses |->
                               IF x \in TlsMessages THEN @[x] + o.tls.heard[x] ELSE @[x]]])

\* _handle_crypto_frame: the responses of the TLS context are passed on only
\* when it has not raised; an assertion keeps even the transmit from running.
ReceiveTls(c, m, e, last, psk) ==
  LET o == [Opened(c) EXCEPT !.tls.heard = Count(@, m)]
      t == Take(o.tls, m, last, psk)
      done == [o EXCEPT !.tls = [t EXCEPT !.heard = Nothing],
                        !.heard = [x \in Responses |->
                          IF x \in TlsMessages THEN @[x] + o.tls.heard[x] ELSE @[x]],
                        !.gotHello = @ \/ o.tls.heard["SH"] > 0]
  IN CASE Breaks(c.tls, m) -> o
       [] Alerts(c.tls, m, psk) -> Transmit(o)
       [] OTHER -> Transmit(ToAck(Push(done), e))

\* _handle_handshake_done_frame: reported and taken once.
ReceiveDone(c) ==
  LET o == Opened(c)
  IN Transmit(ToAck(IF o.confirmed THEN o
                    ELSE [o EXCEPT !.confirmed = TRUE,
                                   !.heard = Count(@, "HANDSHAKE_DONE")], "one"))

ReceiveToken(c) ==
  Transmit(ToAck([Opened(c) EXCEPT !.heard = Count(@, "NEW_TOKEN")], "one"))

\* _on_ping_delivery for the PING of a space.
ReceivePingAck(c, e) ==
  Transmit([Opened(c) EXCEPT !.heard = Count(@, "PING.ACKED"), !.pings = @ \ {e}])

\* _handle_connection_close_frame: noted once per answer; a connection that
\* has asked to be closed itself does not begin to drain.
ReceiveClose(c) ==
  LET o == [Opened(c) EXCEPT !.heard["CONNECTION_CLOSE"] = 1]
  IN Transmit(IF o.closeEvent THEN o
              ELSE [o EXCEPT !.closeEvent = TRUE, !.state = "draining"])

\* Always noted; accepted once, and only with the tag of the destination in use.
ReceiveRetry(c, fits) ==
  LET o == [c EXCEPT !.heard = Count(@, "RETRY")]
  IN Transmit(IF fits /\ ~c.retried
              THEN Initialize([o EXCEPT !.retried = TRUE, !.dst = "retry"]) ELSE o)

\* In the first flight only; the keys of INITIAL packets stay those of the old
\* version.  common: the server offers a version the client has.
ReceiveNegotiation(c, common) ==
  LET o == [c EXCEPT !.heard = Count(@, "VERSION_NEGOTIATION")]
  IN IF common THEN Transmit([o EXCEPT !.negotiated = TRUE, !.stale = TRUE])
     ELSE [o EXCEPT !.closeEvent = TRUE, !.state = "terminated"]
====
