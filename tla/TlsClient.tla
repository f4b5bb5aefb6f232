---- MODULE TlsClient ----
(***************************************************************************)
(* The client side of TLS 1.3 as the mapper drives it: one tls.Context as  *)
(* a record, and what the calls of the mapper and the messages of the      *)
(* server make of it.  A message is its type.  The messages are well       *)
(* formed, and the server's CertificateVerify and Finished cover what the  *)
(* server has sent, nothing the client put into the transcript on its own. *)
(***************************************************************************)
EXTENDS Naturals

\* Messages of the server, each in the epoch it belongs to.
HandshakeMessages == {"EE", "CR", "CERT", "CV", "FIN"}
TlsMessages == {"SH", "NST"} \cup HandshakeMessages

TlsStates == {"start", "expectSH", "expectEE", "expectCert", "expectCV",
              "expectFin", "gotFin", "post", "ticketDone"}

\* Keys other than those of INITIAL packets, which are always there.
Keys == {"zeroSend", "hsRecv", "hsSend", "oneRecv", "oneSend"}

Nothing == [m \in TlsMessages |-> 0]

(***************************************************************************)
(* hellos: how often a ClientHello was built; psk: _key_schedule_psk is    *)
(* there; resumed: _session_resumed; schedule: key_schedule is there; fit: *)
(* the handshake keys are those the server has; mixed: the transcript      *)
(* holds a message of the client the server does not expect there; encKey  *)
(* and nextKey: _enc_key and tempNextEncKey are there; updated:            *)
(* updated_key_schedule; extracted: a ticket waits for the transcript to   *)
(* be complete; heard: peerResponse; buffer: messages written and not yet  *)
(* passed to the CRYPTO streams, with their epochs.                        *)
(***************************************************************************)
FreshTls ==
  [state |-> "start", hellos |-> 0, psk |-> FALSE, resumed |-> FALSE,
   schedule |-> FALSE, fit |-> FALSE, mixed |-> FALSE, encKey |-> FALSE,
   nextKey |-> FALSE, updated |-> FALSE, certReq |-> FALSE, extracted |-> FALSE,
   heard |-> Nothing, keys |-> {}, buffer |-> {}]

TlsContexts ==
  [state : TlsStates, hellos : Nat, psk : BOOLEAN, resumed : BOOLEAN,
   schedule : BOOLEAN, fit : BOOLEAN, mixed : BOOLEAN, encKey : BOOLEAN,
   nextKey : BOOLEAN, updated : BOOLEAN, certReq : BOOLEAN, extracted : BOOLEAN,
   heard : [TlsMessages -> Nat], keys : SUBSET Keys,
   buffer : SUBSET ({"initial", "zero", "handshake"} \X {"CH", "CERT", "CV", "FIN"})]

\* _client_send_hello: the ticket's key schedule is installed by the first
\* ClientHello of the context only.
SendHello(t, ticket) ==
  LET first == ticket /\ t.hellos = 0 IN
  [t EXCEPT !.state = "expectSH",
            !.hellos = @ + 1,
            !.psk = @ \/ first,
            !.keys = IF first THEN @ \cup {"zeroSend"} ELSE @,
            !.buffer = @ \cup {<<"initial", "CH">>}]

\* What a state accepts.
Expected(state) ==
  CASE state = "expectSH"   -> {"SH"}
    [] state = "expectEE"   -> {"EE"}
    [] state = "expectCert" -> {"CR", "CERT"}
    [] state = "expectCV"   -> {"CV"}
    [] state = "expectFin"  -> {"FIN"}
    [] state \in {"gotFin", "post"} -> {"NST"}
    [] OTHER -> {}

\* handle_message ends in its assertion: no branch has read the message.
Breaks(t, m) ==
  \/ t.state \in {"start", "ticketDone"}
  \/ t.state = "gotFin" /\ m # "NST"

\* handle_message raises an Alert.  psk: the ServerHello takes up the ticket.
Alerts(t, m, psk) ==
  /\ ~Breaks(t, m)
  /\ \/ m \notin Expected(t.state)
     \/ m = "SH" /\ psk /\ ~t.psk
     \/ m \in {"CV", "FIN"} /\ t.mixed

\* _client_handle_hello.  last: the server answers the last ClientHello; only
\* then does it hold the key share the client has kept.
TakeHello(t, last, psk) ==
  [t EXCEPT !.state = "expectEE",
            !.psk = FALSE,
            !.resumed = @ \/ psk,
            !.schedule = TRUE,
            !.fit = last /\ (psk => t.hellos = 1),
            !.mixed = FALSE,
            !.keys = @ \cup {"hsRecv"}]

TakeEncryptedExtensions(t) ==
  [t EXCEPT !.state = IF t.resumed THEN "expectFin" ELSE "expectCert",
            !.encKey = TRUE,
            !.keys = @ \cup {"hsSend"}]

TakeFinished(t) ==
  [t EXCEPT !.state = "gotFin",
            !.nextKey = TRUE,
            !.updated = TRUE,
            !.keys = @ \cup {"oneRecv"}]

\* The message handlers; a ticket that comes before the client's own Finished
\* is kept until then.
Take(t, m, last, psk) ==
  CASE m = "SH"   -> TakeHello(t, last, psk)
    [] m = "EE"   -> TakeEncryptedExtensions(t)
    [] m = "CR"   -> [t EXCEPT !.certReq = TRUE]
    [] m = "CERT" -> [t EXCEPT !.state = "expectCV"]
    [] m = "CV"   -> [t EXCEPT !.state = "expectFin"]
    [] m = "FIN"  -> TakeFinished(t)
    [] m = "NST"  -> [t EXCEPT !.extracted = @ \/ t.state = "gotFin"]

\* clientSendFinished is past its first exception: the Finished is written.
FinishedIsWritten(t) == t.schedule /\ t.encKey
\* ... and past its second: the 1-RTT key is there to be installed.
FinishedIsSent(t) == FinishedIsWritten(t) /\ t.nextKey

\* Mutant: the 1-RTT key is installed before the server's Finished is there.
SendFinishedEarly(t, epoch, keep) ==
  IF ~FinishedIsWritten(t) THEN t
  ELSE [t EXCEPT !.buffer = @ \cup {<<epoch, "FIN">>}, !.mixed = TRUE,
                 !.keys = @ \cup {"oneSend"}]

\* clientSendFinished.  A Finished that is written too early stays in the
\* buffer, and in the transcript.  keep: tickets are asked for.
SendFinished(t, epoch, keep) ==
  IF ~FinishedIsWritten(t) THEN t
  ELSE LET w == [t EXCEPT !.buffer = @ \cup {<<epoch, "FIN">>},
                          !.mixed = TRUE,
                          !.encKey = t.nextKey]
       IN IF ~t.nextKey THEN w
          ELSE [w EXCEPT !.keys = @ \cup {"oneSend"},
                         !.state = IF t.extracted /\ keep THEN "ticketDone" ELSE "post",
                         !.extracted = FALSE]

\* clientSendCertificate, for the three kinds of certificate, and
\* clientSendCertificateVerify, which does not wait for the server's Finished.
WriteOwn(t, m) ==
  [t EXCEPT !.buffer = @ \cup {<<"handshake", m>>}, !.mixed = TRUE]
CanSendCertificate(t) == t.updated
CanSendVerify(t) == t.certReq /\ t.schedule
====
