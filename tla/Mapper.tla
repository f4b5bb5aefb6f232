---- MODULE Mapper ----
(***************************************************************************)
(* The mapper and one server: fuzzIn runs one letter of a word, waits for  *)
(* the server's packets and getResponse turns what was heard into the      *)
(* answer.  The server is anything that can only use keys it can have: it  *)
(* may answer late, again, out of order, or never.                         *)
(***************************************************************************)
EXTENDS Handshake

CONSTANTS
  Letters,      \* the letters words are made of
  TicketPath,   \* the mapper was given a file for session tickets
  MaxLetters,   \* letters in a word
  MaxExtra,     \* packets of the server that do not move the handshake on
  Strays        \* TLS messages the server may send out of their place

VARIABLES
  target,       \* the server under test, as far as fuzzIn and getResponse tell it apart
  conn,         \* the QuicConnection
  phase,        \* "idle", "grace" before the check of a close, "wait", "over"
  letter,       \* the letter being run
  answer,       \* the answer to the last letter
  zrtt,         \* ableSend0RTTState
  zeroPings,    \* how often 0rttPing is in zeroRTTInput
  deaf,         \* protocol.isLostResponse: datagrams are dropped
  lostBefore,   \* isLostResponseBefore
  included,     \* isIncludeRetryToken
  idsWritten,   \* writeNCID
  canLeave,     \* ableToDisconnect
  ticket,       \* the ticket this mapper has loaded
  file,         \* the ticket file is there
  letters, extra,
  seen,         \* TLS messages that reached this connection,
  taken,        \* those of them its TLS context did not refuse,
  told          \* and those the answers have named

mapperVars == <<zrtt, zeroPings, deaf, lostBefore, included, idsWritten, canLeave, ticket, file>>
historyVars == <<letters, extra, seen, taken, told>>
vars == <<target, conn, phase, letter, answer, mapperVars, historyVars>>

InitialLetters == {"initHello", "initHello-l", "initPing", "initClose", "initMalformed"}
ZeroLetters == {"zeroPing", "zeroClose", "zeroFin", "zeroMalformed", "zeroAck"}
HandshakeLetters == {"hndPing", "hndClose", "hndFin", "hndFin-l", "hndCert", "hndCertVer", "hndMalformed"}
ConfigLetters == {"includeToken", "includeTokenOld", "destOriginal", "destInitial", "disconnect", "wait"}
OtherLetters == {"norClose", "onePing", "newIds"}
AllLetters == InitialLetters \cup ZeroLetters \cup HandshakeLetters \cup ConfigLetters \cup OtherLetters

ASSUME MapperAssumption ==
  /\ Letters \subseteq AllLetters
  /\ TicketPath \in BOOLEAN /\ MaxLetters \in Nat /\ MaxExtra \in Nat /\ Strays \subseteq TlsMessages

\* MSQUIC and MVFST are not asked whether they still live; MVFST is spared some letters.
Targets == {"msquic", "mvfst", "other"}
Spared == {"initPing", "hndPing", "zeroPing", "destOriginal"}

LostLetters == {"initHello-l", "hndFin-l"}
CloseLetters == {"initClose", "zeroClose", "hndClose", "norClose"}
PingLetters == {"initPing", "hndPing", "onePing"}

Outputs == Responses \cup {"PingACK", "<ConAct>", "<ConClosed>", ""}

TypeOK ==
  /\ target \in Targets
  /\ conn.tls \in TlsContexts
  /\ conn.state \in {"first", "connected"} \cup EndStates
  /\ conn.epoch \in Epochs \cup {"none"} /\ conn.dst \in {"orig", "retry", "server"}
  /\ conn.heard \in [Responses -> Nat]
  /\ phase \in {"idle", "grace", "wait"} /\ letter \in AllLetters \cup {"none"}
  /\ answer \subseteq Outputs
  /\ zrtt \in {"notReady", "ready", "tooLate"} /\ zeroPings \in 0..MaxLetters
  /\ \A f \in {deaf, lostBefore, included, idsWritten, canLeave, ticket, file} : f \in BOOLEAN
  /\ \A h \in {seen, taken, told} : h \in [TlsMessages -> Nat]

\* A new Mapper that has been started and initialized; it loads the ticket.
Start ==
  /\ conn' = FreshConnection
  /\ zrtt' = "notReady" /\ zeroPings' = 0 /\ deaf' = FALSE /\ lostBefore' = FALSE
  /\ included' = FALSE /\ idsWritten' = FALSE /\ canLeave' = FALSE /\ ticket' = file
  /\ seen' = Nothing /\ taken' = Nothing /\ told' = Nothing

Init ==
  /\ target \in Targets
  /\ conn = FreshConnection
  /\ phase = "idle" /\ letter = "none" /\ answer = {}
  /\ zrtt = "notReady" /\ zeroPings = 0 /\ deaf = FALSE /\ lostBefore = FALSE
  /\ included = FALSE /\ idsWritten = FALSE /\ canLeave = FALSE
  /\ file \in {FALSE, TicketPath} /\ ticket = file
  /\ letters = 0 /\ extra = 0
  /\ seen = Nothing /\ taken = Nothing /\ told = Nothing

(***************************************************************************)
(* Letters.                                                                *)
(***************************************************************************)
\* A letter calls a method of the connection, and transmits unless that raises.
Probing(e) == IF ProbeRaises(conn, e) THEN Probe(conn, e) ELSE Transmit(Probe(conn, e))
Closing(e) == IF CloseRaises(conn, e) THEN Close(conn, e) ELSE Transmit(Close(conn, e))
Finishing(e) ==
  IF FinishedIsSent(conn.tls) THEN Transmit(Finish(conn, e, TicketPath))
                              ELSE Finish(conn, e, TicketPath)

SendInitial(l) ==
  CASE l \in {"initHello", "initHello-l"} -> Transmit(Hello(conn, ticket))
    [] l = "initPing" -> Probing("initial")
    [] l = "initClose" -> Closing("initial")
    [] l = "initMalformed" -> TransmitMalformed(conn, "initial")

SendZero(l) ==
  CASE l = "zeroPing" -> Probing("zero")
    [] l = "zeroClose" -> Closing("zero")
    [] l = "zeroFin" -> Finishing("zero")
    [] l = "zeroMalformed" -> TransmitMalformed(conn, "zero")
    [] l = "zeroAck" -> Transmit([conn EXCEPT !.epoch = "zero"])

SendHandshake(l) ==
  CASE l = "hndPing" -> Probing("handshake")
    [] l = "hndClose" -> Closing("handshake")
    [] l \in {"hndFin", "hndFin-l"} -> Finishing("handshake")
    [] l = "hndCert" -> IF CanSendCertificate(conn.tls) THEN Transmit(Certificate(conn)) ELSE Certificate(conn)
    [] l = "hndCertVer" -> IF CanSendVerify(conn.tls) THEN Transmit(Verify(conn)) ELSE conn
    [] l = "hndMalformed" -> TransmitMalformed(conn, "handshake")

SendOther(l) ==
  CASE l = "onePing" -> Probing("one")
    [] l = "norClose" -> Closing("none")
    [] l = "newIds" -> IF conn.complete /\ ~idsWritten THEN Transmit(conn)
                       ELSE [conn EXCEPT !.error = TRUE]

\* The dispatch of fuzzIn.
Send(l) ==
  CASE l \in InitialLetters -> SendInitial(l)
    [] l \in ZeroLetters -> SendZero(l)
    [] l \in HandshakeLetters -> SendHandshake(l)
    [] OTHER -> SendOther(l)

\* includeRetryToken, in both forms, and changeDestinationConnectionID.
Configure(l) ==
  CASE l = "includeToken" /\ conn.retried /\ ~included -> Initialize(conn)
    [] l = "destOriginal" -> ChangeDestination(conn, "orig")
    [] l = "destInitial" -> ChangeDestination(conn, "server")
    [] OTHER -> conn

\* save_session_ticket and setAbleSend0rttState.
SaveTicket(saved) ==
  /\ file' = (file \/ (saved /\ TicketPath))
  /\ canLeave' = (canLeave \/ (saved /\ TicketPath))
TooLate(saved) == IF saved /\ TicketPath /\ zrtt = "ready" THEN "tooLate" ELSE zrtt

\* A letter that is dispatched to its method.
RunLetter(l) ==
  LET saves == l \in {"hndFin", "hndFin-l", "zeroFin"} /\ FinishedIsSent(conn.tls) /\ conn.tls.extracted
      runs == target = "mvfst" => l \notin Spared
      sends == runs /\ l \notin ConfigLetters /\ (l \in ZeroLetters => zrtt = "ready")
  IN /\ deaf' = (sends /\ (deaf \/ l \in LostLetters))
     /\ conn' = IF sends THEN Send(l) ELSE IF runs THEN Configure(l) ELSE conn
     /\ SaveTicket(saves)
     /\ zrtt' = IF l \in {"initHello", "initHello-l"} /\ TicketPath /\ zrtt = "notReady"
                THEN "ready" ELSE TooLate(saves)
     /\ zeroPings' = IF sends /\ l = "zeroPing" THEN zeroPings + 1 ELSE zeroPings
     /\ included' = (included \/ (l \in {"includeToken", "includeTokenOld"} /\ conn.retried))
     /\ idsWritten' = (idsWritten \/ (l = "newIds" /\ conn.complete))
     /\ phase' = CASE ~sends -> "idle"
                   [] sends /\ l \in CloseLetters /\ ~conn'.error /\ target = "other" -> "grace"
                   [] OTHER -> "wait"
     /\ answer' = {}
     /\ UNCHANGED <<lostBefore, ticket, seen, taken, told>>

\* fuzzIn skips INITIAL letters that a server would take for a new connection.
Skipped(l) == l \in InitialLetters /\ conn.dst = "orig" /\ conn.confirmed

\* The start of fuzzIn.  The bound on words leaves one letter to a connection
\* that has ended.
NextLetter(l) ==
  /\ phase = "idle" /\ letters < MaxLetters
  /\ letters' = IF Ended(conn) THEN MaxLetters ELSE letters + 1
  /\ letter' = l
  /\ UNCHANGED <<target, extra>>
  /\ CASE lostBefore ->
            /\ phase' = IF l = "wait" THEN "wait" ELSE "idle"
            /\ lostBefore' = (l # "wait")
            /\ answer' = {}
            /\ UNCHANGED <<conn, zrtt, zeroPings, deaf, included, idsWritten, canLeave,
                           ticket, file, seen, taken, told>>
       [] ~lostBefore /\ (Ended(conn) \/ Skipped(l)) ->
            /\ answer' = IF Ended(conn) THEN {"<ConClosed>"} ELSE {}
            /\ deaf' = (deaf \/ l \in LostLetters)
            /\ UNCHANGED <<conn, phase, zrtt, zeroPings, lostBefore, included, idsWritten,
                           canLeave, ticket, file, seen, taken, told>>
       [] ~lostBefore /\ ~Ended(conn) /\ ~Skipped(l) /\ l = "disconnect" /\ canLeave ->
            Start /\ answer' = {} /\ UNCHANGED <<phase, file>>
       [] OTHER -> RunLetter(l)

\* checkServerClose: a probe asks whether the server still lives.
CheckServerClose ==
  /\ phase = "grace" /\ phase' = "wait"
  /\ conn' = Transmit(Probe(conn, "none"))
  /\ UNCHANGED <<target, letter, answer, mapperVars, historyVars>>

(***************************************************************************)
(* Packets of the server, taken while the mapper waits.                    *)
(***************************************************************************)
Listening ==
  /\ phase \in {"grace", "wait"} /\ ~Ended(conn) /\ ~deaf
  /\ conn.knocked # {}
  /\ UNCHANGED <<target, phase, letter, answer, zeroPings, deaf, lostBefore, included,
                 idsWritten, ticket, letters, told>>

\* The bound on what would otherwise go on for ever.
Extra(moves) ==
  IF moves THEN UNCHANGED extra ELSE extra < MaxExtra /\ extra' = extra + 1

\* The keys a packet in an epoch needs at both ends.
Readable(e) ==
  CASE e = "initial"   -> ~conn.stale
    [] e = "handshake" -> "hsRecv" \in conn.tls.keys /\ conn.tls.fit
    [] e = "one"       -> "oneRecv" \in conn.tls.keys

MessageEpoch(m) == CASE m = "SH" -> "initial" [] m = "NST" -> "one" [] OTHER -> "handshake"

\* A CRYPTO frame that completes one message.  A ServerHello may answer an
\* earlier ClientHello, and it may take up a ticket that was offered.
ServerMessage(m, last, psk) ==
  LET e == MessageEpoch(m)
      ok == ~Breaks(conn.tls, m) /\ ~Alerts(conn.tls, m, psk)
      saves == ok /\ m = "NST" /\ conn.tls.state = "post"
  IN /\ Listening /\ Readable(e)
     /\ m \in Strays \/ ok \/ m \in Expected(conn.tls.state)
     /\ m # "SH" => last /\ ~psk
     /\ psk => ticket
     /\ IF last THEN conn.tls.hellos > 0 ELSE conn.tls.hellos > 1 \/ conn.retried
     /\ conn' = ReceiveTls(conn, m, e, last, psk)
     /\ Extra(conn'.tls.state # conn.tls.state)
     /\ seen' = Count(seen, m)
     /\ taken' = IF ok THEN Count(taken, m) ELSE taken
     /\ zrtt' = TooLate(saves)
     /\ SaveTicket(saves)

ServerFrame ==
  /\ Listening
  /\ \/ Readable("one") /\ conn' \in {ReceiveDone(conn), ReceiveToken(conn)}
     \/ \E e \in conn.pings : Readable(e) /\ conn' = ReceivePingAck(conn, e)
     \/ \E e \in Epochs \ {"zero"} : Readable(e) /\ conn' = ReceiveClose(conn)
     \/ \E fits \in {FALSE, conn.dst \in conn.knocked} : conn' = ReceiveRetry(conn, fits)
     \/ /\ conn.state = "first" /\ ~conn.negotiated
        /\ \E common \in BOOLEAN : conn' = ReceiveNegotiation(conn, common)
  /\ Extra(Ended(conn') \/ conn'.pings # conn.pings \/ conn'.confirmed # conn.confirmed)
  /\ UNCHANGED <<zrtt, canLeave, file, seen, taken>>

(***************************************************************************)
(* getResponse.                                                            *)
(***************************************************************************)
PingOutput ==
  IF target = "msquic" THEN {}
  ELSE IF letter \in CloseLetters THEN {"<ConAct>"}
  ELSE IF letter \in PingLetters \/ zeroPings > 0 THEN {"PingACK"} ELSE {}

Heard(m) == conn.heard[m] > 0
NothingHappened == (\A m \in Responses : ~Heard(m)) /\ ~conn.error

\* MSQUIC is taken to have closed after every letter that closes.
TakenAsClosed == NothingHappened \/ target = "msquic"

\* closeMapperConnection is called.
GivesUp == Heard("CONNECTION_CLOSE") \/ (TakenAsClosed /\ letter \in CloseLetters)

\* resetCloseEvent is called.
Reopens ==
  target # "msquic" /\ (Heard("RETRY") \/ (letter \in CloseLetters /\ Heard("PING.ACKED")))

\* Acknowledgements of the PINGs of 0rttPing, told in the answers of other letters.
ZeroPingsLeft ==
  LET acked == conn.heard["PING.ACKED"] IN
  IF target = "msquic" \/ letter \in CloseLetters \cup PingLetters THEN zeroPings
  ELSE IF acked < zeroPings THEN zeroPings - acked ELSE 0

\* MSQUIC's Retry packets are told until the first one has been.
GetResponse ==
  /\ phase = "wait" /\ phase' = "idle"
  /\ \E untold \in SUBSET (IF target = "msquic" THEN {"RETRY"} ELSE {}) :
       answer' = {m \in Responses \ {"PING.ACKED"} : Heard(m) /\ m \notin untold}
                 \cup (IF Heard("PING.ACKED") THEN PingOutput ELSE {})
                 \cup (IF ~TakenAsClosed THEN {}
                       ELSE IF letter \in CloseLetters THEN {"<ConClosed>"} ELSE {""})
  /\ conn' = [conn EXCEPT
       !.state = IF GivesUp THEN "closing" ELSE @,
       !.closeEvent = @ /\ ~Reopens,
       !.heard = Silence, !.error = FALSE]
  /\ zeroPings' = ZeroPingsLeft
  /\ told' = [m \in TlsMessages |-> told[m] + conn.heard[m]]
  /\ lostBefore' = (lostBefore \/ letter \in LostLetters)
  /\ deaf' = FALSE /\ letter' = "none"
  /\ UNCHANGED <<target, zrtt, included, idsWritten, canLeave, ticket, file,
                 letters, extra, seen, taken>>

(***************************************************************************)
(* Properties.                                                             *)
(***************************************************************************)
\* Keys come in the order of the handshake: 1-RTT packets are sent only when
\* they can be received, and both only after the HANDSHAKE keys.  The letters
\* may restart the handshake or send a Finished at any point of it.
KeyOrder ==
  LET keys == conn.tls.keys IN
  /\ "oneSend" \in keys => "oneRecv" \in keys /\ conn.complete
  /\ "oneRecv" \in keys => "hsSend" \in keys
  /\ "hsSend" \in keys => "hsRecv" \in keys
  /\ "zeroSend" \in keys => conn.tls.hellos > 0

\* Every TLS message that was not refused is named in an answer or waits to be,
\* and none more often than it came: nothing is lost between the TLS context,
\* the connection and getResponse, and nothing is repeated.
AnswersMatchMessages ==
  \A m \in TlsMessages :
    taken[m] <= told[m] + conn.heard[m] /\ told[m] + conn.heard[m] <= seen[m]

\* An answer that says the connection is closed is the last one the server has
\* a part in: nothing is sent or taken afterwards.
ClosedIsFinal ==
  answer \cap {"<ConClosed>", "CONNECTION_CLOSE"} # {} => Ended(conn)

\* The mapper gives a connection up only after its CONNECTION_CLOSE has left or
\* the server's has come.  Of MSQUIC it also does when the CONNECTION_CLOSE could
\* not be written at all, for want of a key.
GivesUpAfterClose ==
  [][~Ended(conn) /\ conn'.state = "closing" =>
       \/ conn.closeSent \/ Heard("CONNECTION_CLOSE")
       \/ target = "msquic" /\ letter \in CloseLetters /\ conn.error]_vars

\* Between letters a connection that still works has no close event.
ActiveHasNoCloseEvent == phase = "idle" /\ ~Ended(conn) => ~conn.closeEvent

\* 0-RTT packets are no longer sent once the handshake is complete and
\* HANDSHAKE_DONE has come.
ZeroRttStops == conn.confirmed /\ conn.complete => zrtt # "ready"

WordEnds == phase = "idle" /\ letters = MaxLetters /\ UNCHANGED vars

Next ==
  \/ \E l \in Letters : NextLetter(l)
  \/ CheckServerClose
  \/ \E m \in TlsMessages, last, psk \in BOOLEAN : ServerMessage(m, last, psk)
  \/ ServerFrame
  \/ GetResponse
  \/ WordEnds

Spec == Init /\ [][Next]_vars
====
