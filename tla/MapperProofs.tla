---- MODULE MapperProofs ----
(***************************************************************************)
(* Proofs about the mapper's letters, for all words and all servers: the   *)
(* type invariant, the order of the keys, the account of the TLS messages  *)
(* in the answers, and that a connection is given up only after a close.   *)
(***************************************************************************)
EXTENDS Mapper, TLAPS

\* The fields of a connection.
Flights == SUBSET ({"initial", "zero", "handshake"} \X {"CH", "CERT", "CV", "FIN"})
Connections ==
  [state : {"first", "connected"} \cup EndStates, tls : TlsContexts,
   streams : Flights, epoch : Epochs \cup {"none"},
   closeEvent : BOOLEAN, closePending : BOOLEAN, closeSent : BOOLEAN,
   probe : BOOLEAN, pings : SUBSET Epochs, acks : SUBSET Epochs, handshakeSent : BOOLEAN,
   complete : BOOLEAN, confirmed : BOOLEAN, gotHello : BOOLEAN, retried : BOOLEAN,
   negotiated : BOOLEAN, stale : BOOLEAN, dst : {"orig", "retry", "server"}, fixed : BOOLEAN,
   knocked : SUBSET {"orig", "retry", "server"}, heard : [Responses -> Nat], error : BOOLEAN]

\* The keys a TLS context has, against the state its handlers are in.
KeysFollow(t) ==
  /\ "oneSend" \in t.keys => "oneRecv" \in t.keys
  /\ "oneRecv" \in t.keys => "hsSend" \in t.keys
  /\ "hsSend" \in t.keys => "hsRecv" \in t.keys
  /\ "zeroSend" \in t.keys => t.hellos > 0
  /\ t.nextKey => "oneRecv" \in t.keys
  /\ t.state = "expectEE" => "hsRecv" \in t.keys
  /\ t.state \in {"expectCert", "expectCV", "expectFin"} => "hsSend" \in t.keys

(***************************************************************************)
(* The TLS context.                                                        *)
(***************************************************************************)
LEMMA FreshTlsType == FreshTls \in TlsContexts /\ KeysFollow(FreshTls)
  BY DEF FreshTls, TlsContexts, TlsStates, Nothing, KeysFollow

LEMMA SendHelloType ==
  ASSUME NEW t \in TlsContexts, KeysFollow(t), NEW t0 \in BOOLEAN
  PROVE  /\ SendHello(t, t0) \in TlsContexts
         /\ KeysFollow(SendHello(t, t0))
         /\ SendHello(t, t0).heard = t.heard
         /\ "oneSend" \in SendHello(t, t0).keys => "oneSend" \in t.keys
  <1>0. t.buffer \cup {<<"initial", "CH">>} \in
          SUBSET ({"initial", "zero", "handshake"} \X {"CH", "CERT", "CV", "FIN"})
    BY DEF TlsContexts
  <1> DEFINE first == t0 /\ t.hellos = 0
  <1>5. (t.psk \/ first) \in BOOLEAN
    OBVIOUS
  <1>6. (IF first THEN t.keys \cup {"zeroSend"} ELSE t.keys) \in SUBSET Keys
    BY DEF TlsContexts, Keys
  <1>7. SendHello(t, t0) =
          [t EXCEPT !.state = "expectSH", !.hellos = t.hellos + 1, !.psk = t.psk \/ first,
                    !.keys = IF first THEN t.keys \cup {"zeroSend"} ELSE t.keys,
                    !.buffer = t.buffer \cup {<<"initial", "CH">>}]
    BY DEF SendHello
  <1>8. t.hellos + 1 \in Nat
    BY DEF TlsContexts
  <1> HIDE DEF first
  <1>1. SendHello(t, t0) \in TlsContexts
    BY <1>0, <1>5, <1>6, <1>7, <1>8 DEF TlsContexts, TlsStates
  <1>2. SendHello(t, t0).heard = t.heard
    BY DEF SendHello, TlsContexts
  <1>3. "oneSend" \in SendHello(t, t0).keys => "oneSend" \in t.keys
    BY DEF SendHello, TlsContexts
  <1>4. KeysFollow(SendHello(t, t0))
    BY DEF SendHello, TlsContexts, KeysFollow
  <1> QED BY <1>1, <1>2, <1>3, <1>4

LEMMA TakeHelloType ==
  ASSUME NEW t \in TlsContexts, KeysFollow(t), NEW last \in BOOLEAN, NEW psk \in BOOLEAN
  PROVE  /\ TakeHello(t, last, psk) \in TlsContexts
         /\ KeysFollow(TakeHello(t, last, psk))
         /\ TakeHello(t, last, psk).heard = t.heard
         /\ "oneSend" \in TakeHello(t, last, psk).keys => "oneSend" \in t.keys
  <1> DEFINE fits == last /\ (psk => t.hellos = 1)
             again == t.resumed \/ psk
  <1>1. again \in BOOLEAN /\ fits \in BOOLEAN
    OBVIOUS
  <1>2. t.keys \cup {"hsRecv"} \in SUBSET Keys
    BY DEF TlsContexts, Keys
  <1>3. TakeHello(t, last, psk) =
          [t EXCEPT !.state = "expectEE", !.psk = FALSE, !.resumed = again,
                    !.schedule = TRUE, !.fit = fits, !.mixed = FALSE,
                    !.keys = t.keys \cup {"hsRecv"}]
    BY DEF TakeHello
  <1> HIDE DEF fits, again
  <1>4. TakeHello(t, last, psk) \in TlsContexts
    BY <1>1, <1>2, <1>3 DEF TlsContexts, TlsStates
  <1>5. /\ TakeHello(t, last, psk).heard = t.heard
        /\ "oneSend" \in TakeHello(t, last, psk).keys => "oneSend" \in t.keys
    BY <1>3 DEF TlsContexts
  <1>6. KeysFollow(TakeHello(t, last, psk))
    BY <1>3 DEF TlsContexts, KeysFollow
  <1> QED  BY <1>4, <1>5, <1>6

LEMMA TakeType ==
  ASSUME NEW t \in TlsContexts, KeysFollow(t), NEW m \in TlsMessages, m \in Expected(t.state),
         NEW last \in BOOLEAN, NEW psk \in BOOLEAN
  PROVE  /\ Take(t, m, last, psk) \in TlsContexts
         /\ KeysFollow(Take(t, m, last, psk))
         /\ Take(t, m, last, psk).heard = t.heard
         /\ "oneSend" \in Take(t, m, last, psk).keys => "oneSend" \in t.keys
  <1>1. CASE m = "SH"
    BY <1>1, TakeHelloType DEF Take
  <1>2. CASE m = "EE"
    <2>1. t.keys \cup {"hsSend"} \in SUBSET Keys
      BY DEF TlsContexts, Keys
    <2>2. t.state = "expectEE"
      BY <1>2 DEF Expected, TlsContexts, TlsStates
    <2> DEFINE next == IF t.resumed THEN "expectFin" ELSE "expectCert"
    <2>3. next \in {"expectFin", "expectCert"}
      OBVIOUS
    <2>4. Take(t, m, last, psk) =
            [t EXCEPT !.state = next, !.encKey = TRUE, !.keys = t.keys \cup {"hsSend"}]
      BY <1>2 DEF Take, TakeEncryptedExtensions
    <2> HIDE DEF next
    <2>5. Take(t, m, last, psk) \in TlsContexts
      BY <2>1, <2>3, <2>4 DEF TlsContexts, TlsStates
    <2>6. /\ Take(t, m, last, psk).heard = t.heard
          /\ "oneSend" \in Take(t, m, last, psk).keys => "oneSend" \in t.keys
      BY <2>4 DEF TlsContexts
    <2>7. KeysFollow(Take(t, m, last, psk))
      BY <2>2, <2>3, <2>4 DEF TlsContexts, KeysFollow
    <2> QED  BY <2>5, <2>6, <2>7
  <1>3. CASE m = "FIN"
    <2>1. t.keys \cup {"oneRecv"} \in SUBSET Keys
      BY DEF TlsContexts, Keys
    <2>2. t.state = "expectFin"
      BY <1>3 DEF Expected, TlsContexts, TlsStates
    <2>3. Take(t, m, last, psk) =
            [t EXCEPT !.state = "gotFin", !.nextKey = TRUE, !.updated = TRUE,
                      !.keys = t.keys \cup {"oneRecv"}]
      BY <1>3 DEF Take, TakeFinished
    <2>4. Take(t, m, last, psk) \in TlsContexts
      BY <2>1, <2>3 DEF TlsContexts, TlsStates
    <2>5. /\ Take(t, m, last, psk).heard = t.heard
          /\ "oneSend" \in Take(t, m, last, psk).keys => "oneSend" \in t.keys
      BY <2>3 DEF TlsContexts
    <2>6. KeysFollow(Take(t, m, last, psk))
      BY <2>2, <2>3 DEF TlsContexts, KeysFollow
    <2> QED  BY <2>4, <2>5, <2>6
  <1>4. CASE m = "CR"
    <2>1. Take(t, m, last, psk) = [t EXCEPT !.certReq = TRUE]
      BY <1>4 DEF Take
    <2>2. Take(t, m, last, psk) \in TlsContexts
      BY <2>1 DEF TlsContexts
    <2> QED  BY <2>1, <2>2 DEF TlsContexts, KeysFollow
  <1>5. CASE m = "CERT"
    <2>1. t.state = "expectCert"
      BY <1>5 DEF Expected, TlsContexts, TlsStates
    <2>2. Take(t, m, last, psk) = [t EXCEPT !.state = "expectCV"]
      BY <1>5 DEF Take
    <2>3. Take(t, m, last, psk) \in TlsContexts
      BY <2>2 DEF TlsContexts, TlsStates
    <2> QED  BY <2>1, <2>2, <2>3 DEF TlsContexts, KeysFollow
  <1>6. CASE m = "CV"
    <2>1. t.state = "expectCV"
      BY <1>6 DEF Expected, TlsContexts, TlsStates
    <2>2. Take(t, m, last, psk) = [t EXCEPT !.state = "expectFin"]
      BY <1>6 DEF Take
    <2>3. Take(t, m, last, psk) \in TlsContexts
      BY <2>2 DEF TlsContexts, TlsStates
    <2> QED  BY <2>1, <2>2, <2>3 DEF TlsContexts, KeysFollow
  <1>7. CASE m = "NST"
    <2> DEFINE kept == t.extracted \/ t.state = "gotFin"
    <2>1. kept \in BOOLEAN
      OBVIOUS
    <2>2. Take(t, m, last, psk) = [t EXCEPT !.extracted = kept]
      BY <1>7 DEF Take
    <2> HIDE DEF kept
    <2>3. Take(t, m, last, psk) \in TlsContexts
      BY <2>1, <2>2 DEF TlsContexts
    <2> QED  BY <2>2, <2>3 DEF TlsContexts, KeysFollow
  <1> QED
    BY <1>1, <1>2, <1>3, <1>4, <1>5, <1>6, <1>7 DEF TlsMessages, HandshakeMessages

LEMMA SendFinishedType ==
  ASSUME NEW t \in TlsContexts, KeysFollow(t), NEW e \in {"zero", "handshake"},
         NEW keep \in BOOLEAN
  PROVE  /\ SendFinished(t, e, keep) \in TlsContexts
         /\ KeysFollow(SendFinished(t, e, keep))
         /\ SendFinished(t, e, keep).heard = t.heard
         /\ "oneSend" \in SendFinished(t, e, keep).keys
              => "oneSend" \in t.keys \/ FinishedIsSent(t)
  <1>0. t.buffer \cup {<<e, "FIN">>} \in
          SUBSET ({"initial", "zero", "handshake"} \X {"CH", "CERT", "CV", "FIN"})
    BY DEF TlsContexts
  <1>1. CASE ~FinishedIsWritten(t)
    BY <1>1 DEF SendFinished
  <1>2. CASE FinishedIsWritten(t) /\ ~t.nextKey
    <2>1. SendFinished(t, e, keep) =
            [t EXCEPT !.buffer = t.buffer \cup {<<e, "FIN">>}, !.mixed = TRUE,
                      !.encKey = t.nextKey]
      BY <1>2 DEF SendFinished
    <2>2. SendFinished(t, e, keep) \in TlsContexts
      BY <1>0, <2>1 DEF TlsContexts
    <2>3. KeysFollow(SendFinished(t, e, keep))
      BY <2>1 DEF TlsContexts, KeysFollow
    <2> QED  BY <2>1, <2>2, <2>3 DEF TlsContexts
  <1>3. CASE FinishedIsWritten(t) /\ t.nextKey
    <2> DEFINE next == IF t.extracted /\ keep THEN "ticketDone" ELSE "post"
    <2>1. next \in {"ticketDone", "post"}
      OBVIOUS
    <2>2. t.keys \cup {"oneSend"} \in SUBSET Keys
      BY DEF TlsContexts, Keys
    <2>3. SendFinished(t, e, keep) =
            [[t EXCEPT !.buffer = t.buffer \cup {<<e, "FIN">>}, !.mixed = TRUE,
                       !.encKey = t.nextKey]
               EXCEPT !.keys = t.keys \cup {"oneSend"}, !.state = next, !.extracted = FALSE]
      BY <1>3 DEF SendFinished, TlsContexts
    <2> HIDE DEF next
    <2>4. SendFinished(t, e, keep) \in TlsContexts
      BY <1>0, <2>1, <2>2, <2>3 DEF TlsContexts, TlsStates
    <2>5. KeysFollow(SendFinished(t, e, keep))
      BY <1>3, <2>1, <2>3 DEF TlsContexts, KeysFollow
    <2>6. FinishedIsSent(t)
      BY <1>3 DEF FinishedIsSent
    <2> QED  BY <2>3, <2>4, <2>5, <2>6 DEF TlsContexts
  <1> QED  BY <1>1, <1>2, <1>3

LEMMA WriteOwnType ==
  ASSUME NEW t \in TlsContexts, KeysFollow(t), NEW m \in {"CERT", "CV"}
  PROVE  /\ WriteOwn(t, m) \in TlsContexts
         /\ KeysFollow(WriteOwn(t, m))
         /\ WriteOwn(t, m).heard = t.heard
         /\ WriteOwn(t, m).keys = t.keys
  <1>0. t.buffer \cup {<<"handshake", m>>} \in
          SUBSET ({"initial", "zero", "handshake"} \X {"CH", "CERT", "CV", "FIN"})
    BY DEF TlsContexts
  <1>1. WriteOwn(t, m) \in TlsContexts
     BY <1>0 DEF WriteOwn, TlsContexts
  <1>2. KeysFollow(WriteOwn(t, m))
     BY DEF WriteOwn, TlsContexts, KeysFollow
  <1>3.   /\ WriteOwn(t, m).heard = t.heard
         /\ WriteOwn(t, m).keys = t.keys
     BY DEF WriteOwn, TlsContexts
  <1> QED BY <1>1, <1>2, <1>3

(***************************************************************************)
(* Sending.                                                                *)
(***************************************************************************)
\* Sending leaves the handshake and what was heard alone.
Kept(c, d) ==
  /\ d.tls = c.tls /\ d.state = c.state /\ d.complete = c.complete
  /\ d.heard = c.heard /\ d.closeEvent = c.closeEvent
  /\ c.closeSent => d.closeSent
  /\ c.error => d.error

LEMMA FreshConnectionType == FreshConnection \in Connections
  <1>1. Silence \in [Responses -> Nat]
    BY DEF Silence
  <1>2. {} \in Flights
    BY DEF Flights
  <1>3. FreshTls \in TlsContexts
    BY FreshTlsType
  <1> QED  BY <1>1, <1>2, <1>3 DEF FreshConnection, Connections, EndStates, Epochs

LEMMA WrittenType ==
  ASSUME NEW c \in Connections, NEW known \in SUBSET {"orig", "retry", "server"},
         NEW shaken \in BOOLEAN
  PROVE  [c EXCEPT !.knocked = known, !.handshakeSent = shaken, !.epoch = "none"] \in Connections
  BY DEF Connections

LEMMA WrittenKeeps ==
  ASSUME NEW c \in Connections, NEW to
  PROVE  /\ Written(c, to) \in Connections
         /\ Kept(c, Written(c, to))
         /\ Written(c, to).closePending = c.closePending
         /\ Written(c, to).closeSent = c.closeSent
         /\ Written(c, to).streams = c.streams
         /\ Written(c, to).pings = c.pings
         /\ Written(c, to).acks = c.acks
         /\ Written(c, to).probe = c.probe
  <1> DEFINE known == IF "initial" \in to THEN c.knocked \cup {c.dst} ELSE c.knocked
             shaken == c.handshakeSent \/ "handshake" \in to
  <1>1. known \in SUBSET {"orig", "retry", "server"}
    BY DEF Connections
  <1>2. shaken \in BOOLEAN
    OBVIOUS
  <1>3. Written(c, to) = [c EXCEPT !.knocked = known, !.handshakeSent = shaken, !.epoch = "none"]
    BY DEF Written
  <1> HIDE DEF known, shaken
  <1>4. Written(c, to) \in Connections
    <2>1. [c EXCEPT !.knocked = known, !.handshakeSent = shaken, !.epoch = "none"] \in Connections
      BY <1>1, <1>2, WrittenType
    <2> QED  BY <1>3, <2>1
  <1> QED  BY <1>3, <1>4 DEF Connections, Kept

LEMMA TransmitCloseKeeps ==
  ASSUME NEW c \in Connections
  PROVE  /\ TransmitClose(c) \in Connections
         /\ Kept(c, TransmitClose(c))
         /\ ~TransmitClose(c).closePending
         /\ CloseEpochs(c) # {} => TransmitClose(c).closeSent
  <1> DEFINE w == Written(c, CloseEpochs(c))
             sent == w.closeSent \/ CloseEpochs(c) # {}
  <1>1. /\ w \in Connections
        /\ Kept(c, w)
        /\ w.closeSent = c.closeSent
    BY WrittenKeeps
  <1>2. TransmitClose(c) = [w EXCEPT !.closePending = FALSE, !.closeSent = sent]
    BY DEF TransmitClose
  <1>3. sent \in BOOLEAN /\ (CloseEpochs(c) # {} => sent) /\ (w.closeSent => sent)
    OBVIOUS
  <1> HIDE DEF w, sent
  <1>4. TransmitClose(c) \in Connections
    BY <1>1, <1>2, <1>3 DEF Connections
  <1> QED  BY <1>1, <1>2, <1>3, <1>4 DEF Connections, Kept

LEMMA FramesType ==
  ASSUME NEW w \in Connections, NEW unsent \in Flights, NEW owed \in SUBSET Epochs,
         NEW due \in BOOLEAN, NEW pings \in SUBSET Epochs
  PROVE  [w EXCEPT !.streams = unsent, !.acks = owed, !.probe = due, !.pings = pings]
           \in Connections
  BY DEF Connections

LEMMA TransmitFramesKeeps ==
  ASSUME NEW c \in Connections
  PROVE  /\ TransmitFrames(c) \in Connections
         /\ Kept(c, TransmitFrames(c))
         /\ TransmitFrames(c).closePending = c.closePending
  <1> DEFINE open == OpenEpochs(c)
             acked == c.acks \cap (Early \cup IF c.complete THEN {"one"} ELSE {}) \cap open
             crypto == {e \in open : CryptoIn(c, e)}
             probe == ProbeEpochs(c)
             w == Written(c, acked \cup crypto \cup probe)
             unsent == {d \in w.streams : d[1] \notin open}
             due == w.probe /\ probe = {} /\ crypto \cap Early = {}
             owed == w.acks \ acked
             pings == w.pings \cup {IF e = "zero" THEN "one" ELSE e : e \in probe}
  <1>1. /\ w \in Connections
        /\ Kept(c, w)
        /\ w.closePending = c.closePending
    BY WrittenKeeps
  <1>2. TransmitFrames(c) = [w EXCEPT !.streams = unsent, !.acks = owed,
                                      !.probe = due, !.pings = pings]
    BY DEF TransmitFrames
  <1>3. open \subseteq Epochs
    BY DEF OpenEpochs
  <1>4. probe \subseteq Epochs
    <2> DEFINE early == {e \in Early \cap open : CryptoIn(c, e)}
               before == IF c.epoch = "initial" THEN {"initial"} ELSE Early
               rest == IF "zero" \in open THEN {"zero"} ELSE {"one"} \cap open
    <2>1. probe = IF ~c.probe THEN {}
                  ELSE IF c.epoch \in Early \cap open /\ early \cap before = {} THEN {c.epoch}
                  ELSE IF early # {} THEN {} ELSE rest
      BY DEF ProbeEpochs
    <2>2. rest \subseteq Epochs
      BY <1>3
    <2>3. c.epoch \in Early \cap open => {c.epoch} \subseteq Epochs
      BY <1>3
    <2> HIDE DEF early, before, rest, probe
    <2> QED  BY <2>1, <2>2, <2>3
  <1>5. pings \in SUBSET Epochs
    <2>1. w.pings \in SUBSET Epochs
      BY <1>1 DEF Connections
    <2>2. {IF e = "zero" THEN "one" ELSE e : e \in probe} \in SUBSET Epochs
      BY <1>4 DEF Epochs
    <2> QED  BY <2>1, <2>2
  <1>6. due \in BOOLEAN
    OBVIOUS
  <1>7. unsent \subseteq w.streams /\ owed \subseteq w.acks
    OBVIOUS
  <1> HIDE DEF open, acked, crypto, probe, w, unsent, due, owed, pings
  <1>8. TransmitFrames(c) \in Connections
    <2>1. unsent \in Flights
      BY <1>1, <1>7 DEF Connections, Flights
    <2>2. owed \in SUBSET Epochs
      BY <1>1, <1>7 DEF Connections
    <2>3. w \in Connections
      BY <1>1
    <2>4. [w EXCEPT !.streams = unsent, !.acks = owed, !.probe = due, !.pings = pings]
           \in Connections
       BY <1>5, <1>6, <2>1, <2>2, <2>3, FramesType
    <2> QED  BY <1>2, <2>4
  <1>9. /\ TransmitFrames(c).tls = w.tls /\ TransmitFrames(c).state = w.state
        /\ TransmitFrames(c).complete = w.complete /\ TransmitFrames(c).heard = w.heard
        /\ TransmitFrames(c).error = w.error /\ TransmitFrames(c).closeEvent = w.closeEvent
        /\ TransmitFrames(c).closeSent = w.closeSent
        /\ TransmitFrames(c).closePending = w.closePending
    BY <1>1, <1>2 DEF Connections
  <1> QED  BY <1>1, <1>8, <1>9 DEF Kept

LEMMA TransmitKeeps ==
  ASSUME NEW c \in Connections
  PROVE  /\ Transmit(c) \in Connections
         /\ Kept(c, Transmit(c))
         /\ ~c.closePending => ~Transmit(c).closePending
         /\ ~Ended(c) => ~Transmit(c).closePending
         /\ ~Ended(c) /\ c.closePending /\ CloseEpochs(c) # {} => Transmit(c).closeSent
  <1>1. CASE Ended(c)
    BY <1>1 DEF Transmit, Kept
  <1>2. CASE ~Ended(c) /\ c.closePending
    <2>1. Transmit(c) = TransmitClose(c)
      BY <1>2 DEF Transmit
    <2> QED  BY <1>2, <2>1, TransmitCloseKeeps
  <1>3. CASE ~Ended(c) /\ ~c.closePending
    <2>1. Transmit(c) = TransmitFrames(c)
      BY <1>3 DEF Transmit
    <2> QED  BY <1>3, <2>1, TransmitFramesKeeps
  <1> QED  BY <1>1, <1>2, <1>3

LEMMA TransmitMalformedKeeps ==
  ASSUME NEW c \in Connections, NEW e \in Epochs
  PROVE  /\ TransmitMalformed(c, e) \in Connections
         /\ Kept(c, TransmitMalformed(c, e))
         /\ TransmitMalformed(c, e).closePending = c.closePending
  BY WrittenKeeps DEF TransmitMalformed, Kept

(***************************************************************************)
(* The letters.                                                            *)
(***************************************************************************)
\* A connection whose keys follow the handshake.
Keyed(c) ==
  /\ c \in Connections
  /\ KeysFollow(c.tls)
  /\ "oneSend" \in c.tls.keys => c.complete

\* No CONNECTION_CLOSE waits, and one that was asked for has left.
Shut(c) ==
  /\ ~c.closePending
  /\ c.closeEvent /\ ~Ended(c) => c.closeSent

\* What a letter never changes: neither the state nor what was heard.
Silently(c, d) ==
  /\ d.state = c.state /\ d.heard = c.heard
  /\ d.tls.heard = c.tls.heard \/ d.tls.heard = Nothing
  /\ c.closeSent => d.closeSent
  /\ c.error => d.error

\* What a letter that closes nothing leaves alone before it transmits.
Alike(c, d) ==
  /\ d.state = c.state /\ d.heard = c.heard /\ d.tls.heard = c.tls.heard
  /\ d.closeEvent = c.closeEvent /\ d.closePending = c.closePending
  /\ d.closeSent = c.closeSent
  /\ c.error => d.error

LEMMA AlikeIsSilent ==
  ASSUME NEW c, NEW d, Alike(c, d)
  PROVE  Silently(c, d) /\ (Shut(c) => Shut(d))
  BY DEF Alike, Silently, Shut, Ended

LEMMA SilentlyIsTransitive ==
  ASSUME NEW c, NEW d, NEW e, Silently(c, d), Silently(d, e)
  PROVE  Silently(c, e)
  BY DEF Silently

LEMMA TransmitKeyed ==
  ASSUME NEW c, Keyed(c)
  PROVE  /\ Keyed(Transmit(c))
         /\ Silently(c, Transmit(c))
         /\ Shut(c) => Shut(Transmit(c))
  <1>1. /\ Transmit(c) \in Connections
        /\ Kept(c, Transmit(c))
        /\ ~c.closePending => ~Transmit(c).closePending
    BY TransmitKeeps DEF Keyed
  <1> QED  BY <1>1 DEF Keyed, Kept, Silently, Shut, Ended

LEMMA AfterTransmit ==
  ASSUME NEW c, NEW d, Keyed(d), Alike(c, d)
  PROVE  /\ Keyed(Transmit(d))
         /\ Silently(c, Transmit(d))
         /\ Shut(c) => Shut(Transmit(d))
  BY TransmitKeyed, AlikeIsSilent, SilentlyIsTransitive

LEMMA PushKeyed ==
  ASSUME NEW c, Keyed(c)
  PROVE  Keyed(Push(c)) /\ Alike(c, Push(c)) /\ Push(c).complete = c.complete
  <1> DEFINE all == c.streams \cup c.tls.buffer
             t == [c.tls EXCEPT !.buffer = {}]
  <1>1. c \in Connections /\ c.tls \in TlsContexts
    BY DEF Keyed, Connections
  <1>2. all \in Flights
    BY <1>1 DEF Connections, TlsContexts, Flights
  <1>3. t \in TlsContexts
    BY <1>1 DEF TlsContexts
  <1>4. /\ t.heard = c.tls.heard /\ t.keys = c.tls.keys /\ t.state = c.tls.state
        /\ t.hellos = c.tls.hellos /\ t.nextKey = c.tls.nextKey
    BY <1>1 DEF TlsContexts
  <1>5. Push(c) = [c EXCEPT !.streams = all, !.tls = t]
    BY <1>1 DEF Push, Connections
  <1> HIDE DEF all, t
  <1>6. Push(c) \in Connections
    <2>1. [c EXCEPT !.streams = all, !.tls = t] \in Connections
      BY <1>1, <1>2, <1>3 DEF Connections
    <2> QED  BY <1>5, <2>1
  <1>7. Push(c).tls = t /\ Push(c).complete = c.complete
    BY <1>1, <1>5 DEF Connections
  <1>8. KeysFollow(t)
    BY <1>4 DEF Keyed, KeysFollow
  <1>9. Alike(c, Push(c))
    BY <1>1, <1>4, <1>5, <1>7 DEF Connections, Alike
  <1> QED  BY <1>4, <1>6, <1>7, <1>8, <1>9 DEF Keyed

LEMMA HelloKeyed ==
  ASSUME NEW c, Keyed(c), NEW offer \in BOOLEAN
  PROVE  Keyed(Hello(c, offer)) /\ Alike(c, Hello(c, offer))
  <1> DEFINE t == SendHello(c.tls, offer)
             h == [c EXCEPT !.tls = t, !.epoch = "initial"]
  <1>1. c \in Connections /\ c.tls \in TlsContexts /\ "initial" \in Epochs \cup {"none"}
    BY DEF Keyed, Connections, Epochs
  <1>2. /\ t \in TlsContexts /\ KeysFollow(t) /\ t.heard = c.tls.heard
        /\ "oneSend" \in t.keys => "oneSend" \in c.tls.keys
    BY <1>1, SendHelloType DEF Keyed
  <1>3. Hello(c, offer) = Push(h)
    BY DEF Hello
  <1> HIDE DEF t
  <1>4. h \in Connections /\ h.tls = t /\ h.complete = c.complete /\ Alike(c, h)
    BY <1>1, <1>2 DEF Connections, Alike
  <1> HIDE DEF h
  <1>5. Keyed(h)
    BY <1>2, <1>4 DEF Keyed
  <1>6. Keyed(Push(h)) /\ Alike(h, Push(h))
    BY <1>5, PushKeyed
  <1> QED  BY <1>3, <1>4, <1>6 DEF Alike

LEMMA FinishKeyed ==
  ASSUME NEW c, Keyed(c), NEW e \in {"zero", "handshake"}, NEW keep \in BOOLEAN
  PROVE  Keyed(Finish(c, e, keep)) /\ Alike(c, Finish(c, e, keep))
  <1> DEFINE t == SendFinished(c.tls, e, keep)
             f == [c EXCEPT !.tls = t, !.epoch = e]
             p == Push(f)
  <1>1. c \in Connections /\ c.tls \in TlsContexts /\ e \in Epochs \cup {"none"}
    BY DEF Keyed, Connections, Epochs
  <1>2. /\ t \in TlsContexts /\ KeysFollow(t) /\ t.heard = c.tls.heard
        /\ "oneSend" \in t.keys => "oneSend" \in c.tls.keys \/ FinishedIsSent(c.tls)
    BY <1>1, SendFinishedType DEF Keyed
  <1>3. Finish(c, e, keep) = IF FinishedIsSent(c.tls) THEN [p EXCEPT !.complete = TRUE] ELSE f
    BY DEF Finish
  <1> HIDE DEF t
  <1>4. f \in Connections /\ f.tls = t /\ f.complete = c.complete /\ Alike(c, f)
    BY <1>1, <1>2 DEF Connections, Alike
  <1> HIDE DEF f
  <1>5. CASE ~FinishedIsSent(c.tls)
    <2>1. Keyed(f)
      BY <1>2, <1>4, <1>5 DEF Keyed
    <2> QED  BY <1>3, <1>4, <1>5, <2>1
  <1>6. CASE FinishedIsSent(c.tls)
    <2> DEFINE g == [f EXCEPT !.complete = TRUE]
    <2>1. g \in Connections /\ g.tls = t /\ g.complete /\ Alike(f, g)
      BY <1>4 DEF Connections, Alike
    <2>2. Keyed(g)
      BY <1>2, <2>1 DEF Keyed
    <2>3. Keyed(Push(g)) /\ Alike(g, Push(g))
      BY <2>2, PushKeyed
    <2>4. [p EXCEPT !.complete = TRUE] = Push(g)
      BY <1>4 DEF Push, Connections
    <2> HIDE DEF g, p
    <2> QED  BY <1>3, <1>4, <1>6, <2>1, <2>3, <2>4 DEF Alike
  <1> QED  BY <1>5, <1>6

LEMMA OwnKeyed ==
  ASSUME NEW c, Keyed(c), NEW m \in {"CERT", "CV"}
  PROVE  /\ Keyed(Push([c EXCEPT !.tls = WriteOwn(@, m)]))
         /\ Alike(c, Push([c EXCEPT !.tls = WriteOwn(@, m)]))
  <1> DEFINE t == WriteOwn(c.tls, m)
             w == [c EXCEPT !.tls = t]
  <1>1. c \in Connections /\ c.tls \in TlsContexts
    BY DEF Keyed, Connections
  <1>2. t \in TlsContexts /\ KeysFollow(t) /\ t.heard = c.tls.heard /\ t.keys = c.tls.keys
    BY <1>1, WriteOwnType DEF Keyed
  <1> HIDE DEF t
  <1>3. w \in Connections /\ w.tls = t /\ w.complete = c.complete /\ Alike(c, w)
    BY <1>1, <1>2 DEF Connections, Alike
  <1> HIDE DEF w
  <1>4. Keyed(w)
    BY <1>2, <1>3 DEF Keyed
  <1>5. Keyed(Push(w)) /\ Alike(w, Push(w))
    BY <1>4, PushKeyed
  <1>6. Keyed(Push(w)) /\ Alike(c, Push(w))
    BY <1>3, <1>5 DEF Alike
  <1> QED  BY <1>6 DEF w, t

LEMMA ErrorKeyed ==
  ASSUME NEW c, Keyed(c)
  PROVE  /\ Keyed([c EXCEPT !.error = TRUE])
         /\ Alike(c, [c EXCEPT !.error = TRUE])
         /\ [c EXCEPT !.error = TRUE].error
  BY DEF Keyed, Connections, Alike

LEMMA EpochKeyed ==
  ASSUME NEW c, Keyed(c), NEW e \in Epochs \cup {"none"}
  PROVE  Keyed([c EXCEPT !.epoch = e]) /\ Alike(c, [c EXCEPT !.epoch = e])
  BY DEF Keyed, Connections, Alike

LEMMA ProbeKeyed ==
  ASSUME NEW c, Keyed(c), NEW e \in Epochs \cup {"none"}
  PROVE  Keyed(Probe(c, e)) /\ Alike(c, Probe(c, e))
  <1>1. CASE ProbeRaises(c, e)
    BY <1>1, ErrorKeyed DEF Probe
  <1>2. CASE ~ProbeRaises(c, e)
    <2> DEFINE to == CASE e # "none" -> e
                       [] e = "none" /\ c.confirmed -> "one"
                       [] OTHER -> IF c.handshakeSent THEN "handshake" ELSE "initial"
    <2>1. to \in Epochs \cup {"none"}
      BY DEF Epochs
    <2>2. Probe(c, e) = [c EXCEPT !.probe = TRUE, !.epoch = to]
      BY <1>2 DEF Probe
    <2> HIDE DEF to
    <2>3. [c EXCEPT !.probe = TRUE, !.epoch = to] \in Connections
      BY <2>1 DEF Keyed, Connections
    <2>4. Alike(c, Probe(c, e)) /\ Probe(c, e).tls = c.tls /\ Probe(c, e).complete = c.complete
      BY <2>2 DEF Keyed, Connections, Alike
    <2> QED  BY <2>2, <2>3, <2>4 DEF Keyed
  <1> QED  BY <1>1, <1>2

LEMMA CertificateKeyed ==
  ASSUME NEW c, Keyed(c)
  PROVE  Keyed(Certificate(c)) /\ Alike(c, Certificate(c))
  <1>1. CASE CanSendCertificate(c.tls)
    <2>1. Certificate(c) = Push([c EXCEPT !.tls = WriteOwn(@, "CERT")])
      BY <1>1 DEF Certificate
    <2> QED  BY <2>1, OwnKeyed
  <1>2. CASE ~CanSendCertificate(c.tls)
    <2>1. Certificate(c) = [c EXCEPT !.error = TRUE]
      BY <1>2 DEF Certificate
    <2> QED  BY <2>1, ErrorKeyed
  <1> QED  BY <1>1, <1>2

LEMMA VerifyKeyed ==
  ASSUME NEW c, Keyed(c)
  PROVE  Keyed(Verify(c)) /\ Alike(c, Verify(c))
  <1>1. CASE CanSendVerify(c.tls)
    <2>1. Verify(c) = Push([c EXCEPT !.tls = WriteOwn(@, "CV")])
      BY <1>1 DEF Verify
    <2> QED  BY <2>1, OwnKeyed
  <1>2. CASE ~CanSendVerify(c.tls)
    BY <1>2 DEF Verify, Alike
  <1> QED  BY <1>1, <1>2

LEMMA InitializeKeyed ==
  ASSUME NEW c, Keyed(c)
  PROVE  /\ Keyed(Initialize(c)) /\ Silently(c, Initialize(c))
         /\ Shut(c) => Shut(Initialize(c))
  <1>1. FreshTls \in TlsContexts /\ KeysFollow(FreshTls)
    BY FreshTlsType
  <1>2. FreshTls.heard = Nothing /\ FreshTls.keys = {}
    BY DEF FreshTls
  <1>3. {} \in Flights /\ {} \in SUBSET Epochs
    BY DEF Flights
  <1> DEFINE i == [c EXCEPT !.tls = FreshTls, !.streams = {}, !.pings = {}, !.acks = {},
                            !.stale = FALSE]
  <1>4. i \in Connections
    BY <1>1, <1>3 DEF Keyed, Connections
  <1>5. /\ i.tls = FreshTls /\ i.state = c.state /\ i.heard = c.heard /\ i.error = c.error
        /\ i.closeSent = c.closeSent /\ i.closePending = c.closePending
        /\ i.closeEvent = c.closeEvent
    BY DEF Keyed, Connections
  <1>6. Initialize(c) = i
    BY DEF Initialize
  <1> HIDE DEF i
  <1> QED  BY <1>1, <1>2, <1>4, <1>5, <1>6 DEF Keyed, Silently, Shut, Ended

LEMMA ChangeDestinationKeyed ==
  ASSUME NEW c, Keyed(c), NEW to \in {"orig", "server"}
  PROVE  Keyed(ChangeDestination(c, to)) /\ Alike(c, ChangeDestination(c, to))
  <1>1. Keyed([c EXCEPT !.dst = to]) /\ Alike(c, [c EXCEPT !.dst = to])
    BY DEF Keyed, Connections, Alike
  <1> QED  BY <1>1 DEF ChangeDestination, Alike

LEMMA TransmitMalformedKeyed ==
  ASSUME NEW c, Keyed(c), NEW e \in Epochs
  PROVE  /\ Keyed(TransmitMalformed(c, e))
         /\ Silently(c, TransmitMalformed(c, e))
         /\ Shut(c) => Shut(TransmitMalformed(c, e))
  <1>1. /\ TransmitMalformed(c, e) \in Connections
        /\ Kept(c, TransmitMalformed(c, e))
        /\ TransmitMalformed(c, e).closePending = c.closePending
    BY TransmitMalformedKeeps DEF Keyed
  <1> QED  BY <1>1 DEF Keyed, Kept, Silently, Shut, Ended

(***************************************************************************)
(* Closing.                                                                *)
(***************************************************************************)
LEMMA CloseKeyed ==
  ASSUME NEW c, Keyed(c), NEW e \in Epochs \cup {"none"}
  PROVE  /\ Keyed(Close(c, e)) /\ Silently(c, Close(c, e))
         /\ CloseRaises(c, e) => Alike(c, Close(c, e)) /\ Close(c, e).error
         /\ c.closeEvent => Close(c, e) = c
         /\ ~c.closeEvent /\ ~Ended(c) /\ ~CloseRaises(c, e) /\ e # "none"
              => /\ Close(c, e).closePending /\ Close(c, e).epoch = e
                 /\ Close(c, e).tls = c.tls
  <1>1. CASE c.closeEvent \/ Ended(c)
    <2>1. Close(c, e) = c /\ ~CloseRaises(c, e)
      BY <1>1 DEF Close, CloseRaises
    <2> QED  BY <1>1, <2>1 DEF Silently
  <1>2. CASE CloseRaises(c, e)
    <2>1. Close(c, e) = [c EXCEPT !.error = TRUE] /\ ~c.closeEvent
      BY <1>2 DEF Close, CloseRaises
    <2>2. /\ Keyed([c EXCEPT !.error = TRUE])
          /\ Alike(c, [c EXCEPT !.error = TRUE])
          /\ [c EXCEPT !.error = TRUE].error
      BY ErrorKeyed
    <2> QED  BY <1>2, <2>1, <2>2, AlikeIsSilent
  <1>3. CASE ~(c.closeEvent \/ Ended(c)) /\ ~CloseRaises(c, e)
    <2> DEFINE to == CASE e # "none" -> e
                       [] e = "none" /\ ~c.handshakeSent -> c.epoch
                       [] OTHER -> IF c.confirmed THEN "one" ELSE "handshake"
               d == [c EXCEPT !.closeEvent = TRUE, !.closePending = TRUE, !.epoch = to]
    <2>1. to \in Epochs \cup {"none"} /\ (e # "none" => to = e)
      BY DEF Keyed, Connections, Epochs
    <2>2. Close(c, e) = d
      BY <1>3 DEF Close
    <2> HIDE DEF to
    <2>3. d \in Connections
      BY <2>1 DEF Keyed, Connections
    <2>4. /\ d.closePending /\ d.epoch = to /\ d.tls = c.tls /\ d.complete = c.complete
          /\ d.state = c.state /\ d.heard = c.heard /\ d.closeSent = c.closeSent
          /\ d.error = c.error
      BY DEF Keyed, Connections
    <2> HIDE DEF d
    <2>5. Keyed(d) /\ Silently(c, d)
      BY <2>3, <2>4 DEF Keyed, Silently
    <2> QED  BY <1>3, <2>1, <2>2, <2>4, <2>5
  <1> QED  BY <1>1, <1>2, <1>3

LEMMA CloseEpochsMeet ==
  ASSUME NEW c, NEW e \in {"initial", "zero", "handshake"}, c.epoch = e, CanWrite(c, e)
  PROVE  CloseEpochs(c) # {}
  <1>1. CASE e = "zero"
    BY <1>1 DEF CloseEpochs
  <1>2. CASE e \in Early
    <2>1. e \in CloseEpochs(c)
      BY <1>2 DEF CloseEpochs, Early
    <2> QED  BY <2>1
  <1> QED  BY <1>1, <1>2 DEF Early

\* A letter that closes leaves an error, or a CONNECTION_CLOSE that has left.
LEMMA ClosingKeyed ==
  ASSUME Keyed(conn), NEW e \in Epochs \cup {"none"}
  PROVE  /\ Keyed(Closing(e)) /\ Silently(conn, Closing(e))
         /\ Shut(conn) /\ ~Ended(conn) /\ e \in {"initial", "zero", "handshake"}
              => Shut(Closing(e)) /\ (Closing(e).error \/ Closing(e).closeSent)
  <1> DEFINE d == Close(conn, e)
  <1>1. /\ Keyed(d) /\ Silently(conn, d)
        /\ CloseRaises(conn, e) => Alike(conn, d) /\ d.error
        /\ conn.closeEvent => d = conn
        /\ ~conn.closeEvent /\ ~Ended(conn) /\ ~CloseRaises(conn, e) /\ e # "none"
             => /\ d.closePending /\ d.epoch = e
                /\ d.tls = conn.tls
    BY CloseKeyed
  <1>2. CASE CloseRaises(conn, e)
    <2>1. Closing(e) = d
      BY <1>2 DEF Closing
    <2>2. Alike(conn, d) /\ d.error
      BY <1>1, <1>2
    <2> HIDE DEF d
    <2> QED  BY <1>1, <2>1, <2>2, AlikeIsSilent
  <1>3. CASE ~CloseRaises(conn, e)
    <2>1. Closing(e) = Transmit(d)
      BY <1>3 DEF Closing
    <2>2. /\ Keyed(Transmit(d)) /\ Silently(d, Transmit(d))
          /\ Shut(d) => Shut(Transmit(d))
      BY <1>1, TransmitKeyed
    <2>3. Silently(conn, Transmit(d))
      BY <1>1, <2>2, SilentlyIsTransitive
    <2>4. ASSUME Shut(conn), ~Ended(conn), e \in {"initial", "zero", "handshake"}
          PROVE  Shut(Transmit(d)) /\ Transmit(d).closeSent
      <3>1. CASE conn.closeEvent
        <4>1. d = conn
          BY <1>1, <3>1
        <4> HIDE DEF d
        <4> QED  BY <2>2, <2>4, <3>1, <4>1 DEF Shut, Silently
      <3>2. CASE ~conn.closeEvent
        <4>1. CanWrite(conn, e)
          BY <1>3, <2>4, <3>2 DEF CloseRaises
        <4>2. d.closePending /\ d.epoch = e /\ d.tls = conn.tls
          BY <1>1, <1>3, <2>4, <3>2
        <4> HIDE DEF d
        <4>3. CanWrite(d, e)
          BY <4>1, <4>2 DEF CanWrite
        <4>4. CloseEpochs(d) # {}
          BY <2>4, <4>2, <4>3, CloseEpochsMeet
        <4>5. ~Ended(d)
          BY <1>1, <2>4 DEF Silently, Ended
        <4>6. Transmit(d).closeSent /\ ~Transmit(d).closePending
          BY <1>1, <4>2, <4>4, <4>5, TransmitKeeps DEF Keyed
        <4> QED  BY <4>6 DEF Shut
      <3> QED  BY <3>1, <3>2
    <2> HIDE DEF d
    <2> QED  BY <2>1, <2>2, <2>3, <2>4
  <1> QED  BY <1>2, <1>3

(***************************************************************************)
(* The dispatch.                                                           *)
(***************************************************************************)
LEMMA ProbingKeyed ==
  ASSUME Keyed(conn), NEW e \in Epochs
  PROVE  /\ Keyed(Probing(e)) /\ Silently(conn, Probing(e))
         /\ Shut(conn) => Shut(Probing(e))
  <1>1. Keyed(Probe(conn, e)) /\ Alike(conn, Probe(conn, e))
    BY ProbeKeyed
  <1> QED  BY <1>1, AlikeIsSilent, AfterTransmit DEF Probing

LEMMA FinishingKeyed ==
  ASSUME Keyed(conn), NEW e \in {"zero", "handshake"}
  PROVE  /\ Keyed(Finishing(e)) /\ Silently(conn, Finishing(e))
         /\ Shut(conn) => Shut(Finishing(e))
  <1>1. Keyed(Finish(conn, e, TicketPath)) /\ Alike(conn, Finish(conn, e, TicketPath))
    BY FinishKeyed, MapperAssumption
  <1> QED  BY <1>1, AlikeIsSilent, AfterTransmit DEF Finishing

\* A letter sent over a connection.
Sent(l, d) ==
  /\ Keyed(d) /\ Silently(conn, d)
  /\ Shut(conn) /\ ~Ended(conn) /\ l # "norClose"
       => Shut(d) /\ (l \in CloseLetters => d.error \/ d.closeSent)

LEMMA SendKeyed ==
  ASSUME Keyed(conn), ticket \in BOOLEAN, NEW l \in AllLetters \ ConfigLetters
  PROVE  Sent(l, Send(l))
  <1>1. CASE l \in InitialLetters
    <2>0. Send(l) = SendInitial(l)
      BY <1>1 DEF Send, InitialLetters, ZeroLetters, HandshakeLetters
    <2>1. CASE l \in {"initHello", "initHello-l"}
      <3>1. Send(l) = Transmit(Hello(conn, ticket))
        BY <2>0, <2>1 DEF SendInitial
      <3>2. Keyed(Hello(conn, ticket)) /\ Alike(conn, Hello(conn, ticket))
        BY HelloKeyed
      <3> QED  BY <2>1, <3>1, <3>2, AfterTransmit DEF Sent, CloseLetters
    <2>2. CASE l = "initPing"
      <3>1. Send(l) = Probing("initial")
        BY <2>0, <2>2 DEF SendInitial
      <3> QED  BY <2>2, <3>1, ProbingKeyed DEF Sent, CloseLetters, Epochs
    <2>3. CASE l = "initClose"
      <3>1. Send(l) = Closing("initial")
        BY <2>0, <2>3 DEF SendInitial
      <3> QED  BY <2>3, <3>1, ClosingKeyed DEF Sent, Epochs
    <2>4. CASE l = "initMalformed"
      <3>1. Send(l) = TransmitMalformed(conn, "initial")
        BY <2>0, <2>4 DEF SendInitial
      <3> QED  BY <2>4, <3>1, TransmitMalformedKeyed DEF Sent, CloseLetters, Epochs
    <2> QED  BY <1>1, <2>1, <2>2, <2>3, <2>4 DEF InitialLetters
  <1>2. CASE l \in ZeroLetters
    <2>0. Send(l) = SendZero(l)
      BY <1>2 DEF Send, InitialLetters, ZeroLetters, HandshakeLetters
    <2>1. CASE l = "zeroPing"
      <3>1. Send(l) = Probing("zero")
        BY <2>0, <2>1 DEF SendZero
      <3> QED  BY <2>1, <3>1, ProbingKeyed DEF Sent, CloseLetters, Epochs
    <2>2. CASE l = "zeroClose"
      <3>1. Send(l) = Closing("zero")
        BY <2>0, <2>2 DEF SendZero
      <3> QED  BY <2>2, <3>1, ClosingKeyed DEF Sent, Epochs
    <2>3. CASE l = "zeroFin"
      <3>1. Send(l) = Finishing("zero")
        BY <2>0, <2>3 DEF SendZero
      <3> QED  BY <2>3, <3>1, FinishingKeyed DEF Sent, CloseLetters
    <2>4. CASE l = "zeroMalformed"
      <3>1. Send(l) = TransmitMalformed(conn, "zero")
        BY <2>0, <2>4 DEF SendZero
      <3> QED  BY <2>4, <3>1, TransmitMalformedKeyed DEF Sent, CloseLetters, Epochs
    <2>5. CASE l = "zeroAck"
      <3>1. Send(l) = Transmit([conn EXCEPT !.epoch = "zero"])
        BY <2>0, <2>5 DEF SendZero
      <3>2. Keyed([conn EXCEPT !.epoch = "zero"]) /\ Alike(conn, [conn EXCEPT !.epoch = "zero"])
        BY EpochKeyed DEF Epochs
      <3> QED  BY <2>5, <3>1, <3>2, AfterTransmit DEF Sent, CloseLetters
    <2> QED  BY <1>2, <2>1, <2>2, <2>3, <2>4, <2>5 DEF ZeroLetters
  <1>3. CASE l \in HandshakeLetters
    <2>0. Send(l) = SendHandshake(l)
      BY <1>3 DEF Send, InitialLetters, ZeroLetters, HandshakeLetters
    <2>1. CASE l = "hndPing"
      <3>1. Send(l) = Probing("handshake")
        BY <2>0, <2>1 DEF SendHandshake
      <3> QED  BY <2>1, <3>1, ProbingKeyed DEF Sent, CloseLetters, Epochs
    <2>2. CASE l = "hndClose"
      <3>1. Send(l) = Closing("handshake")
        BY <2>0, <2>2 DEF SendHandshake
      <3> QED  BY <2>2, <3>1, ClosingKeyed DEF Sent, Epochs
    <2>3. CASE l \in {"hndFin", "hndFin-l"}
      <3>1. Send(l) = Finishing("handshake")
        BY <2>0, <2>3 DEF SendHandshake
      <3> QED  BY <2>3, <3>1, FinishingKeyed DEF Sent, CloseLetters
    <2>4. CASE l = "hndCert"
      <3>1. Send(l) = IF CanSendCertificate(conn.tls) THEN Transmit(Certificate(conn))
                                                      ELSE Certificate(conn)
        BY <2>0, <2>4 DEF SendHandshake
      <3>2. Keyed(Certificate(conn)) /\ Alike(conn, Certificate(conn))
        BY CertificateKeyed
      <3> QED  BY <2>4, <3>1, <3>2, AfterTransmit, AlikeIsSilent DEF Sent, CloseLetters
    <2>5. CASE l = "hndCertVer"
      <3>1. Send(l) = IF CanSendVerify(conn.tls) THEN Transmit(Verify(conn)) ELSE conn
        BY <2>0, <2>5 DEF SendHandshake
      <3>2. Keyed(Verify(conn)) /\ Alike(conn, Verify(conn))
        BY VerifyKeyed
      <3>3. Silently(conn, conn)
        BY DEF Silently
      <3> QED  BY <2>5, <3>1, <3>2, <3>3, AfterTransmit DEF Sent, CloseLetters
    <2>6. CASE l = "hndMalformed"
      <3>1. Send(l) = TransmitMalformed(conn, "handshake")
        BY <2>0, <2>6 DEF SendHandshake
      <3> QED  BY <2>6, <3>1, TransmitMalformedKeyed DEF Sent, CloseLetters, Epochs
    <2> QED  BY <1>3, <2>1, <2>2, <2>3, <2>4, <2>5, <2>6 DEF HandshakeLetters
  <1>4. CASE l \in OtherLetters
    <2>0. Send(l) = SendOther(l)
      BY <1>4 DEF Send, InitialLetters, ZeroLetters, HandshakeLetters, OtherLetters
    <2>1. CASE l = "onePing"
      <3>1. Send(l) = Probing("one")
        BY <2>0, <2>1 DEF SendOther
      <3> QED  BY <2>1, <3>1, ProbingKeyed DEF Sent, CloseLetters, Epochs
    <2>2. CASE l = "norClose"
      <3>1. Send(l) = Closing("none")
        BY <2>0, <2>2 DEF SendOther
      <3> QED  BY <2>2, <3>1, ClosingKeyed DEF Sent
    <2>3. CASE l = "newIds"
      <3>1. Send(l) = IF conn.complete /\ ~idsWritten THEN Transmit(conn)
                      ELSE [conn EXCEPT !.error = TRUE]
        BY <2>0, <2>3 DEF SendOther
      <3>2. Keyed([conn EXCEPT !.error = TRUE]) /\ Alike(conn, [conn EXCEPT !.error = TRUE])
        BY ErrorKeyed
      <3> QED  BY <2>3, <3>1, <3>2, TransmitKeyed, AlikeIsSilent DEF Sent, CloseLetters
    <2> QED  BY <1>4, <2>1, <2>2, <2>3 DEF OtherLetters
  <1> QED  BY <1>1, <1>2, <1>3, <1>4 DEF AllLetters

LEMMA ConfigureKeyed ==
  ASSUME Keyed(conn), NEW l \in AllLetters
  PROVE  /\ Keyed(Configure(l)) /\ Silently(conn, Configure(l))
         /\ Shut(conn) => Shut(Configure(l))
  <1>1. /\ Keyed(Initialize(conn)) /\ Silently(conn, Initialize(conn))
        /\ Shut(conn) => Shut(Initialize(conn))
    BY InitializeKeyed
  <1>2. \A to \in {"orig", "server"} :
           /\ Keyed(ChangeDestination(conn, to)) /\ Silently(conn, ChangeDestination(conn, to))
           /\ Shut(conn) => Shut(ChangeDestination(conn, to))
    BY ChangeDestinationKeyed, AlikeIsSilent
  <1>3. Silently(conn, conn)
    BY DEF Silently
  <1>4. Configure(l) \in {Initialize(conn), ChangeDestination(conn, "orig"),
                          ChangeDestination(conn, "server"), conn}
    BY DEF Configure
  <1> QED  BY <1>1, <1>2, <1>3, <1>4

(***************************************************************************)
(* Receiving.                                                              *)
(***************************************************************************)
\* What a packet of the server never does: it takes no key away and gives no
\* connection up.
Received(c, d) ==
  /\ Keyed(d)
  /\ d.state = "closing" => c.state = "closing"
  /\ Ended(c) => Ended(d)
  /\ c.closeSent => d.closeSent
  /\ c.error => d.error
  /\ Shut(c) => Shut(d)

\* No TLS message was heard.
NoMessage(c, d) ==
  /\ \A m \in TlsMessages : d.heard[m] = c.heard[m]
  /\ d.tls.heard = c.tls.heard \/ d.tls.heard = Nothing

LEMMA ReceivedIsTransitive ==
  ASSUME NEW c, NEW d, NEW e, Received(c, d), Received(d, e)
  PROVE  /\ Received(c, e)
         /\ NoMessage(c, d) /\ NoMessage(d, e) => NoMessage(c, e)
  BY DEF Received, NoMessage

LEMMA TransmitReceived ==
  ASSUME NEW c, Keyed(c)
  PROVE  Received(c, Transmit(c)) /\ NoMessage(c, Transmit(c))
  BY TransmitKeyed DEF Silently, Received, NoMessage, Ended

LEMMA InitializeReceived ==
  ASSUME NEW c, Keyed(c)
  PROVE  Received(c, Initialize(c)) /\ NoMessage(c, Initialize(c))
  BY InitializeKeyed DEF Silently, Received, NoMessage, Ended

LEMMA OpenedReceived ==
  ASSUME NEW c, Keyed(c)
  PROVE  /\ Received(c, Opened(c)) /\ NoMessage(c, Opened(c))
         /\ Opened(c).tls = c.tls /\ Opened(c).heard = c.heard
         /\ Opened(c).closeEvent = c.closeEvent
  <1> DEFINE state == IF c.state = "first" THEN "connected" ELSE c.state
             to == IF c.fixed THEN c.dst ELSE "server"
             o == [c EXCEPT !.state = state, !.dst = to, !.fixed = TRUE]
  <1>1. /\ state \in {"first", "connected"} \cup EndStates
        /\ to \in {"orig", "retry", "server"}
    BY DEF Keyed, Connections
  <1>2. /\ state = "closing" => c.state = "closing"
        /\ c.state \in EndStates => state \in EndStates
        /\ state \in EndStates => c.state \in EndStates
    BY DEF EndStates
  <1>3. Opened(c) = o
    BY DEF Opened
  <1> HIDE DEF state, to
  <1>4. o \in Connections
    BY <1>1 DEF Keyed, Connections
  <1>5. /\ o.state = state /\ o.tls = c.tls /\ o.heard = c.heard /\ o.error = c.error
        /\ o.closeSent = c.closeSent /\ o.closePending = c.closePending
        /\ o.closeEvent = c.closeEvent /\ o.complete = c.complete
    BY DEF Keyed, Connections
  <1> HIDE DEF o
  <1> QED  BY <1>2, <1>3, <1>4, <1>5 DEF Keyed, Received, NoMessage, Shut, Ended

LEMMA ToAckReceived ==
  ASSUME NEW c, Keyed(c), NEW e \in Epochs
  PROVE  Received(c, ToAck(c, e)) /\ NoMessage(c, ToAck(c, e))
         /\ ToAck(c, e).heard = c.heard /\ ToAck(c, e).tls = c.tls
  <1> DEFINE acks == c.acks \cup {e}
             a == [c EXCEPT !.acks = acks]
  <1>1. acks \in SUBSET Epochs
    BY DEF Keyed, Connections
  <1>2. ToAck(c, e) = a
    BY DEF ToAck
  <1> HIDE DEF acks
  <1>3. a \in Connections
    BY <1>1 DEF Keyed, Connections
  <1>4. /\ a.state = c.state /\ a.tls = c.tls /\ a.heard = c.heard /\ a.error = c.error
        /\ a.closeSent = c.closeSent /\ a.closePending = c.closePending
        /\ a.closeEvent = c.closeEvent /\ a.complete = c.complete
    BY DEF Keyed, Connections
  <1> HIDE DEF a
  <1> QED  BY <1>2, <1>3, <1>4 DEF Keyed, Received, NoMessage, Shut, Ended

\* A response that is no TLS message.
LEMMA HeardReceived ==
  ASSUME NEW c, Keyed(c), NEW h \in [Responses -> Nat],
         \A m \in TlsMessages : h[m] = c.heard[m]
  PROVE  /\ Received(c, [c EXCEPT !.heard = h])
         /\ NoMessage(c, [c EXCEPT !.heard = h])
  <1> DEFINE d == [c EXCEPT !.heard = h]
  <1>1. d \in Connections
    BY DEF Keyed, Connections
  <1>2. /\ d.state = c.state /\ d.tls = c.tls /\ d.heard = h /\ d.error = c.error
        /\ d.closeSent = c.closeSent /\ d.closePending = c.closePending
        /\ d.closeEvent = c.closeEvent /\ d.complete = c.complete
    BY DEF Keyed, Connections
  <1> HIDE DEF d
  <1>3. Received(c, d) /\ NoMessage(c, d)
    BY <1>1, <1>2 DEF Keyed, Received, NoMessage, Shut, Ended
  <1> QED  BY <1>3 DEF d

LEMMA CountHeard ==
  ASSUME NEW c, Keyed(c),
         NEW r \in {"HANDSHAKE_DONE", "NEW_TOKEN", "PING.ACKED", "RETRY", "VERSION_NEGOTIATION"}
  PROVE  /\ Count(c.heard, r) \in [Responses -> Nat]
         /\ \A m \in TlsMessages : Count(c.heard, r)[m] = c.heard[m]
  <1>1. c.heard \in [Responses -> Nat]
    BY DEF Keyed, Connections
  <1>2. r \in Responses \ TlsMessages
    BY DEF Responses, TlsMessages, HandshakeMessages
  <1>3. TlsMessages \subseteq Responses
    BY DEF Responses
  <1> QED  BY <1>1, <1>2, <1>3 DEF Count

LEMMA CountMessage ==
  ASSUME NEW h \in [TlsMessages -> Nat], NEW m \in TlsMessages
  PROVE  /\ Count(h, m) \in [TlsMessages -> Nat]
         /\ \A x \in TlsMessages : Count(h, m)[x] = IF x = m THEN h[x] + 1 ELSE h[x]
  BY DEF Count

LEMMA ReceiveDoneKeeps ==
  ASSUME NEW c, Keyed(c)
  PROVE  Received(c, ReceiveDone(c)) /\ NoMessage(c, ReceiveDone(c))
  <1> DEFINE o == Opened(c)
             h == Count(o.heard, "HANDSHAKE_DONE")
             d == [o EXCEPT !.confirmed = TRUE, !.heard = h]
             e == IF o.confirmed THEN o ELSE d
  <1>1. Received(c, o) /\ NoMessage(c, o)
    BY OpenedReceived
  <1>2. Keyed(o)
    BY <1>1 DEF Received
  <1> HIDE DEF o
  <1>3. h \in [Responses -> Nat] /\ \A m \in TlsMessages : h[m] = o.heard[m]
    BY <1>2, CountHeard
  <1> HIDE DEF h
  <1>4. d \in Connections
    BY <1>2, <1>3 DEF Keyed, Connections
  <1>5. /\ d.state = o.state /\ d.tls = o.tls /\ d.heard = h /\ d.error = o.error
        /\ d.closeSent = o.closeSent /\ d.closePending = o.closePending
        /\ d.closeEvent = o.closeEvent /\ d.complete = o.complete
    BY <1>2 DEF Keyed, Connections
  <1> HIDE DEF d
  <1>6. Received(o, d) /\ NoMessage(o, d)
    BY <1>2, <1>3, <1>4, <1>5 DEF Keyed, Received, NoMessage, Shut, Ended
  <1>7. Received(c, e) /\ NoMessage(c, e)
    BY <1>1, <1>6, ReceivedIsTransitive
  <1>8. Received(e, ToAck(e, "one")) /\ NoMessage(e, ToAck(e, "one"))
    BY <1>7, ToAckReceived DEF Received, Epochs
  <1>9. /\ Received(ToAck(e, "one"), Transmit(ToAck(e, "one")))
        /\ NoMessage(ToAck(e, "one"), Transmit(ToAck(e, "one")))
    BY <1>8, TransmitReceived DEF Received
  <1>10. ReceiveDone(c) = Transmit(ToAck(e, "one"))
    BY DEF ReceiveDone, o, d, h
  <1> HIDE DEF e
  <1>11. Received(c, ToAck(e, "one")) /\ NoMessage(c, ToAck(e, "one"))
    BY <1>7, <1>8, ReceivedIsTransitive
  <1> QED  BY <1>9, <1>10, <1>11, ReceivedIsTransitive

LEMMA ReceiveTokenKeeps ==
  ASSUME NEW c, Keyed(c)
  PROVE  Received(c, ReceiveToken(c)) /\ NoMessage(c, ReceiveToken(c))
  <1> DEFINE o == Opened(c)
             h == Count(o.heard, "NEW_TOKEN")
             e == [o EXCEPT !.heard = h]
  <1>1. Received(c, o) /\ NoMessage(c, o)
    BY OpenedReceived
  <1>2. Keyed(o)
    BY <1>1 DEF Received
  <1>3. ReceiveToken(c) = Transmit(ToAck(e, "one"))
    BY DEF ReceiveToken
  <1> HIDE DEF o
  <1>4. h \in [Responses -> Nat] /\ \A m \in TlsMessages : h[m] = o.heard[m]
    BY <1>2, CountHeard
  <1> HIDE DEF h
  <1>5. Received(o, e) /\ NoMessage(o, e)
    BY <1>2, <1>4, HeardReceived
  <1> HIDE DEF e
  <1>6. Received(c, e) /\ NoMessage(c, e)
    BY <1>1, <1>5, ReceivedIsTransitive
  <1>7. Received(e, ToAck(e, "one")) /\ NoMessage(e, ToAck(e, "one"))
    BY <1>6, ToAckReceived DEF Received, Epochs
  <1>8. Received(c, ToAck(e, "one")) /\ NoMessage(c, ToAck(e, "one"))
    BY <1>6, <1>7, ReceivedIsTransitive
  <1>9. /\ Received(ToAck(e, "one"), Transmit(ToAck(e, "one")))
        /\ NoMessage(ToAck(e, "one"), Transmit(ToAck(e, "one")))
    BY <1>8, TransmitReceived DEF Received
  <1> QED  BY <1>3, <1>8, <1>9, ReceivedIsTransitive

LEMMA ReceivePingAckKeeps ==
  ASSUME NEW c, Keyed(c), NEW e
  PROVE  Received(c, ReceivePingAck(c, e)) /\ NoMessage(c, ReceivePingAck(c, e))
  <1> DEFINE o == Opened(c)
             h == Count(o.heard, "PING.ACKED")
             left == o.pings \ {e}
             d == [o EXCEPT !.heard = h, !.pings = left]
  <1>1. Received(c, o) /\ NoMessage(c, o)
    BY OpenedReceived
  <1>2. Keyed(o)
    BY <1>1 DEF Received
  <1>3. ReceivePingAck(c, e) = Transmit(d)
    BY DEF ReceivePingAck
  <1> HIDE DEF o
  <1>4. h \in [Responses -> Nat] /\ \A m \in TlsMessages : h[m] = o.heard[m]
    BY <1>2, CountHeard
  <1>5. left \in SUBSET Epochs
    BY <1>2 DEF Keyed, Connections
  <1> HIDE DEF h, left
  <1>6. d \in Connections
    BY <1>2, <1>4, <1>5 DEF Keyed, Connections
  <1>7. /\ d.state = o.state /\ d.tls = o.tls /\ d.heard = h /\ d.error = o.error
        /\ d.closeSent = o.closeSent /\ d.closePending = o.closePending
        /\ d.closeEvent = o.closeEvent /\ d.complete = o.complete
    BY <1>2 DEF Keyed, Connections
  <1> HIDE DEF d
  <1>8. Received(o, d) /\ NoMessage(o, d)
    BY <1>2, <1>4, <1>6, <1>7 DEF Keyed, Received, NoMessage, Shut, Ended
  <1>9. Received(c, d) /\ NoMessage(c, d)
    BY <1>1, <1>8, ReceivedIsTransitive
  <1>10. Received(d, Transmit(d)) /\ NoMessage(d, Transmit(d))
    BY <1>9, TransmitReceived DEF Received
  <1> QED  BY <1>3, <1>9, <1>10, ReceivedIsTransitive

LEMMA ReceiveCloseKeeps ==
  ASSUME NEW c, Keyed(c)
  PROVE  Received(c, ReceiveClose(c)) /\ NoMessage(c, ReceiveClose(c))
  <1> DEFINE o == Opened(c)
             h == [o.heard EXCEPT !["CONNECTION_CLOSE"] = 1]
             d == [o EXCEPT !.heard = h]
             e == IF d.closeEvent THEN d ELSE [d EXCEPT !.closeEvent = TRUE, !.state = "draining"]
  <1>1. Received(c, o) /\ NoMessage(c, o)
    BY OpenedReceived
  <1>2. Keyed(o)
    BY <1>1 DEF Received
  <1>3. ReceiveClose(c) = Transmit(e)
    BY <1>2 DEF ReceiveClose, Keyed, Connections
  <1> HIDE DEF o
  <1>4. h \in [Responses -> Nat] /\ \A m \in TlsMessages : h[m] = o.heard[m]
    BY <1>2 DEF Keyed, Connections, Responses, TlsMessages, HandshakeMessages
  <1> HIDE DEF h
  <1>5. Received(o, d) /\ NoMessage(o, d)
    BY <1>2, <1>4, HeardReceived
  <1>6. Keyed(d)
    BY <1>5 DEF Received
  <1> HIDE DEF d
  <1>7. Received(d, e) /\ NoMessage(d, e)
    <2>1. CASE d.closeEvent
      BY <1>6, <2>1 DEF Received, NoMessage
    <2>2. CASE ~d.closeEvent
      <3> DEFINE f == [d EXCEPT !.closeEvent = TRUE, !.state = "draining"]
      <3>1. f \in Connections
        BY <1>6 DEF Keyed, Connections, EndStates
      <3>2. /\ f.state = "draining" /\ f.tls = d.tls /\ f.heard = d.heard /\ f.error = d.error
            /\ f.closeSent = d.closeSent /\ f.closePending = d.closePending
            /\ f.complete = d.complete
        BY <1>6 DEF Keyed, Connections
      <3>3. e = f
        BY <2>2
      <3> HIDE DEF e, f
      <3> QED  BY <1>6, <3>1, <3>2, <3>3 DEF Keyed, Received, NoMessage, Shut, Ended, EndStates
    <2> QED  BY <2>1, <2>2
  <1> HIDE DEF e
  <1>8. Received(c, d) /\ NoMessage(c, d)
    BY <1>1, <1>5, ReceivedIsTransitive
  <1>9. Received(c, e) /\ NoMessage(c, e)
    BY <1>7, <1>8, ReceivedIsTransitive
  <1>10. Received(e, Transmit(e)) /\ NoMessage(e, Transmit(e))
    BY <1>9, TransmitReceived DEF Received
  <1> QED  BY <1>3, <1>9, <1>10, ReceivedIsTransitive

LEMMA ReceiveRetryKeeps ==
  ASSUME NEW c, Keyed(c), NEW fits
  PROVE  Received(c, ReceiveRetry(c, fits)) /\ NoMessage(c, ReceiveRetry(c, fits))
  <1> DEFINE h == Count(c.heard, "RETRY")
             o == [c EXCEPT !.heard = h]
             r == [o EXCEPT !.retried = TRUE, !.dst = "retry"]
             e == IF fits /\ ~c.retried THEN Initialize(r) ELSE o
  <1>1. h \in [Responses -> Nat] /\ \A m \in TlsMessages : h[m] = c.heard[m]
    BY CountHeard
  <1>2. ReceiveRetry(c, fits) = Transmit(e)
    BY DEF ReceiveRetry
  <1> HIDE DEF h
  <1>3. Received(c, o) /\ NoMessage(c, o)
    BY <1>1, HeardReceived
  <1>4. Keyed(o)
    BY <1>3 DEF Received
  <1> HIDE DEF o
  <1>5. r \in Connections
    BY <1>4 DEF Keyed, Connections
  <1>6. /\ r.state = o.state /\ r.tls = o.tls /\ r.heard = o.heard /\ r.error = o.error
        /\ r.closeSent = o.closeSent /\ r.closePending = o.closePending
        /\ r.closeEvent = o.closeEvent /\ r.complete = o.complete
    BY <1>4 DEF Keyed, Connections
  <1> HIDE DEF r
  <1>7. Received(o, r) /\ NoMessage(o, r)
    BY <1>4, <1>5, <1>6 DEF Keyed, Received, NoMessage, Shut, Ended
  <1>8. Received(r, Initialize(r)) /\ NoMessage(r, Initialize(r))
    BY <1>7, InitializeReceived DEF Received
  <1>9. Received(o, Initialize(r)) /\ NoMessage(o, Initialize(r))
    BY <1>7, <1>8, ReceivedIsTransitive
  <1>10. Received(c, Initialize(r)) /\ NoMessage(c, Initialize(r))
    BY <1>3, <1>9, ReceivedIsTransitive
  <1>11. Received(c, e) /\ NoMessage(c, e)
    BY <1>3, <1>10
  <1> HIDE DEF e
  <1>12. Received(e, Transmit(e)) /\ NoMessage(e, Transmit(e))
    BY <1>11, TransmitReceived DEF Received
  <1> QED  BY <1>2, <1>11, <1>12, ReceivedIsTransitive

LEMMA ReceiveNegotiationKeeps ==
  ASSUME NEW c, Keyed(c), NEW common \in BOOLEAN
  PROVE  Received(c, ReceiveNegotiation(c, common)) /\ NoMessage(c, ReceiveNegotiation(c, common))
  <1> DEFINE h == Count(c.heard, "VERSION_NEGOTIATION")
             o == [c EXCEPT !.heard = h]
             n == [o EXCEPT !.negotiated = TRUE, !.stale = TRUE]
             t == [o EXCEPT !.closeEvent = TRUE, !.state = "terminated"]
  <1>1. h \in [Responses -> Nat] /\ \A m \in TlsMessages : h[m] = c.heard[m]
    BY CountHeard
  <1>2. ReceiveNegotiation(c, common) = IF common THEN Transmit(n) ELSE t
    BY DEF ReceiveNegotiation
  <1> HIDE DEF h
  <1>3. Received(c, o) /\ NoMessage(c, o)
    BY <1>1, HeardReceived
  <1>4. Keyed(o)
    BY <1>3 DEF Received
  <1> HIDE DEF o
  <1>5. n \in Connections /\ t \in Connections
    BY <1>4 DEF Keyed, Connections, EndStates
  <1>6. /\ n.state = o.state /\ n.tls = o.tls /\ n.heard = o.heard /\ n.error = o.error
        /\ n.closeSent = o.closeSent /\ n.closePending = o.closePending
        /\ n.closeEvent = o.closeEvent /\ n.complete = o.complete
    BY <1>4 DEF Keyed, Connections
  <1>7. /\ t.state = "terminated" /\ t.tls = o.tls /\ t.heard = o.heard /\ t.error = o.error
        /\ t.closeSent = o.closeSent /\ t.closePending = o.closePending
        /\ t.complete = o.complete
    BY <1>4 DEF Keyed, Connections
  <1> HIDE DEF n, t
  <1>8. Received(o, n) /\ NoMessage(o, n)
    BY <1>4, <1>5, <1>6 DEF Keyed, Received, NoMessage, Shut, Ended
  <1>9. Received(o, t) /\ NoMessage(o, t)
    BY <1>4, <1>5, <1>7 DEF Keyed, Received, NoMessage, Shut, Ended, EndStates
  <1>10. Received(n, Transmit(n)) /\ NoMessage(n, Transmit(n))
    BY <1>8, TransmitReceived DEF Received
  <1>11. Received(o, Transmit(n)) /\ NoMessage(o, Transmit(n))
    BY <1>8, <1>10, ReceivedIsTransitive
  <1>12. /\ Received(c, Transmit(n)) /\ NoMessage(c, Transmit(n))
         /\ Received(c, t) /\ NoMessage(c, t)
    BY <1>3, <1>9, <1>11, ReceivedIsTransitive
  <1> QED  BY <1>2, <1>12

\* A CRYPTO frame: a message that is refused waits in the TLS context, one that
\* is taken passes on all that wait.
LEMMA ReceiveTlsKeeps ==
  ASSUME NEW c, Keyed(c), NEW m \in TlsMessages, NEW e \in Epochs,
         NEW last \in BOOLEAN, NEW psk \in BOOLEAN,
         NEW d, d = ReceiveTls(c, m, e, last, psk),
         NEW waiting, waiting = Count(c.tls.heard, m)
  PROVE  /\ Received(c, d)
         /\ Breaks(c.tls, m) \/ Alerts(c.tls, m, psk)
              => d.heard = c.heard /\ d.tls.heard = waiting
         /\ ~Breaks(c.tls, m) /\ ~Alerts(c.tls, m, psk)
              => /\ d.tls.heard = Nothing
                 /\ \A x \in TlsMessages : d.heard[x] = c.heard[x] + waiting[x]
  <1> DEFINE q == Opened(c)
             w == [q.tls EXCEPT !.heard = waiting]
             o == [q EXCEPT !.tls = w]
  <1>1. /\ Received(c, q) /\ q.tls = c.tls /\ q.heard = c.heard
        /\ q \in Connections /\ c \in Connections
    BY OpenedReceived DEF Received, Keyed
  <1>2. waiting \in [TlsMessages -> Nat]
    BY <1>1, CountMessage DEF Connections, TlsContexts
  <1>3. /\ w \in TlsContexts /\ w.heard = waiting /\ w.keys = c.tls.keys
        /\ w.state = c.tls.state /\ w.hellos = c.tls.hellos /\ w.nextKey = c.tls.nextKey
    BY <1>1, <1>2 DEF Connections, TlsContexts
  <1>4. [q EXCEPT !.tls.heard = Count(@, m)] = o
    BY <1>1 DEF Connections
  <1>5. KeysFollow(w)
    BY <1>1, <1>3 DEF Keyed, KeysFollow
  <1> HIDE DEF q, w
  <1>6. o \in Connections
    BY <1>1, <1>3 DEF Connections
  <1>7. /\ o.state = q.state /\ o.tls = w /\ o.heard = q.heard /\ o.error = q.error
        /\ o.closeSent = q.closeSent /\ o.closePending = q.closePending
        /\ o.closeEvent = q.closeEvent /\ o.complete = q.complete
    BY <1>1 DEF Connections
  <1> HIDE DEF o
  <1>8. Keyed(o)
    BY <1>1, <1>3, <1>5, <1>6, <1>7 DEF Received, Keyed
  <1>9. Received(q, o)
    BY <1>7, <1>8 DEF Received, Shut, Ended
  <1>10. Received(c, o) /\ o.heard = c.heard /\ o.tls.heard = waiting
    BY <1>1, <1>3, <1>7, <1>9, ReceivedIsTransitive
  <1> DEFINE t == Take(o.tls, m, last, psk)
             clear == [t EXCEPT !.heard = Nothing]
             passed == [x \in Responses |->
                          IF x \in TlsMessages THEN o.heard[x] + waiting[x] ELSE o.heard[x]]
             hello == o.gotHello \/ waiting["SH"] > 0
             done == [o EXCEPT !.tls = clear, !.heard = passed, !.gotHello = hello]
             end == ToAck(Push(done), e)
  <1>11. ReceiveTls(c, m, e, last, psk)
           = CASE Breaks(c.tls, m) -> o
               [] Alerts(c.tls, m, psk) -> Transmit(o)
               [] OTHER -> Transmit(end)
    <2> DEFINE Outcome(p) ==
          LET u == Take(p.tls, m, last, psk)
              f == [p EXCEPT !.tls = [u EXCEPT !.heard = Nothing],
                             !.heard = [x \in Responses |->
                                IF x \in TlsMessages THEN @[x] + p.tls.heard[x] ELSE @[x]],
                             !.gotHello = @ \/ p.tls.heard["SH"] > 0]
          IN CASE Breaks(c.tls, m) -> p
               [] Alerts(c.tls, m, psk) -> Transmit(p)
               [] OTHER -> Transmit(ToAck(Push(f), e))
    <2>1. ReceiveTls(c, m, e, last, psk) = Outcome([Opened(c) EXCEPT !.tls.heard = Count(@, m)])
      BY DEF ReceiveTls
    <2>2. Outcome(o) = CASE Breaks(c.tls, m) -> o
                         [] Alerts(c.tls, m, psk) -> Transmit(o)
                         [] OTHER -> Transmit(end)
      BY <1>10
    <2> HIDE DEF Outcome, end
    <2> QED  BY <1>4, <2>1, <2>2 DEF q
  <1>12. CASE Breaks(c.tls, m)
    <2>1. d = o /\ ~Alerts(c.tls, m, psk)
      BY <1>11, <1>12 DEF Alerts
    <2> QED  BY <1>10, <1>12, <2>1
  <1>13. CASE Alerts(c.tls, m, psk)
    <2>1. d = Transmit(o) /\ ~Breaks(c.tls, m)
      BY <1>11, <1>13 DEF Alerts
    <2>2. Received(o, d) /\ d.heard = o.heard /\ d.tls = o.tls
      BY <1>8, <2>1, TransmitReceived, TransmitKeeps DEF Kept, Keyed
    <2> QED  BY <1>10, <1>13, <2>1, <2>2, ReceivedIsTransitive
  <1>14. CASE ~Breaks(c.tls, m) /\ ~Alerts(c.tls, m, psk)
    <2>1. d = Transmit(end)
      BY <1>11, <1>14
    <2>2. m \in Expected(o.tls.state)
      BY <1>3, <1>7, <1>14 DEF Alerts
    <2>3. /\ t \in TlsContexts /\ KeysFollow(t)
          /\ "oneSend" \in t.keys => "oneSend" \in o.tls.keys
      BY <1>8, <2>2, TakeType DEF Keyed, Connections
    <2> HIDE DEF t
    <2>4. /\ clear \in TlsContexts /\ clear.heard = Nothing /\ clear.keys = t.keys
          /\ clear.state = t.state /\ clear.hellos = t.hellos /\ clear.nextKey = t.nextKey
      BY <2>3 DEF TlsContexts, Nothing
    <2>5. KeysFollow(clear)
      BY <2>3, <2>4 DEF KeysFollow
    <2>6. /\ passed \in [Responses -> Nat]
          /\ \A x \in TlsMessages : passed[x] = c.heard[x] + waiting[x]
      <3>1. o.heard \in [Responses -> Nat] /\ TlsMessages \subseteq Responses
        BY <1>6 DEF Connections, Responses
      <3> QED  BY <1>2, <1>10, <3>1
    <2>7. hello \in BOOLEAN
      OBVIOUS
    <2> HIDE DEF clear, passed, hello
    <2>8. done \in Connections
      BY <1>6, <2>4, <2>6, <2>7 DEF Connections
    <2>9. /\ done.state = o.state /\ done.tls = clear /\ done.heard = passed
          /\ done.error = o.error /\ done.complete = o.complete
          /\ done.closeSent = o.closeSent /\ done.closePending = o.closePending
          /\ done.closeEvent = o.closeEvent
      BY <1>6 DEF Connections
    <2> HIDE DEF done
    <2>10. Keyed(done)
      BY <1>8, <2>3, <2>4, <2>5, <2>8, <2>9 DEF Keyed
    <2>11. Received(o, done)
      BY <2>9, <2>10 DEF Received, Shut, Ended
    <2>12. Keyed(Push(done)) /\ Alike(done, Push(done))
      BY <2>10, PushKeyed
    <2>13. Received(done, Push(done))
      BY <2>12 DEF Alike, Received, Shut, Ended
    <2>14. /\ Received(Push(done), end) /\ end.heard = Push(done).heard
           /\ end.tls = Push(done).tls
      BY <2>12, ToAckReceived
    <2> HIDE DEF end
    <2>15. Received(end, d) /\ d.heard = end.heard /\ d.tls = end.tls
      BY <2>1, <2>14, TransmitReceived, TransmitKeeps DEF Kept, Keyed, Received
    <2>16. Received(c, d)
      <3>1. Received(c, done)
        BY <1>10, <2>11, ReceivedIsTransitive
      <3>2. Received(c, Push(done))
        BY <2>13, <3>1, ReceivedIsTransitive
      <3>3. Received(c, end)
        BY <2>14, <3>2, ReceivedIsTransitive
      <3> QED  BY <2>15, <3>3, ReceivedIsTransitive
    <2>17. d.heard = passed /\ d.tls.heard = Nothing
      BY <2>4, <2>9, <2>12, <2>14, <2>15 DEF Alike
    <2> QED  BY <1>14, <2>6, <2>16, <2>17
  <1> QED  BY <1>12, <1>13, <1>14

(***************************************************************************)
(* The invariants.                                                         *)
(***************************************************************************)
\* TypeOK, with the fields of the connection and the bound 0rttPing has.
StateOK ==
  /\ Keyed(conn)
  /\ phase \in {"idle", "grace", "wait"} /\ letter \in AllLetters \cup {"none"}
  /\ answer \subseteq Outputs
  /\ zrtt \in {"notReady", "ready", "tooLate"}
  /\ letters \in 0..MaxLetters /\ zeroPings \in 0..letters
  /\ deaf \in BOOLEAN /\ lostBefore \in BOOLEAN /\ included \in BOOLEAN
  /\ idsWritten \in BOOLEAN /\ canLeave \in BOOLEAN /\ ticket \in BOOLEAN /\ file \in BOOLEAN
  /\ seen \in [TlsMessages -> Nat] /\ taken \in [TlsMessages -> Nat]
  /\ told \in [TlsMessages -> Nat]

\* A message that was taken is named or waits to be, and what still waits in
\* the TLS context came as well.
Accounts ==
  \A m \in TlsMessages :
    /\ taken[m] <= told[m] + conn.heard[m]
    /\ told[m] + conn.heard[m] + conn.tls.heard[m] <= seen[m]

MapperInv == StateOK /\ Accounts

\* A letter that closes has sent its CONNECTION_CLOSE or raised.
ClosersClose ==
  phase \in {"grace", "wait"} /\ letter \in CloseLetters /\ ~Ended(conn) /\ ~conn.error
    => conn.closeSent

CloseInv == Shut(conn) /\ ClosersClose

LEMMA HeardTypes ==
  ASSUME NEW c, Keyed(c)
  PROVE  /\ c.heard \in [Responses -> Nat] /\ c.tls.heard \in [TlsMessages -> Nat]
         /\ \A m \in TlsMessages : c.heard[m] \in Nat /\ c.tls.heard[m] \in Nat
  BY DEF Keyed, Connections, TlsContexts, Responses

LEMMA FreshKeyed ==
  /\ Keyed(FreshConnection) /\ Shut(FreshConnection) /\ ~Ended(FreshConnection)
  /\ FreshConnection.heard = Silence /\ FreshConnection.tls.heard = Nothing
  <1>1. FreshConnection \in Connections
    BY FreshConnectionType
  <1>2. FreshConnection.tls = FreshTls /\ KeysFollow(FreshTls)
    BY FreshTlsType DEF FreshConnection
  <1>3. FreshTls.keys = {} /\ FreshTls.heard = Nothing
    BY DEF FreshTls
  <1>4. /\ FreshConnection.heard = Silence /\ FreshConnection.state = "first"
        /\ FreshConnection.closePending = FALSE /\ FreshConnection.closeEvent = FALSE
    BY DEF FreshConnection
  <1> QED  BY <1>1, <1>2, <1>3, <1>4 DEF Keyed, Shut, Ended, EndStates

LEMMA FreshAccounts ==
  /\ Nothing \in [TlsMessages -> Nat]
  /\ \A m \in TlsMessages : Nothing[m] = 0 /\ Silence[m] = 0
  BY DEF Nothing, Silence, Responses

LEMMA InitMapper == Init => MapperInv /\ CloseInv
  <1> SUFFICES ASSUME Init PROVE MapperInv /\ CloseInv
    OBVIOUS
  <1>1. StateOK
    <2>1. /\ deaf \in BOOLEAN /\ lostBefore \in BOOLEAN /\ included \in BOOLEAN
          /\ idsWritten \in BOOLEAN /\ canLeave \in BOOLEAN /\ ticket \in BOOLEAN
          /\ file \in BOOLEAN
      BY MapperAssumption DEF Init
    <2>2. letters \in 0..MaxLetters /\ zeroPings \in 0..letters
      BY MapperAssumption DEF Init
    <2>3. /\ seen \in [TlsMessages -> Nat] /\ taken \in [TlsMessages -> Nat]
          /\ told \in [TlsMessages -> Nat]
      BY FreshAccounts DEF Init
    <2>4. /\ Keyed(conn) /\ answer \subseteq Outputs
          /\ phase \in {"idle", "grace", "wait"} /\ letter \in AllLetters \cup {"none"}
          /\ zrtt \in {"notReady", "ready", "tooLate"}
      BY FreshKeyed DEF Init
    <2> QED  BY <2>1, <2>2, <2>3, <2>4 DEF StateOK
  <1>2. Accounts
    BY FreshKeyed, FreshAccounts DEF Init, Accounts
  <1>3. CloseInv
    BY FreshKeyed DEF Init, CloseInv, ClosersClose
  <1> QED  BY <1>1, <1>2, <1>3 DEF MapperInv

\* The two ways a letter leaves the accounts as they are.
LEMMA SilentAccounts ==
  ASSUME MapperInv, Keyed(conn'), Silently(conn, conn') \/ NoMessage(conn, conn'),
         UNCHANGED <<seen, taken, told>>
  PROVE  Accounts'
  <1>1. /\ \A m \in TlsMessages : conn'.heard[m] = conn.heard[m]
        /\ conn'.tls.heard = conn.tls.heard \/ conn'.tls.heard = Nothing
    BY DEF Silently, NoMessage
  <1> SUFFICES ASSUME NEW m \in TlsMessages
               PROVE  /\ taken'[m] <= told'[m] + conn'.heard[m]
                      /\ told'[m] + conn'.heard[m] + conn'.tls.heard[m] <= seen'[m]
    BY DEF Accounts
  <1>2. /\ conn.heard[m] \in Nat /\ conn.tls.heard[m] \in Nat
        /\ taken[m] \in Nat /\ told[m] \in Nat /\ seen[m] \in Nat
        /\ taken[m] <= told[m] + conn.heard[m]
        /\ told[m] + conn.heard[m] + conn.tls.heard[m] <= seen[m]
    BY HeardTypes DEF MapperInv, StateOK, Accounts
  <1>3. conn'.tls.heard[m] \in Nat /\ conn'.tls.heard[m] <= conn.tls.heard[m]
    BY <1>1, <1>2, FreshAccounts
  <1> QED  BY <1>1, <1>2, <1>3

LEMMA StartKeeps ==
  ASSUME MapperInv, Start, answer' = {}, UNCHANGED <<phase, file>>, NEW l \in AllLetters,
         letter' = l, letters' \in 0..MaxLetters
  PROVE  MapperInv' /\ Shut(conn') /\ ~Ended(conn')
  <1>1. StateOK'
    <2>1. /\ deaf' \in BOOLEAN /\ lostBefore' \in BOOLEAN /\ included' \in BOOLEAN
          /\ idsWritten' \in BOOLEAN /\ canLeave' \in BOOLEAN /\ ticket' \in BOOLEAN
          /\ file' \in BOOLEAN
      BY DEF MapperInv, StateOK, Start
    <2>2. letters' \in 0..MaxLetters /\ zeroPings' \in 0..letters'
      BY MapperAssumption DEF Start
    <2>3. /\ seen' \in [TlsMessages -> Nat] /\ taken' \in [TlsMessages -> Nat]
          /\ told' \in [TlsMessages -> Nat]
      BY FreshAccounts DEF Start
    <2>4. /\ Keyed(conn') /\ answer' \subseteq Outputs
          /\ phase' \in {"idle", "grace", "wait"} /\ letter' \in AllLetters \cup {"none"}
          /\ zrtt' \in {"notReady", "ready", "tooLate"}
      BY FreshKeyed DEF MapperInv, StateOK, Start
    <2> QED  BY <2>1, <2>2, <2>3, <2>4 DEF StateOK
  <1>2. Accounts'
    BY FreshKeyed, FreshAccounts DEF Start, Accounts
  <1>3. Shut(conn') /\ ~Ended(conn')
    BY FreshKeyed DEF Start
  <1> QED  BY <1>1, <1>2, <1>3 DEF MapperInv

LEMMA RunLetterKeeps ==
  ASSUME MapperInv, NEW l \in AllLetters, RunLetter(l), letter' = l,
         letters < MaxLetters, letters' = letters + 1, ~Ended(conn)
  PROVE  MapperInv' /\ (CloseInv /\ l # "norClose" => CloseInv')
  <1> DEFINE saves == l \in {"hndFin", "hndFin-l", "zeroFin"} /\ FinishedIsSent(conn.tls)
                        /\ conn.tls.extracted
             runs == target = "mvfst" => l \notin Spared
             sends == runs /\ l \notin ConfigLetters /\ (l \in ZeroLetters => zrtt = "ready")
  <1>0. /\ deaf' = (sends /\ (deaf \/ l \in LostLetters))
        /\ conn' = IF sends THEN Send(l) ELSE IF runs THEN Configure(l) ELSE conn
        /\ SaveTicket(saves)
        /\ zrtt' = IF l \in {"initHello", "initHello-l"} /\ TicketPath /\ zrtt = "notReady"
                   THEN "ready" ELSE TooLate(saves)
        /\ zeroPings' = IF sends /\ l = "zeroPing" THEN zeroPings + 1 ELSE zeroPings
        /\ included' = (included \/ (l \in {"includeToken", "includeTokenOld"} /\ conn.retried))
        /\ idsWritten' = (idsWritten \/ (l = "newIds" /\ conn.complete))
        /\ phase' = CASE ~sends -> "idle"
                      [] sends /\ l \in CloseLetters /\ ~conn'.error /\ target = "other" -> "grace"
                      [] OTHER -> "wait"
        /\ answer' = {}
        /\ UNCHANGED <<lostBefore, ticket, seen, taken, told>>
    BY DEF RunLetter
  <1>1. StateOK /\ Keyed(conn) /\ ticket \in BOOLEAN
    BY DEF MapperInv, StateOK
  <1>2. sends => Sent(l, conn')
    <2>1. CASE sends
      <3>1. conn' = Send(l) /\ l \in AllLetters \ ConfigLetters
        BY <1>0, <2>1
      <3> HIDE DEF sends
      <3> QED  BY <1>1, <3>1, SendKeyed
    <2> QED  BY <2>1
  <1>3. ~sends => /\ Keyed(conn') /\ Silently(conn, conn')
                  /\ Shut(conn) => Shut(conn')
    <2>1. CASE ~sends
      <3>1. conn' = Configure(l) \/ conn' = conn
        BY <1>0, <2>1
      <3> HIDE DEF sends
      <3>2. CASE conn' = Configure(l)
        BY <1>1, <3>2, ConfigureKeyed
      <3>3. CASE conn' = conn
        BY <1>1, <3>3 DEF Silently, Keyed, Connections
      <3> QED  BY <3>1, <3>2, <3>3
    <2> QED  BY <2>1
  <1>4. Keyed(conn') /\ Silently(conn, conn')
    BY <1>2, <1>3 DEF Sent
  <1>5. phase' \in {"idle", "grace", "wait"} /\ (~sends => phase' = "idle")
    BY <1>0
  <1>6. /\ deaf' \in BOOLEAN /\ included' \in BOOLEAN /\ idsWritten' \in BOOLEAN
        /\ canLeave' \in BOOLEAN /\ file' \in BOOLEAN
    BY <1>0, <1>1, Zenon DEF SaveTicket
  <1>7. zrtt' \in {"notReady", "ready", "tooLate"}
    BY <1>0, <1>1 DEF StateOK, TooLate
  <1>8. letters' \in 0..MaxLetters /\ zeroPings' \in 0..letters'
    BY <1>0, <1>1, MapperAssumption DEF StateOK
  <1> HIDE DEF saves, runs, sends
  <1>9. StateOK'
    BY <1>0, <1>1, <1>4, <1>5, <1>6, <1>7, <1>8 DEF StateOK
  <1>10. Accounts'
    BY <1>0, <1>4, SilentAccounts
  <1>11. ASSUME CloseInv, l # "norClose" PROVE CloseInv'
    <2>1. CASE sends
      <3>1. Shut(conn') /\ (l \in CloseLetters => conn'.error \/ conn'.closeSent)
        BY <1>2, <1>11, <2>1 DEF Sent, CloseInv
      <3> QED  BY <3>1 DEF CloseInv, ClosersClose
    <2>2. CASE ~sends
      <3>1. Shut(conn')
        BY <1>3, <1>11, <2>2 DEF CloseInv
      <3> QED  BY <1>5, <2>2, <3>1 DEF CloseInv, ClosersClose
    <2> QED  BY <2>1, <2>2
  <1> QED  BY <1>9, <1>10, <1>11 DEF MapperInv

LEMMA NextLetterKeeps ==
  ASSUME MapperInv, NEW l \in Letters, NextLetter(l)
  PROVE  MapperInv' /\ (CloseInv /\ l # "norClose" => CloseInv')
  <1>0. /\ l \in AllLetters /\ phase = "idle" /\ letters < MaxLetters
        /\ letters' = IF Ended(conn) THEN MaxLetters ELSE letters + 1
        /\ letter' = l
    BY MapperAssumption DEF NextLetter
  <1>1. /\ letters' \in 0..MaxLetters /\ zeroPings \in 0..letters'
        /\ letters \in Nat
    BY <1>0, MapperAssumption DEF MapperInv, StateOK
  <1>2. CASE lostBefore
    <2>1. /\ phase' \in {"wait", "idle"} /\ (phase' = "wait" => l = "wait")
          /\ lostBefore' \in BOOLEAN /\ answer' = {}
          /\ UNCHANGED <<conn, zrtt, zeroPings, deaf, included, idsWritten, canLeave,
                         ticket, file, seen, taken, told>>
      BY <1>2 DEF NextLetter
    <2>2. StateOK'
      BY <1>0, <1>1, <2>1 DEF MapperInv, StateOK
    <2>3. Accounts'
      BY <2>1 DEF MapperInv, Accounts
    <2>4. CloseInv => CloseInv'
      BY <1>0, <2>1 DEF CloseInv, ClosersClose, CloseLetters
    <2> QED  BY <2>2, <2>3, <2>4 DEF MapperInv
  <1>3. CASE ~lostBefore /\ (Ended(conn) \/ Skipped(l))
    <2>1. /\ answer' \subseteq {"<ConClosed>"}
          /\ deaf' = (deaf \/ l \in LostLetters)
          /\ UNCHANGED <<conn, phase, zrtt, zeroPings, lostBefore, included, idsWritten,
                         canLeave, ticket, file, seen, taken, told>>
      BY <1>3 DEF NextLetter
    <2>2. deaf' \in BOOLEAN /\ answer' \subseteq Outputs
      BY <2>1 DEF Outputs
    <2>3. StateOK'
      BY <1>0, <1>1, <2>1, <2>2 DEF MapperInv, StateOK
    <2>4. Accounts'
      BY <2>1 DEF MapperInv, Accounts
    <2>5. CloseInv => CloseInv'
      BY <1>0, <2>1 DEF CloseInv, ClosersClose
    <2> QED  BY <2>3, <2>4, <2>5 DEF MapperInv
  <1>4. CASE ~lostBefore /\ ~Ended(conn) /\ ~Skipped(l) /\ l = "disconnect" /\ canLeave
    <2>1. Start /\ answer' = {} /\ UNCHANGED <<phase, file>>
      BY <1>4 DEF NextLetter
    <2>2. MapperInv' /\ Shut(conn') /\ ~Ended(conn')
      BY <1>0, <1>1, <2>1, StartKeeps
    <2>3. CloseInv'
      BY <1>0, <2>1, <2>2 DEF CloseInv, ClosersClose
    <2> QED  BY <2>2, <2>3
  <1>5. CASE ~lostBefore /\ ~Ended(conn) /\ ~Skipped(l) /\ ~(l = "disconnect" /\ canLeave)
    <2>1. RunLetter(l)
      BY <1>5 DEF NextLetter
    <2>2. letters' = letters + 1
      BY <1>0, <1>5
    <2> QED  BY <1>0, <1>5, <2>1, <2>2, RunLetterKeeps
  <1> QED  BY <1>2, <1>3, <1>4, <1>5

\* What the packets of the server and the probe leave of the invariants.
LEMMA WaitingKeeps ==
  ASSUME MapperInv, Received(conn, conn'), ~Ended(conn),
         phase \in {"grace", "wait"}, phase' \in {"grace", "wait"}, letter' = letter,
         CloseInv
  PROVE  CloseInv'
  <1>1. Shut(conn')
    BY DEF CloseInv, Received
  <1>2. ClosersClose'
    BY DEF CloseInv, ClosersClose, Received
  <1> QED  BY <1>1, <1>2 DEF CloseInv

LEMMA CheckServerCloseKeeps ==
  ASSUME MapperInv, CheckServerClose
  PROVE  MapperInv' /\ (CloseInv => CloseInv')
  <1>1. /\ phase = "grace" /\ phase' = "wait" /\ conn' = Transmit(Probe(conn, "none"))
        /\ UNCHANGED <<letter, answer, zrtt, zeroPings, deaf, lostBefore, included,
                       idsWritten, canLeave, ticket, file, letters, extra, seen, taken, told>>
    BY DEF CheckServerClose, mapperVars, historyVars
  <1>2. Keyed(conn)
    BY DEF MapperInv, StateOK
  <1>3. Keyed(Probe(conn, "none")) /\ Alike(conn, Probe(conn, "none"))
    BY <1>2, ProbeKeyed
  <1>4. /\ Keyed(conn') /\ Silently(conn, conn')
        /\ Shut(conn) => Shut(conn')
    BY <1>1, <1>3, AfterTransmit
  <1>5. StateOK'
    BY <1>1, <1>4 DEF MapperInv, StateOK
  <1>6. Accounts'
    BY <1>1, <1>4, SilentAccounts
  <1>7. CloseInv => CloseInv'
    BY <1>1, <1>4 DEF CloseInv, ClosersClose, Silently, Ended
  <1> QED  BY <1>5, <1>6, <1>7 DEF MapperInv

LEMMA ListeningKeeps ==
  ASSUME MapperInv, Listening, Keyed(conn'),
         zrtt' \in {"notReady", "ready", "tooLate"}, canLeave' \in BOOLEAN, file' \in BOOLEAN,
         seen' \in [TlsMessages -> Nat], taken' \in [TlsMessages -> Nat]
  PROVE  StateOK'
  BY DEF Listening, MapperInv, StateOK

LEMMA ServerMessageKeeps ==
  ASSUME MapperInv, NEW m \in TlsMessages, NEW last \in BOOLEAN, NEW psk \in BOOLEAN,
         ServerMessage(m, last, psk)
  PROVE  Received(conn, conn') /\ MapperInv' /\ (CloseInv => CloseInv')
  <1> DEFINE e == MessageEpoch(m)
             ok == ~Breaks(conn.tls, m) /\ ~Alerts(conn.tls, m, psk)
             saves == ok /\ m = "NST" /\ conn.tls.state = "post"
             waiting == Count(conn.tls.heard, m)
  <1>1. /\ Listening
        /\ conn' = ReceiveTls(conn, m, e, last, psk)
        /\ seen' = Count(seen, m)
        /\ taken' = IF ok THEN Count(taken, m) ELSE taken
        /\ zrtt' = TooLate(saves)
        /\ SaveTicket(saves)
    BY DEF ServerMessage
  <1>2. e \in Epochs
    BY DEF MessageEpoch, Epochs
  <1>3. Keyed(conn)
    BY DEF MapperInv, StateOK
  <1>4. /\ Received(conn, conn')
        /\ Breaks(conn.tls, m) \/ Alerts(conn.tls, m, psk)
             => conn'.heard = conn.heard /\ conn'.tls.heard = waiting
        /\ ~Breaks(conn.tls, m) /\ ~Alerts(conn.tls, m, psk)
             => /\ conn'.tls.heard = Nothing
                /\ \A x \in TlsMessages : conn'.heard[x] = conn.heard[x] + waiting[x]
    <2> HIDE DEF e, ok, saves, waiting
    <2> QED  BY <1>1, <1>2, <1>3, ReceiveTlsKeeps DEF waiting
  <1>5. zrtt' \in {"notReady", "ready", "tooLate"} /\ canLeave' \in BOOLEAN /\ file' \in BOOLEAN
    <2>1. zrtt' \in {"notReady", "ready", "tooLate"}
      BY <1>1 DEF MapperInv, StateOK, TooLate
    <2>2. canLeave' \in BOOLEAN /\ file' \in BOOLEAN
      BY <1>1, Zenon DEF SaveTicket
    <2> QED  BY <2>1, <2>2
  <1>6. /\ seen' \in [TlsMessages -> Nat] /\ taken' \in [TlsMessages -> Nat]
        /\ \A x \in TlsMessages : seen'[x] = IF x = m THEN seen[x] + 1 ELSE seen[x]
        /\ \A x \in TlsMessages :
             taken'[x] = IF ok /\ x = m THEN taken[x] + 1 ELSE taken[x]
    <2>1. seen \in [TlsMessages -> Nat] /\ taken \in [TlsMessages -> Nat]
      BY DEF MapperInv, StateOK
    <2> HIDE DEF ok, saves, e
    <2> QED  BY <1>1, <2>1, CountMessage
  <1>7. StateOK'
    BY <1>1, <1>4, <1>5, <1>6, ListeningKeeps DEF Received
  <1>8. \A x \in TlsMessages :
          waiting[x] = IF x = m THEN conn.tls.heard[x] + 1 ELSE conn.tls.heard[x]
    BY <1>3, HeardTypes, CountMessage
  <1> HIDE DEF e, saves, waiting
  <1>9. Accounts'
    <2> SUFFICES ASSUME NEW x \in TlsMessages
                 PROVE  /\ taken'[x] <= told'[x] + conn'.heard[x]
                        /\ told'[x] + conn'.heard[x] + conn'.tls.heard[x] <= seen'[x]
      BY DEF Accounts
    <2>1. /\ conn.heard[x] \in Nat /\ conn.tls.heard[x] \in Nat
          /\ taken[x] \in Nat /\ told[x] \in Nat /\ seen[x] \in Nat
          /\ taken[x] <= told[x] + conn.heard[x]
          /\ told[x] + conn.heard[x] + conn.tls.heard[x] <= seen[x]
      BY <1>3, HeardTypes DEF MapperInv, StateOK, Accounts
    <2>2. told' = told
      BY <1>1 DEF Listening
    <2>3. CASE ok
      <3>1. conn'.tls.heard[x] = 0 /\ conn'.heard[x] = conn.heard[x] + waiting[x]
        BY <1>4, <2>3, FreshAccounts
      <3>2. taken'[x] = IF x = m THEN taken[x] + 1 ELSE taken[x]
        BY <1>6, <2>3
      <3> QED  BY <1>6, <1>8, <2>1, <2>2, <3>1, <3>2
    <2>4. CASE ~ok
      <3>1. conn'.heard[x] = conn.heard[x] /\ conn'.tls.heard[x] = waiting[x]
        BY <1>4, <2>4
      <3>2. taken'[x] = taken[x]
        BY <1>6, <2>4
      <3> QED  BY <1>6, <1>8, <2>1, <2>2, <3>1, <3>2
    <2> QED  BY <2>3, <2>4
  <1>10. CloseInv => CloseInv'
    <2>1. ~Ended(conn) /\ phase \in {"grace", "wait"} /\ phase' = phase /\ letter' = letter
      BY <1>1 DEF Listening
    <2> QED  BY <1>4, <2>1, WaitingKeeps
  <1> QED  BY <1>4, <1>7, <1>9, <1>10 DEF MapperInv

LEMMA ServerFrameKeeps ==
  ASSUME MapperInv, ServerFrame
  PROVE  Received(conn, conn') /\ MapperInv' /\ (CloseInv => CloseInv')
  <1>1. Listening /\ UNCHANGED <<zrtt, canLeave, file, seen, taken>>
    BY DEF ServerFrame
  <1>2. Keyed(conn)
    BY DEF MapperInv, StateOK
  <1>3. \/ conn' \in {ReceiveDone(conn), ReceiveToken(conn), ReceiveClose(conn)}
        \/ \E e \in conn.pings : conn' = ReceivePingAck(conn, e)
        \/ \E fits \in BOOLEAN \cup {conn.dst \in conn.knocked} : conn' = ReceiveRetry(conn, fits)
        \/ \E common \in BOOLEAN : conn' = ReceiveNegotiation(conn, common)
    BY Zenon DEF ServerFrame
  <1>4. Received(conn, conn') /\ NoMessage(conn, conn')
    BY <1>2, <1>3, ReceiveDoneKeeps, ReceiveTokenKeeps, ReceiveCloseKeeps, ReceivePingAckKeeps,
       ReceiveRetryKeeps, ReceiveNegotiationKeeps
  <1>5. StateOK'
    <2>1. /\ zrtt' \in {"notReady", "ready", "tooLate"} /\ canLeave' \in BOOLEAN
          /\ file' \in BOOLEAN
          /\ seen' \in [TlsMessages -> Nat] /\ taken' \in [TlsMessages -> Nat]
      BY <1>1 DEF MapperInv, StateOK
    <2> QED  BY <1>1, <1>4, <2>1, ListeningKeeps DEF Received
  <1>6. Accounts'
    BY <1>1, <1>4, SilentAccounts DEF Received, Listening
  <1>7. CloseInv => CloseInv'
    <2>1. ~Ended(conn) /\ phase \in {"grace", "wait"} /\ phase' = phase /\ letter' = letter
      BY <1>1 DEF Listening
    <2> QED  BY <1>4, <2>1, WaitingKeeps
  <1> QED  BY <1>4, <1>5, <1>6, <1>7 DEF MapperInv

LEMMA GetResponseKeeps ==
  ASSUME MapperInv, GetResponse
  PROVE  MapperInv' /\ (CloseInv => CloseInv')
  <1> DEFINE state == IF GivesUp THEN "closing" ELSE conn.state
             event == conn.closeEvent /\ ~Reopens
             d == [conn EXCEPT !.state = state, !.closeEvent = event,
                               !.heard = Silence, !.error = FALSE]
  <1>1. conn' = d
    BY DEF GetResponse
  <1>2. /\ phase' = "idle" /\ letter' = "none" /\ deaf' = FALSE
        /\ zeroPings' = ZeroPingsLeft
        /\ told' = [m \in TlsMessages |-> told[m] + conn.heard[m]]
        /\ lostBefore' = (lostBefore \/ letter \in LostLetters)
        /\ UNCHANGED <<zrtt, included, idsWritten, canLeave, ticket, file,
                       letters, extra, seen, taken>>
    BY DEF GetResponse
  <1>3. answer' \subseteq Outputs
    <2>1. PingOutput \subseteq Outputs
      BY DEF PingOutput, Outputs
    <2>2. /\ {m \in Responses \ {"PING.ACKED"} : Heard(m)} \subseteq Outputs
          /\ {"<ConClosed>"} \subseteq Outputs /\ {""} \subseteq Outputs
      BY DEF Outputs
    <2> QED  BY <2>1, <2>2 DEF GetResponse
  <1>4. StateOK /\ Keyed(conn) /\ conn \in Connections
    BY DEF MapperInv, StateOK, Keyed
  <1>5. /\ state \in {"first", "connected"} \cup EndStates
        /\ event \in BOOLEAN /\ (event => conn.closeEvent)
        /\ Ended(conn) => state \in EndStates
    BY <1>4 DEF Connections, EndStates, Ended
  <1>6. Silence \in [Responses -> Nat]
    BY DEF Silence
  <1> HIDE DEF state, event
  <1>7. d \in Connections
    BY <1>4, <1>5, <1>6 DEF Connections
  <1>8. /\ d.state = state /\ d.tls = conn.tls /\ d.heard = Silence /\ d.complete = conn.complete
        /\ d.closeEvent = event /\ d.closePending = conn.closePending
        /\ d.closeSent = conn.closeSent
    BY <1>4 DEF Connections
  <1> HIDE DEF d
  <1>9. Keyed(conn')
    BY <1>1, <1>4, <1>7, <1>8 DEF Keyed
  <1>10. zeroPings' \in 0..letters
    <2>1. conn.heard["PING.ACKED"] \in Nat
      BY <1>4, HeardTypes DEF Responses
    <2> QED  BY <1>2, <1>4, <2>1 DEF StateOK, ZeroPingsLeft
  <1>11. told' \in [TlsMessages -> Nat]
    <2>1. \A m \in TlsMessages : told[m] + conn.heard[m] \in Nat
      BY <1>4, HeardTypes DEF StateOK
    <2> QED  BY <1>2, <2>1
  <1>12. deaf' \in BOOLEAN /\ lostBefore' \in BOOLEAN
    BY <1>2
  <1>13. StateOK'
    BY <1>2, <1>3, <1>4, <1>9, <1>10, <1>11, <1>12 DEF StateOK
  <1>14. Accounts'
    <2> SUFFICES ASSUME NEW m \in TlsMessages
                 PROVE  /\ taken'[m] <= told'[m] + conn'.heard[m]
                        /\ told'[m] + conn'.heard[m] + conn'.tls.heard[m] <= seen'[m]
      BY DEF Accounts
    <2>1. /\ conn.heard[m] \in Nat /\ conn.tls.heard[m] \in Nat
          /\ taken[m] \in Nat /\ told[m] \in Nat /\ seen[m] \in Nat
          /\ taken[m] <= told[m] + conn.heard[m]
          /\ told[m] + conn.heard[m] + conn.tls.heard[m] <= seen[m]
      BY <1>4, HeardTypes DEF MapperInv, StateOK, Accounts
    <2>2. told'[m] = told[m] + conn.heard[m] /\ taken'[m] = taken[m] /\ seen'[m] = seen[m]
      BY <1>2
    <2>3. conn'.heard[m] = 0 /\ conn'.tls.heard[m] = conn.tls.heard[m]
      BY <1>1, <1>8, FreshAccounts
    <2> QED  BY <2>1, <2>2, <2>3
  <1>15. CloseInv => CloseInv'
    BY <1>1, <1>2, <1>5, <1>8 DEF CloseInv, ClosersClose, Shut, Ended
  <1> QED  BY <1>13, <1>14, <1>15 DEF MapperInv

LEMMA StepKeeps ==
  ASSUME MapperInv, [Next]_vars
  PROVE  MapperInv' /\ (CloseInv /\ "norClose" \notin Letters => CloseInv')
  <1>1. CASE UNCHANGED vars
    BY <1>1 DEF vars, mapperVars, historyVars, MapperInv, StateOK, Accounts,
                CloseInv, ClosersClose
  <1>2. ASSUME NEW l \in Letters, NextLetter(l)
        PROVE  MapperInv' /\ (CloseInv /\ "norClose" \notin Letters => CloseInv')
    BY <1>2, NextLetterKeeps
  <1>3. CASE CheckServerClose
    BY <1>3, CheckServerCloseKeeps
  <1>4. ASSUME NEW m \in TlsMessages, NEW last \in BOOLEAN, NEW psk \in BOOLEAN,
               ServerMessage(m, last, psk)
        PROVE  MapperInv' /\ (CloseInv => CloseInv')
    BY <1>4, ServerMessageKeeps
  <1>5. CASE ServerFrame
    BY <1>5, ServerFrameKeeps
  <1>6. CASE GetResponse
    BY <1>6, GetResponseKeeps
  <1>7. CASE WordEnds
    BY <1>1, <1>7 DEF WordEnds
  <1> QED  BY <1>1, <1>2, <1>3, <1>4, <1>5, <1>6, <1>7 DEF Next

LEMMA TargetStays ==
  ASSUME [Next]_vars
  PROVE  target' = target
  <1>1. CASE UNCHANGED vars \/ WordEnds
    BY <1>1 DEF vars, WordEnds
  <1>2. ASSUME NEW l \in Letters, NextLetter(l) PROVE target' = target
    BY <1>2 DEF NextLetter
  <1>3. CASE CheckServerClose \/ ServerFrame \/ GetResponse
    BY <1>3 DEF CheckServerClose, ServerFrame, Listening, GetResponse
  <1>4. ASSUME NEW m \in TlsMessages, NEW last \in BOOLEAN, NEW psk \in BOOLEAN,
               ServerMessage(m, last, psk)
        PROVE  target' = target
    BY <1>4 DEF ServerMessage, Listening
  <1> QED  BY <1>1, <1>2, <1>3, <1>4 DEF Next

(***************************************************************************)
(* The theorems.                                                           *)
(***************************************************************************)
\* The state of mapper and connection is what its parts are meant to be, and
\* every TLS message that came is accounted for: in the TLS context, in
\* peerResponse, or in an answer.
THEOREM MapperInvHolds == Spec => []MapperInv
  <1>1. Init => MapperInv
    BY InitMapper
  <1>2. MapperInv /\ [Next]_vars => MapperInv'
    BY StepKeeps
  <1> QED  BY <1>1, <1>2, PTL DEF Spec

\* The types of Mapper, the fields of the connection included.
THEOREM TypeOKHolds == Spec => []TypeOK
  <1>1. MapperInv /\ target \in Targets => TypeOK
    <2> SUFFICES ASSUME MapperInv, target \in Targets PROVE TypeOK
      OBVIOUS
    <2>1. conn \in Connections
      BY DEF MapperInv, StateOK, Keyed
    <2>2. /\ conn.tls \in TlsContexts
          /\ conn.state \in {"first", "connected"} \cup EndStates
          /\ conn.epoch \in Epochs \cup {"none"} /\ conn.dst \in {"orig", "retry", "server"}
          /\ conn.heard \in [Responses -> Nat]
      BY <2>1 DEF Connections
    <2>3. zeroPings \in 0..MaxLetters
      BY MapperAssumption DEF MapperInv, StateOK
    <2> QED  BY <2>2, <2>3 DEF MapperInv, StateOK, TypeOK
  <1>2. Init => target \in Targets
    BY DEF Init
  <1>3. target \in Targets /\ [Next]_vars => (target \in Targets)'
    BY TargetStays
  <1>4. Spec => [](target \in Targets)
    BY <1>2, <1>3, PTL DEF Spec
  <1> QED  BY <1>1, <1>4, MapperInvHolds, PTL

\* Whatever letters a word has and whatever the server sends, 1-RTT packets are
\* sent only when they can be received, and neither comes before the HANDSHAKE
\* keys.
THEOREM KeyOrderHolds == Spec => []KeyOrder
  <1>1. MapperInv => KeyOrder
    BY DEF MapperInv, StateOK, Keyed, KeysFollow, KeyOrder
  <1> QED  BY <1>1, MapperInvHolds, PTL

\* An answer names every TLS message that was taken, and none twice.
THEOREM AnswersMatchMessagesHolds == Spec => []AnswersMatchMessages
  <1>1. MapperInv => AnswersMatchMessages
    <2> SUFFICES ASSUME MapperInv, NEW m \in TlsMessages
                 PROVE  /\ taken[m] <= told[m] + conn.heard[m]
                        /\ told[m] + conn.heard[m] <= seen[m]
      BY DEF AnswersMatchMessages
    <2>1. /\ conn.heard[m] \in Nat /\ conn.tls.heard[m] \in Nat
          /\ told[m] \in Nat /\ seen[m] \in Nat
      BY HeardTypes DEF MapperInv, StateOK
    <2> QED  BY <2>1 DEF MapperInv, Accounts
  <1> QED  BY <1>1, MapperInvHolds, PTL

\* A letter that closes in a packet space of its own leaves a CONNECTION_CLOSE
\* sent, or an error.  norClose leaves the space to the epoch an earlier letter
\* has set, which may have no key.
THEOREM CloseInvHolds ==
  ASSUME "norClose" \notin Letters
  PROVE  Spec => [](MapperInv /\ CloseInv)
  <1>1. Init => MapperInv /\ CloseInv
    BY InitMapper
  <1>2. (MapperInv /\ CloseInv) /\ [Next]_vars => (MapperInv /\ CloseInv)'
    BY StepKeeps
  <1> QED  BY <1>1, <1>2, PTL DEF Spec

\* Whatever the target, getResponse gives a connection up only after a CONNECTION_CLOSE
\* of either end, or, of MSQUIC, when a letter that closes raised.
THEOREM GivesUpAfterCloseHolds ==
  ASSUME "norClose" \notin Letters
  PROVE  Spec => GivesUpAfterClose
  <1> DEFINE Rule == ~Ended(conn) /\ conn'.state = "closing" =>
                       \/ conn.closeSent \/ Heard("CONNECTION_CLOSE")
                       \/ target = "msquic" /\ letter \in CloseLetters /\ conn.error
  <1>1. MapperInv /\ CloseInv /\ [Next]_vars => [Rule]_vars
    <2> SUFFICES ASSUME MapperInv, CloseInv, Next, ~Ended(conn), conn'.state = "closing"
                 PROVE  \/ conn.closeSent \/ Heard("CONNECTION_CLOSE")
                        \/ target = "msquic" /\ letter \in CloseLetters /\ conn.error
      OBVIOUS
    <2>0. conn.state # "closing" /\ Keyed(conn)
      BY DEF Ended, EndStates, MapperInv, StateOK
    <2>1. ASSUME NEW l \in Letters, NextLetter(l) PROVE FALSE
      <3>0. l \in AllLetters /\ ticket \in BOOLEAN
        BY MapperAssumption DEF MapperInv, StateOK
      <3>1. conn' # conn
        BY <2>0
      <3>2. ~(Start)
        BY FreshKeyed DEF Start, Ended, EndStates
      <3>3. RunLetter(l)
        BY <2>1, <3>1, <3>2 DEF NextLetter
      <3>4. conn' = Configure(l) \/ (l \notin ConfigLetters /\ conn' = Send(l))
        BY <3>1, <3>3 DEF RunLetter
      <3>5. Silently(conn, conn')
        BY <2>0, <3>0, <3>4, ConfigureKeyed, SendKeyed DEF Sent
      <3> QED  BY <2>0, <3>5 DEF Silently
    <2>2. CASE CheckServerClose
      <3>1. Silently(conn, Transmit(Probe(conn, "none")))
        BY <2>0, ProbeKeyed, AfterTransmit
      <3> QED  BY <2>0, <2>2, <3>1 DEF CheckServerClose, Silently
    <2>3. ASSUME NEW m \in TlsMessages, NEW last \in BOOLEAN, NEW psk \in BOOLEAN,
                 ServerMessage(m, last, psk)
          PROVE  FALSE
      BY <2>0, <2>3, ServerMessageKeeps DEF Received
    <2>4. CASE ServerFrame
      BY <2>0, <2>4, ServerFrameKeeps DEF Received
    <2>5. CASE GetResponse
      <3>1. phase = "wait"
        BY <2>5 DEF GetResponse
      <3>2. GivesUp
        BY <2>0, <2>5 DEF GetResponse, MapperInv, StateOK, Keyed, Connections
      <3> QED  BY <3>1, <3>2 DEF GivesUp, TakenAsClosed, NothingHappened, CloseInv, ClosersClose
    <2>6. CASE WordEnds
      BY <2>0, <2>6 DEF WordEnds, vars
    <2> QED  BY <2>1, <2>2, <2>3, <2>4, <2>5, <2>6 DEF Next
  <1> QED  BY <1>1, CloseInvHolds, PTL DEF Spec, GivesUpAfterClose
====
