---- MODULE Recovery ----
(***************************************************************************)
(* Loss detection: QuicPacketSpace and QuicPacketRecovery in               *)
(* quic/recovery.py, with the calls connection.py makes to them.           *)
(*                                                                         *)
(* Sizes are counted in packets.  Time is kept as the order of packets:    *)
(* sent_time grows with the packet number, so the packets sent at least    *)
(* loss_delay ago are the numbers below "overdue", and a loss_time is the  *)
(* number of the packet whose sent_time it was computed from.  A new RTT   *)
(* estimate changes loss_delay, hence "overdue", either way.  The          *)
(* congestion window, the pacer and pto_count only bear on times.          *)
(***************************************************************************)
EXTENDS Integers, FiniteSets

CONSTANTS
  PacketSpaces,    \* packet number spaces
  HandshakeSpace,  \* the one a server discards
  Kinds,           \* the kinds of packets each space sends, as pairs
  K_PACKET_THRESHOLD,  \* 3 in the code
  Timer,           \* whether the event loop calls handle_timer
  MaxSent          \* bound: packets sent

\* A packet of ACK frames, of PADDING, of CRYPTO data, of other frames.
AllKinds == {"ack", "padding", "crypto", "data"}

ASSUME RecoveryAssumption ==
  /\ HandshakeSpace \in PacketSpaces /\ IsFiniteSet(PacketSpaces)
  /\ Kinds \subseteq PacketSpaces \X AllKinds /\ K_PACKET_THRESHOLD \in Nat \ {0}
  /\ Timer \in BOOLEAN /\ MaxSent \in Nat

VARIABLES
  sent,               \* the sent_packets of all spaces
  acked, lost,        \* packets reported ACKED, LOST to their delivery handlers
  expired,            \* packets dropped with their space, never reported
  forgotten,          \* packets dropped with the whole table, by a Retry
  nextNumber,         \* the number of the next packet, whatever its space
  firstNumber,        \* the first one the present spaces knew
  elicitingInFlight, largestAcked, lossTime, discarded,  \* of each space
  resampled,          \* loss_delay changed since loss_time was computed
  bytesInFlight,
  overdue,            \* packets below this number were sent loss_delay ago
  isClient, cryptoRetransmitted, retried

fates == <<sent, acked, lost, expired, forgotten>>
numbers == <<nextNumber, firstNumber>>
spaceVars == <<elicitingInFlight, largestAcked, lossTime, discarded, resampled>>
onceVars == <<isClient, cryptoRetransmitted, retried>>
recoveryVars == <<fates, numbers, spaceVars, bytesInFlight, overdue, onceVars>>

NoTime == -1

Packet == [number : Nat, space : PacketSpaces, kind : AllKinds]
InFlight(P) == {p \in P : p.kind # "ack"}
Eliciting(P) == {p \in P : p.kind \in {"crypto", "data"}}
Crypto(P) == {p \in P : p.kind = "crypto"}
InSpace(P, s) == {p \in P : p.space = s}
NumbersOf(P) == {p.number : p \in P}
Largest(N) == CHOOSE n \in N : \A m \in N : m <= n
Least(N) == CHOOSE n \in N : \A m \in N : n <= m

\* The value x in every space.
Each(x) == [s \in PacketSpaces |-> x]

RecoveryInit ==
  /\ sent = {} /\ acked = {} /\ lost = {} /\ expired = {} /\ forgotten = {}
  /\ nextNumber = 0 /\ firstNumber = 0
  /\ elicitingInFlight = Each(0) /\ largestAcked = Each(0) /\ lossTime = Each(NoTime)
  /\ discarded = {}
  /\ resampled = Each(FALSE)
  /\ bytesInFlight = 0
  /\ overdue = 0
  /\ isClient \in BOOLEAN
  /\ cryptoRetransmitted = FALSE /\ retried = FALSE

\* Packets that leave the table are taken out of the counters.
CountOut(gone) ==
  /\ elicitingInFlight' = [s \in PacketSpaces |->
       elicitingInFlight[s] - Cardinality(Eliciting(InSpace(gone, s)))]
  /\ bytesInFlight' = bytesInFlight - Cardinality(InFlight(gone))

OnPacketSent(s, k) ==
  LET p == [number |-> nextNumber, space |-> s, kind |-> k]
  IN /\ nextNumber < MaxSent
     /\ s \notin discarded     \* its keys are torn down
     /\ sent' = sent \cup {p}
     /\ elicitingInFlight' = [elicitingInFlight EXCEPT ![s] = @ + Cardinality(Eliciting({p}))]
     /\ bytesInFlight' = bytesInFlight + Cardinality(InFlight({p}))
     /\ nextNumber' = nextNumber + 1
     /\ UNCHANGED <<acked, lost, expired, forgotten, firstNumber, largestAcked, lossTime,
                    discarded, resampled, overdue, onceVars>>

\* The packets up to the largest acknowledged one are lost when they are
\* overdue or K_PACKET_THRESHOLD numbers behind it; the next of the others sets the timer.
Suspects(table, s, largest) == {p \in InSpace(table, s) : p.number <= largest}
DetectedLostLate(table, s, largest, horizon) ==    \* (mutant)
  {p \in Suspects(table, s, largest) :
     p.number < largest - K_PACKET_THRESHOLD \/ p.number < horizon}
DetectedLost(table, s, largest, horizon) ==
  {p \in Suspects(table, s, largest) :
     p.number <= largest - K_PACKET_THRESHOLD \/ p.number < horizon}
NextLossTime(table, s, largest, horizon) ==
  LET rest == Suspects(table, s, largest) \ DetectedLost(table, s, largest, horizon)
  IN IF rest = {} THEN NoTime ELSE Least(NumbersOf(rest))

\* The packets newly acknowledged leave the table, then losses are detected.
NewlyAcked(s, ackRange) == {p \in InSpace(sent, s) : p.number \in ackRange}
LargestAckedAfter(s, ackRange) == Largest(ackRange \cup {largestAcked[s]})
AckAndDetectFirst(s, newly, largest, horizon) ==    \* (mutant)
  LET gone == DetectedLost(sent, s, largest, horizon)
  IN /\ sent' = sent \ (newly \cup gone)
     /\ acked' = acked \cup newly
     /\ lost' = lost \cup gone
     /\ CountOut(newly \cup gone)
     /\ lossTime' = [lossTime EXCEPT ![s] = NextLossTime(sent, s, largest, horizon)]
AckAndDetect(s, newly, largest, horizon) ==
  LET remaining == sent \ newly
      gone == DetectedLost(remaining, s, largest, horizon)
  IN /\ sent' = remaining \ gone
     /\ acked' = acked \cup newly
     /\ lost' = lost \cup gone
     /\ CountOut(newly \cup gone)
     /\ lossTime' = [lossTime EXCEPT ![s] = NextLossTime(remaining, s, largest, horizon)]

\* An ACK that acknowledges nothing new only raises the largest acknowledged.
\* One that acknowledges an ack-eliciting packet first gives an RTT sample.
OnAckReceived(s, ackRange) ==
  LET newly == NewlyAcked(s, ackRange)
      rttSample == Eliciting(newly) # {} /\ Largest(ackRange) \in NumbersOf(newly)
  IN /\ s \notin discarded
     /\ largestAcked' = [largestAcked EXCEPT ![s] = LargestAckedAfter(s, ackRange)]
     /\ \/ /\ newly = {}
           /\ UNCHANGED <<sent, acked, lost, elicitingInFlight, lossTime, resampled,
                          bytesInFlight, overdue>>
        \/ /\ newly # {}
           /\ overdue' \in IF rttSample THEN 0..nextNumber ELSE {overdue}
           /\ AckAndDetect(s, newly, largestAcked'[s], overdue')
           /\ resampled' = [t \in PacketSpaces |->
                t # s /\ lossTime[t] # NoTime /\ (resampled[t] \/ rttSample)]
     /\ UNCHANGED <<expired, forgotten, numbers, discarded, onceVars>>

\* The peer acknowledges packets it has received, in any order and again.
PeerAcks ==
  \E s \in PacketSpaces :
    \E ackRange \in SUBSET {p.number : p \in {q \in InSpace(sent \cup acked \cup lost, s) :
                                                q.number >= firstNumber}} \ {{}} :
      OnAckReceived(s, ackRange)

\* Time reaches the point where some more packets are overdue.
TimePasses ==
  /\ overdue' \in (overdue + 1)..nextNumber
  /\ UNCHANGED <<fates, numbers, spaceVars, bytesInFlight, onceVars>>

\* All the CRYPTO packets still out are given up for lost, to be sent again.
RescheduleData ==
  /\ sent' = sent \ Crypto(sent)
  /\ lost' = lost \cup Crypto(sent)
  /\ CountOut(Crypto(sent))
  /\ UNCHANGED <<acked, expired, forgotten, numbers, largestAcked, lossTime, discarded,
                 resampled, overdue>>

\* get_loss_detection_time: the loss timer of some space goes before a probe.
LossSpaces == {s \in PacketSpaces : lossTime[s] # NoTime}
FirstLossSpace(s) ==
  \A t \in LossSpaces : lossTime[s] <= lossTime[t] \/ resampled[s] \/ resampled[t]

LossTimeout(s) ==
  /\ s \in LossSpaces /\ FirstLossSpace(s)
  /\ \E horizon \in overdue..nextNumber :
       LET gone == DetectedLost(sent, s, largestAcked[s], horizon)
       IN /\ lossTime[s] < horizon \/ resampled[s]
          /\ overdue' = horizon
          /\ sent' = sent \ gone
          /\ lost' = lost \cup gone
          /\ CountOut(gone)
          /\ lossTime' = [lossTime EXCEPT
                            ![s] = NextLossTime(sent, s, largestAcked[s], horizon)]
  /\ resampled' = [resampled EXCEPT ![s] = FALSE]
  /\ UNCHANGED <<acked, expired, forgotten, numbers, largestAcked, discarded, onceVars>>

ProbeTimeout ==
  /\ LossSpaces = {}
  /\ \E s \in PacketSpaces : elicitingInFlight[s] > 0
  /\ RescheduleData
  /\ UNCHANGED onceVars

HandleTimer == Timer /\ (ProbeTimeout \/ \E s \in PacketSpaces : LossTimeout(s))

\* A packet arrives that cannot be decrypted yet, or CRYPTO data arrives twice.
PeerMissesCrypto ==
  /\ ~cryptoRetransmitted
  /\ cryptoRetransmitted' = TRUE
  /\ RescheduleData
  /\ UNCHANGED <<isClient, retried>>

\* What discard_space does of each space in S.
OnPacketsExpired(gone) == bytesInFlight' = bytesInFlight - Cardinality(InFlight(gone))
LossTimeReset(S) == lossTime' = [s \in PacketSpaces |-> IF s \in S THEN NoTime ELSE lossTime[s]]
DiscardSpaces(S) ==
  LET gone == {p \in sent : p.space \in S}
  IN /\ sent' = sent \ gone
     /\ expired' = expired \cup gone
     /\ OnPacketsExpired(gone)
     /\ elicitingInFlight' = [s \in PacketSpaces |-> IF s \in S THEN 0 ELSE elicitingInFlight[s]]
     /\ LossTimeReset(S)
     /\ resampled' = [s \in PacketSpaces |-> s \notin S /\ resampled[s]]
     /\ discarded' = discarded \cup S
     /\ UNCHANGED <<acked, lost, forgotten, numbers, largestAcked, overdue, onceVars>>

\* A server's handshake is complete.
DiscardHandshake ==
  /\ ~isClient /\ HandshakeSpace \notin discarded
  /\ DiscardSpaces({HandshakeSpace})

\* The closing period or the idle timeout ends.
CloseEnd == Timer /\ discarded # PacketSpaces /\ DiscardSpaces(PacketSpaces \ discarded)

\* A Retry makes a client's packet spaces anew; the congestion controller stays.
Retry ==
  /\ isClient /\ ~retried
  /\ retried' = TRUE
  /\ forgotten' = forgotten \cup sent
  /\ sent' = {}
  /\ firstNumber' = nextNumber
  /\ elicitingInFlight' = Each(0) /\ largestAcked' = Each(0) /\ lossTime' = Each(NoTime)
  /\ discarded' = {}
  /\ resampled' = Each(FALSE)
  /\ UNCHANGED <<acked, lost, expired, nextNumber, bytesInFlight, overdue,
                 isClient, cryptoRetransmitted>>

RecoveryNext ==
  \/ \E sk \in Kinds : OnPacketSent(sk[1], sk[2])
  \/ PeerAcks
  \/ TimePasses
  \/ HandleTimer
  \/ PeerMissesCrypto
  \/ DiscardHandshake
  \/ CloseEnd
  \/ Retry

RecoverySpec == RecoveryInit /\ [][RecoveryNext]_recoveryVars
\* The event loop calls handle_timer when it is due, if it does so at all.
RecoveryFairSpec == RecoverySpec /\ WF_recoveryVars(HandleTimer)

----------------------------------------------------------------------------
AllPackets == sent \cup acked \cup lost \cup expired \cup forgotten

RecoveryTypeOK ==
  /\ nextNumber \in 0..MaxSent /\ firstNumber \in 0..nextNumber
  /\ overdue \in 0..nextNumber
  /\ IsFiniteSet(AllPackets) /\ AllPackets \subseteq Packet
  /\ elicitingInFlight \in [PacketSpaces -> Nat]
  /\ largestAcked \in [PacketSpaces -> Nat]
  /\ lossTime \in [PacketSpaces -> Nat \cup {NoTime}]
  /\ discarded \subseteq PacketSpaces
  /\ resampled \in [PacketSpaces -> BOOLEAN]
  /\ bytesInFlight \in Nat
  /\ isClient \in BOOLEAN /\ cryptoRetransmitted \in BOOLEAN /\ retried \in BOOLEAN

\* The counters are those of the packets in the table: nothing is taken out
\* twice when the ACK, the timers and the discards meet.  Only a Retry makes
\* bytes_in_flight count packets that nothing will take out again.
CountersMatchTable ==
  /\ \A s \in PacketSpaces : elicitingInFlight[s] = Cardinality(Eliciting(InSpace(sent, s)))
  /\ bytesInFlight = Cardinality(InFlight(sent \cup forgotten))

\* Every packet has one fate: its delivery handlers are called once, ACKED or
\* LOST, unless its space went away.
OneFateEach ==
  /\ sent \cap acked = {}
  /\ (sent \cup acked) \cap lost = {}
  /\ (sent \cup acked \cup lost) \cap expired = {}
  /\ (sent \cup acked \cup lost \cup expired) \cap forgotten = {}
  /\ \A p, q \in AllPackets : p.number = q.number => p = q

\* A packet that is out while a later one of its space has been acknowledged
\* has a loss timer, set no later than for itself.
OvertakenHasTimer ==
  \A p \in sent, q \in acked :
    (p.space = q.space /\ p.number < q.number) => lossTime[p.space] \in 0..p.number

\* No packet stays out once one sent three numbers later is acknowledged.
ThreeBehindIsLost ==
  \A p \in sent, q \in acked :
    p.space = q.space => q.number < p.number + K_PACKET_THRESHOLD

\* Nothing of a discarded space is left to time.
DiscardedIsQuiet ==
  \A s \in discarded : InSpace(sent, s) = {} /\ lossTime[s] = NoTime

\* Besides, what makes these inductive: numbers grow, and the largest
\* acknowledged packet is no smaller than one acknowledged since the Retry.
NumbersOK ==
  /\ \A p \in AllPackets : p.number < nextNumber
  /\ \A p \in sent : p.number >= firstNumber
  /\ \A q \in acked : q.number >= firstNumber => q.number <= largestAcked[q.space]

RecoveryInv ==
  /\ RecoveryTypeOK /\ NumbersOK /\ CountersMatchTable /\ OneFateEach
  /\ OvertakenHasTimer /\ ThreeBehindIsLost /\ DiscardedIsQuiet

\* asyncio/protocol.py:105 "arm the timer if needed": CRYPTO data still out is in
\* the end reported or dropped, whatever the peer acknowledges.
CryptoIsReported ==
  \A n \in 0..(MaxSent - 1) :
    (n \in NumbersOf(Crypto(sent))) ~> (n \notin NumbersOf(Crypto(sent)))
====
