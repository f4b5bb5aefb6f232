---- MODULE PacketProofs ----
(***************************************************************************)
(* The packets of the connection, for any number of packets, streams and   *)
(* scenes and all sizes.  First those sent, in the tables of loss          *)
(* detection: RecoveryInv is inductive, and with it every safety property  *)
(* of Recovery.  Then those written and those acknowledged: AckInv and     *)
(* WriterInv (with NumberingInv, FitInv and PadInv) are inductive, and     *)
(* with them the properties of AckQueue and PacketWriter.                  *)
(*                                                                         *)
(* Recovery and PacketWriter share nothing but the packet spaces.          *)
(***************************************************************************)
EXTENDS Recovery, PacketWriter, FiniteSetTheorems, SequenceTheorems,
        WellFoundedInduction, TLAPS

----------------------------------------------------------------------------
\* Least and largest numbers.

\* A nonempty set of naturals has a least element.
LEMMA LeastOK ==
  ASSUME NEW N \in SUBSET Nat, N # {}
  PROVE  Least(N) \in N /\ \A m \in N : Least(N) <= m
<1>1. PICK x \in N : \A y \in N : ~ (<<y, x>> \in OpToRel(<, Nat))
  BY NatLessThanWellFounded, WFMin
<1>2. ASSUME NEW y \in N PROVE x <= y
  <2>1. y \in Nat /\ x \in Nat /\ <<y, x>> \in Nat \X Nat
    OBVIOUS
  <2>2. ~ (y < x)
    BY <1>1, <2>1 DEF OpToRel
  <2>3. QED
    BY <2>1, <2>2
<1>3. QED
  BY <1>2 DEF Least

\* A nonempty set of naturals with a bound has a largest element.
LEMMA LargestOK ==
  ASSUME NEW b \in Nat, NEW N \in SUBSET (0..b), N # {}
  PROVE  Largest(N) \in N /\ \A m \in N : m <= Largest(N)
<1>. DEFINE R == {m \in 0..b : b - m \in N}
            x == b - Least(R)
<1>1. R \in SUBSET Nat /\ R # {}
  <2>1. PICK n \in N : TRUE
    OBVIOUS
  <2>2. n \in 0..b
    OBVIOUS
  <2>3. b - n \in 0..b /\ b - (b - n) = n
    BY <2>2
  <2>4. b - n \in R
    BY <2>3
  <2>5. R \in SUBSET Nat
    OBVIOUS
  <2>6. QED
    BY <2>4, <2>5
<1>2. Least(R) \in R /\ \A m \in R : Least(R) <= m
  BY <1>1, LeastOK
<1>3. x \in N
  BY <1>2
<1>4. ASSUME NEW m \in N PROVE m <= x
  <2>1. b - m \in 0..b /\ b - (b - m) = m
    OBVIOUS
  <2>2. Least(R) <= b - m
    BY <1>2, <2>1
  <2>3. Least(R) \in 0..b
    BY <1>2
  <2>4. QED
    BY <2>2, <2>3
<1>5. QED
  BY <1>3, <1>4 DEF Largest

----------------------------------------------------------------------------
\* Counting the packets of a table.

\* Taking a part out of a finite set takes its size off.
LEMMA CardTakeOut ==
  ASSUME NEW P, IsFiniteSet(P), NEW G \in SUBSET P
  PROVE  /\ IsFiniteSet(P \ G) /\ IsFiniteSet(G)
         /\ Cardinality(P \ G) = Cardinality(P) - Cardinality(G)
         /\ Cardinality(P \ G) \in Nat
<1>1. IsFiniteSet(P \ G) /\ IsFiniteSet(G)
  BY FS_Subset
<1>2. (P \ G) \cup G = P /\ (P \ G) \cap G = {}
  OBVIOUS
<1>3. Cardinality(P) = Cardinality(P \ G) + Cardinality(G) - Cardinality({})
  BY <1>1, <1>2, FS_Union
<1>4. Cardinality(P \ G) \in Nat /\ Cardinality(G) \in Nat /\ Cardinality({}) = 0
  BY <1>1, FS_CardinalityType, FS_EmptySet
<1>5. QED
  BY <1>1, <1>3, <1>4

\* Joining two disjoint finite sets adds their sizes.
LEMMA CardJoin ==
  ASSUME NEW P, IsFiniteSet(P), NEW Q, IsFiniteSet(Q), P \cap Q = {}
  PROVE  /\ IsFiniteSet(P \cup Q)
         /\ Cardinality(P \cup Q) = Cardinality(P) + Cardinality(Q)
         /\ Cardinality(P \cup Q) \in Nat
<1>1. Cardinality(P \cup Q) = Cardinality(P) + Cardinality(Q) - Cardinality({})
  BY FS_Union
<1>2. Cardinality(P) \in Nat /\ Cardinality(Q) \in Nat /\ Cardinality({}) = 0
  BY FS_CardinalityType, FS_EmptySet
<1>3. QED
  BY <1>1, <1>2, FS_Union

\* The parts of a finite set of packets are finite.
LEMMA PartsFinite ==
  ASSUME NEW P, IsFiniteSet(P)
  PROVE  /\ IsFiniteSet(InFlight(P)) /\ Cardinality(InFlight(P)) \in Nat
         /\ \A s : /\ IsFiniteSet(Eliciting(InSpace(P, s)))
                   /\ Cardinality(Eliciting(InSpace(P, s))) \in Nat
<1>1. InFlight(P) \in SUBSET P
  BY DEF InFlight
<1>2. \A s : Eliciting(InSpace(P, s)) \in SUBSET P
  BY DEF Eliciting, InSpace
<1>3. QED
  BY <1>1, <1>2, FS_Subset, FS_CardinalityType

\* Packets taken out of the table and out of the counters leave these exact.
LEMMA CountOutKeeps ==
  ASSUME RecoveryTypeOK, CountersMatchTable, OneFateEach,
         NEW gone \in SUBSET sent, CountOut(gone),
         sent' = sent \ gone, forgotten' = forgotten
  PROVE  /\ CountersMatchTable'
         /\ elicitingInFlight' \in [PacketSpaces -> Nat] /\ bytesInFlight' \in Nat
<1>1. IsFiniteSet(sent) /\ IsFiniteSet(forgotten) /\ IsFiniteSet(sent \cup forgotten)
  <2>1. sent \in SUBSET AllPackets /\ forgotten \in SUBSET AllPackets
        /\ sent \cup forgotten \in SUBSET AllPackets
    BY DEF AllPackets
  <2>2. QED
    BY <2>1, FS_Subset DEF RecoveryTypeOK
<1>2. ASSUME NEW s \in PacketSpaces
      PROVE  /\ elicitingInFlight'[s] = Cardinality(Eliciting(InSpace(sent', s)))
             /\ elicitingInFlight'[s] \in Nat
  <2>1. Eliciting(InSpace(gone, s)) \in SUBSET Eliciting(InSpace(sent, s))
    BY DEF Eliciting, InSpace
  <2>2. Eliciting(InSpace(sent', s))
          = Eliciting(InSpace(sent, s)) \ Eliciting(InSpace(gone, s))
    BY DEF Eliciting, InSpace
  <2>3. IsFiniteSet(Eliciting(InSpace(sent, s)))
    BY <1>1, PartsFinite
  <2>4. elicitingInFlight[s] = Cardinality(Eliciting(InSpace(sent, s)))
    BY DEF CountersMatchTable
  <2>5. elicitingInFlight'[s]
          = elicitingInFlight[s] - Cardinality(Eliciting(InSpace(gone, s)))
    BY DEF CountOut
  <2>6. LET P == Eliciting(InSpace(sent, s))
            G == Eliciting(InSpace(gone, s))
        IN /\ Cardinality(P \ G) = Cardinality(P) - Cardinality(G)
           /\ Cardinality(P \ G) \in Nat
    BY <2>1, <2>3, CardTakeOut
  <2>7. QED
    BY <2>2, <2>4, <2>5, <2>6
<1>3. /\ bytesInFlight' = Cardinality(InFlight(sent' \cup forgotten'))
      /\ bytesInFlight' \in Nat
  <2>1. InFlight(gone) \in SUBSET InFlight(sent \cup forgotten)
    BY DEF InFlight
  <2>2. gone \cap forgotten = {}
    BY DEF OneFateEach
  <2>3. InFlight(sent' \cup forgotten') = InFlight(sent \cup forgotten) \ InFlight(gone)
    BY <2>2 DEF InFlight
  <2>4. IsFiniteSet(InFlight(sent \cup forgotten))
    BY <1>1, PartsFinite
  <2>5. bytesInFlight = Cardinality(InFlight(sent \cup forgotten))
    BY DEF CountersMatchTable
  <2>6. bytesInFlight' = bytesInFlight - Cardinality(InFlight(gone))
    BY DEF CountOut
  <2>7. QED
    BY <2>1, <2>3, <2>4, <2>5, <2>6, CardTakeOut
<1>4. elicitingInFlight' \in [PacketSpaces -> Nat]
  <2>1. DOMAIN elicitingInFlight' = PacketSpaces
        /\ elicitingInFlight' = [s \in PacketSpaces |-> elicitingInFlight'[s]]
    BY DEF CountOut
  <2>2. QED
    BY <2>1, <1>2
<1>5. QED
  BY <1>2, <1>3, <1>4 DEF CountersMatchTable

----------------------------------------------------------------------------
\* What detection leaves in a table.

\* A packet that survives detection is timed, and close to the largest acked.
LEMMA DetectOK ==
  ASSUME NEW table \in SUBSET Packet, NEW s, NEW largest \in Nat, NEW horizon
  PROVE  /\ NextLossTime(table, s, largest, horizon) \in Nat \cup {NoTime}
         /\ DetectedLost(table, s, largest, horizon) \in SUBSET InSpace(table, s)
         /\ \A p \in InSpace(table, s) \ DetectedLost(table, s, largest, horizon) :
              p.number <= largest =>
                /\ NextLossTime(table, s, largest, horizon) \in 0..p.number
                /\ largest < p.number + K_PACKET_THRESHOLD
<1>. DEFINE L == DetectedLost(table, s, largest, horizon)
            rest == Suspects(table, s, largest) \ L
            T == NextLossTime(table, s, largest, horizon)
<1>1. L \in SUBSET InSpace(table, s)
  BY DEF DetectedLost, Suspects
<1>2. rest \in SUBSET Packet /\ NumbersOf(rest) \in SUBSET Nat
  BY DEF Suspects, InSpace, NumbersOf, Packet
<1>3. ASSUME rest # {}
      PROVE  T \in NumbersOf(rest) /\ \A m \in NumbersOf(rest) : T <= m
  <2>1. NumbersOf(rest) # {}
    BY <1>3 DEF NumbersOf
  <2>2. T = Least(NumbersOf(rest))
    BY <1>3 DEF NextLossTime
  <2>3. QED
    BY <1>2, <2>1, <2>2, LeastOK
<1>4. T \in Nat \cup {NoTime}
  <2>1. CASE rest = {}
    BY <2>1 DEF NextLossTime
  <2>2. CASE rest # {}
    BY <2>2, <1>2, <1>3
  <2>3. QED
    BY <2>1, <2>2
<1>5. ASSUME NEW p \in InSpace(table, s) \ L, p.number <= largest
      PROVE  T \in 0..p.number /\ largest < p.number + K_PACKET_THRESHOLD
  <2>1. p \in rest /\ p.number \in NumbersOf(rest) /\ p.number \in Nat
    BY <1>5 DEF Suspects, InSpace, NumbersOf, Packet
  <2>2. T \in Nat /\ T <= p.number
    BY <1>2, <1>3, <2>1
  <2>3. ~ (p.number <= largest - K_PACKET_THRESHOLD)
    BY <2>1 DEF DetectedLost
  <2>4. QED
    BY <2>1, <2>2, <2>3, RecoveryAssumption
<1>6. QED
  BY <1>1, <1>4, <1>5

\* Packets that leave the table to be reported keep one fate each.
LEMMA MoveKeeps ==
  ASSUME OneFateEach, NEW G1 \in SUBSET sent, NEW G2 \in SUBSET (sent \ G1),
         sent' = (sent \ G1) \ G2, acked' = acked \cup G1, lost' = lost \cup G2,
         expired' = expired, forgotten' = forgotten
  PROVE  OneFateEach' /\ AllPackets' = AllPackets
<1>1. AllPackets' = AllPackets
  BY DEF AllPackets
<1>2. QED
  BY <1>1 DEF OneFateEach

\* The spaces of packets.
LEMMA InvFacts ==
  ASSUME RecoveryInv
  PROVE  /\ sent \in SUBSET Packet /\ acked \in SUBSET Packet
         /\ \A p \in sent \cup acked : p.number \in Nat /\ p.space \in PacketSpaces
         /\ nextNumber \in Nat /\ firstNumber \in Nat
BY DEF RecoveryInv, RecoveryTypeOK, AllPackets, Packet

----------------------------------------------------------------------------
\* The inductive invariant, action by action.

LEMMA InitOK == RecoveryInit => RecoveryInv
<1>. SUFFICES ASSUME RecoveryInit PROVE RecoveryInv
  OBVIOUS
<1>. USE DEF RecoveryInit, Each
<1>1. AllPackets = {} /\ Eliciting({}) = {} /\ InFlight({}) = {}
      /\ IsFiniteSet({}) /\ Cardinality({}) = 0
  BY FS_EmptySet DEF AllPackets, Eliciting, InFlight
<1>2. \A s \in PacketSpaces : InSpace({}, s) = {}
  BY DEF InSpace
<1>3. RecoveryTypeOK
  <2>1. /\ nextNumber \in 0..MaxSent /\ firstNumber \in 0..nextNumber
        /\ overdue \in 0..nextNumber
    BY RecoveryAssumption
  <2>2. /\ IsFiniteSet(AllPackets) /\ AllPackets \subseteq Packet
    BY <1>1
  <2>3. /\ elicitingInFlight \in [PacketSpaces -> Nat] /\ largestAcked \in [PacketSpaces -> Nat]
        /\ lossTime \in [PacketSpaces -> Nat \cup {NoTime}]
        /\ resampled \in [PacketSpaces -> BOOLEAN]
    BY DEF NoTime
  <2>4. QED
    BY <2>1, <2>2, <2>3 DEF RecoveryTypeOK
<1>4. CountersMatchTable
  BY <1>1, <1>2 DEF CountersMatchTable
<1>5. NumbersOK /\ OneFateEach /\ OvertakenHasTimer /\ ThreeBehindIsLost /\ DiscardedIsQuiet
  BY <1>1 DEF NumbersOK, OneFateEach, OvertakenHasTimer, ThreeBehindIsLost, DiscardedIsQuiet,
              AllPackets
<1>6. QED
  BY <1>3, <1>4, <1>5 DEF RecoveryInv

LEMMA SentKeeps ==
  ASSUME RecoveryInv, NEW s \in PacketSpaces, NEW k \in AllKinds, OnPacketSent(s, k)
  PROVE  RecoveryInv'
<1>. DEFINE p == [number |-> nextNumber, space |-> s, kind |-> k]
<1>0. /\ RecoveryTypeOK /\ NumbersOK /\ CountersMatchTable /\ OneFateEach
      /\ OvertakenHasTimer /\ ThreeBehindIsLost /\ DiscardedIsQuiet
  BY DEF RecoveryInv
<1>1. /\ nextNumber < MaxSent /\ s \notin discarded
      /\ sent' = sent \cup {p}
      /\ elicitingInFlight' = [elicitingInFlight EXCEPT ![s] = @ + Cardinality(Eliciting({p}))]
      /\ bytesInFlight' = bytesInFlight + Cardinality(InFlight({p}))
      /\ nextNumber' = nextNumber + 1
      /\ UNCHANGED <<acked, lost, expired, forgotten, firstNumber, largestAcked, lossTime,
                     discarded, resampled, overdue, onceVars>>
  BY DEF OnPacketSent
<1>2. p \in Packet /\ p.number = nextNumber /\ p.space = s /\ nextNumber \in Nat
  BY <1>0 DEF Packet, RecoveryTypeOK
<1>3. AllPackets' = AllPackets \cup {p} /\ p \notin AllPackets
  BY <1>0, <1>1, <1>2 DEF AllPackets, NumbersOK
<1>4. IsFiniteSet(sent) /\ IsFiniteSet(sent \cup forgotten) /\ IsFiniteSet({p})
  <2>1. sent \in SUBSET AllPackets /\ sent \cup forgotten \in SUBSET AllPackets
    BY DEF AllPackets
  <2>2. QED
    BY <2>1, <1>0, FS_Subset, FS_Singleton DEF RecoveryTypeOK
<1>5. ASSUME NEW t \in PacketSpaces
      PROVE  /\ elicitingInFlight'[t] = Cardinality(Eliciting(InSpace(sent', t)))
             /\ elicitingInFlight'[t] \in Nat
  <2>0. elicitingInFlight[t] = Cardinality(Eliciting(InSpace(sent, t)))
        /\ elicitingInFlight[t] \in Nat
    BY <1>0 DEF CountersMatchTable, RecoveryTypeOK
  <2>1. CASE t = s
    <3>1. Eliciting(InSpace(sent', s)) = Eliciting(InSpace(sent, s)) \cup Eliciting({p})
      BY <1>1, <1>2 DEF Eliciting, InSpace
    <3>2. Eliciting(InSpace(sent, s)) \cap Eliciting({p}) = {}
      BY <1>3 DEF Eliciting, InSpace, AllPackets
    <3>3. IsFiniteSet(Eliciting({p})) /\ IsFiniteSet(Eliciting(InSpace(sent, s)))
      <4>1. Eliciting({p}) \in SUBSET {p}
        BY DEF Eliciting
      <4>2. QED
        BY <4>1, <1>4, PartsFinite, FS_Subset
    <3>4. LET P == Eliciting(InSpace(sent, s))
              Q == Eliciting({p})
          IN  Cardinality(P \cup Q) = Cardinality(P) + Cardinality(Q)
              /\ Cardinality(P \cup Q) \in Nat
      BY <3>2, <3>3, CardJoin
    <3>5. elicitingInFlight'[s] = elicitingInFlight[s] + Cardinality(Eliciting({p}))
      BY <1>0, <1>1 DEF RecoveryTypeOK
    <3>6. QED
      BY <2>0, <2>1, <3>1, <3>4, <3>5
  <2>2. CASE t # s
    <3>1. InSpace(sent', t) = InSpace(sent, t)
      BY <1>1, <1>2, <2>2 DEF InSpace
    <3>2. elicitingInFlight'[t] = elicitingInFlight[t]
      BY <1>0, <1>1, <2>2 DEF RecoveryTypeOK
    <3>3. QED
      BY <2>0, <3>1, <3>2
  <2>3. QED
    BY <2>1, <2>2
<1>6. /\ bytesInFlight' = Cardinality(InFlight(sent' \cup forgotten'))
      /\ bytesInFlight' \in Nat
  <2>1. InFlight(sent' \cup forgotten') = InFlight(sent \cup forgotten) \cup InFlight({p})
    BY <1>1 DEF InFlight
  <2>2. InFlight(sent \cup forgotten) \cap InFlight({p}) = {}
    BY <1>3 DEF InFlight, AllPackets
  <2>3. LET P == InFlight(sent \cup forgotten)
            Q == InFlight({p})
        IN  Cardinality(P \cup Q) = Cardinality(P) + Cardinality(Q)
            /\ Cardinality(P \cup Q) \in Nat
    BY <1>4, <2>2, PartsFinite, CardJoin
  <2>4. QED
    BY <1>0, <1>1, <2>1, <2>3 DEF CountersMatchTable
<1>7. CountersMatchTable'
  BY <1>5, <1>6 DEF CountersMatchTable
<1>8. elicitingInFlight' \in [PacketSpaces -> Nat]
  <2>1. elicitingInFlight' = [t \in PacketSpaces |-> elicitingInFlight'[t]]
    BY <1>0, <1>1 DEF RecoveryTypeOK
  <2>2. QED
    BY <2>1, <1>5
<1>9. IsFiniteSet(AllPackets') /\ AllPackets' \subseteq Packet
  BY <1>0, <1>2, <1>3, FS_AddElement DEF RecoveryTypeOK
<1>10. RecoveryTypeOK'
  <2>1. /\ nextNumber' \in 0..MaxSent /\ firstNumber' \in 0..nextNumber'
        /\ overdue' \in 0..nextNumber'
    BY <1>0, <1>1, RecoveryAssumption DEF RecoveryTypeOK
  <2>2. QED
    BY <1>0, <1>1, <1>6, <1>8, <1>9, <2>1 DEF RecoveryTypeOK, onceVars
<1>11. NumbersOK'
  <2>1. \A q \in AllPackets : q.number \in Nat
    BY <1>0 DEF RecoveryTypeOK, Packet
  <2>2. \A q \in AllPackets' : q.number < nextNumber'
    BY <1>0, <1>1, <1>2, <1>3, <2>1 DEF NumbersOK
  <2>3. \A q \in sent' : q.number >= firstNumber'
    BY <1>0, <1>1, <1>2 DEF NumbersOK, RecoveryTypeOK
  <2>4. QED
    BY <1>0, <1>1, <2>2, <2>3 DEF NumbersOK
<1>12. OneFateEach'
  <2>1. \A q \in AllPackets : q.number # nextNumber
    BY <1>0, <1>2 DEF NumbersOK, RecoveryTypeOK, Packet
  <2>2. \A q, r \in AllPackets' : q.number = r.number => q = r
    BY <1>0, <1>2, <1>3, <2>1 DEF OneFateEach
  <2>3. QED
    BY <1>0, <1>1, <1>3, <2>2 DEF OneFateEach, AllPackets
<1>13. \A q \in acked : q.number < nextNumber /\ q.number \in Nat
  BY <1>0 DEF NumbersOK, AllPackets, RecoveryTypeOK, Packet
<1>14. OvertakenHasTimer'
  BY <1>0, <1>1, <1>2, <1>13 DEF OvertakenHasTimer
<1>15. ThreeBehindIsLost'
  BY <1>0, <1>1, <1>2, <1>13, RecoveryAssumption DEF ThreeBehindIsLost
<1>16. DiscardedIsQuiet'
  BY <1>0, <1>1, <1>2 DEF DiscardedIsQuiet, InSpace
<1>17. QED
  BY <1>7, <1>10, <1>11, <1>12, <1>14, <1>15, <1>16 DEF RecoveryInv

\* Packets reported and taken out keep the tables, the numbers and the counters.
LEMMA ReportKeeps ==
  ASSUME RecoveryInv, NEW G1 \in SUBSET sent, NEW G2 \in SUBSET (sent \ G1),
         sent' = (sent \ G1) \ G2, acked' = acked \cup G1, lost' = lost \cup G2,
         CountOut(G1 \cup G2), UNCHANGED <<expired, forgotten, numbers>>
  PROVE  /\ OneFateEach' /\ CountersMatchTable' /\ AllPackets' = AllPackets
         /\ elicitingInFlight' \in [PacketSpaces -> Nat] /\ bytesInFlight' \in Nat
         /\ \A p \in sent' : p.number >= firstNumber'
<1>0. RecoveryTypeOK /\ NumbersOK /\ CountersMatchTable /\ OneFateEach
  BY DEF RecoveryInv
<1>1. OneFateEach' /\ AllPackets' = AllPackets
  BY <1>0, MoveKeeps
<1>2. G1 \cup G2 \in SUBSET sent /\ sent' = sent \ (G1 \cup G2) /\ forgotten' = forgotten
  OBVIOUS
<1>3. /\ CountersMatchTable'
      /\ elicitingInFlight' \in [PacketSpaces -> Nat] /\ bytesInFlight' \in Nat
  BY <1>0, <1>2, CountOutKeeps
<1>4. \A p \in sent' : p.number >= firstNumber'
  BY <1>0 DEF NumbersOK, numbers
<1>5. QED
  BY <1>1, <1>3, <1>4

\* An ACK raises the largest acknowledged number, never beyond those sent.
LEMMA LargestAckedOK ==
  ASSUME RecoveryInv, NEW s \in PacketSpaces,
         NEW ackRange \in SUBSET (0..nextNumber)
  PROVE  /\ LargestAckedAfter(s, ackRange) \in Nat
         /\ largestAcked[s] <= LargestAckedAfter(s, ackRange)
         /\ \A n \in ackRange : n <= LargestAckedAfter(s, ackRange)
<1>1. largestAcked[s] \in Nat /\ nextNumber \in Nat
  BY DEF RecoveryInv, RecoveryTypeOK
<1>. DEFINE b == nextNumber + largestAcked[s]
            N == ackRange \cup {largestAcked[s]}
<1>2. b \in Nat /\ N \in SUBSET (0..b) /\ N # {} /\ N \in SUBSET Nat
  <2>1. b \in Nat
    BY <1>1
  <2>2. ASSUME NEW n \in N PROVE n \in 0..b /\ n \in Nat
    <3>1. n \in Nat /\ (n <= nextNumber \/ n = largestAcked[s])
      BY <1>1
    <3>2. QED
      BY <1>1, <3>1
  <2>3. QED
    BY <2>1, <2>2
<1>. HIDE DEF b
<1>3. Largest(N) \in N /\ \A m \in N : m <= Largest(N)
  BY <1>2, LargestOK
<1>4. LargestAckedAfter(s, ackRange) = Largest(N)
  BY DEF LargestAckedAfter
<1>. HIDE DEF N
<1>5. ackRange \subseteq N /\ largestAcked[s] \in N
  BY DEF N
<1>6. QED
  BY <1>2, <1>3, <1>4, <1>5

LEMMA AckKeeps ==
  ASSUME RecoveryInv, NEW s \in PacketSpaces, NEW ackRange \in SUBSET (0..nextNumber),
         OnAckReceived(s, ackRange)
  PROVE  RecoveryInv'
<1>. DEFINE newly == NewlyAcked(s, ackRange)
            largest == LargestAckedAfter(s, ackRange)
<1>0. /\ RecoveryTypeOK /\ NumbersOK /\ CountersMatchTable /\ OneFateEach
      /\ OvertakenHasTimer /\ ThreeBehindIsLost /\ DiscardedIsQuiet
  BY DEF RecoveryInv
<1>1. /\ s \notin discarded
      /\ largestAcked' = [largestAcked EXCEPT ![s] = largest]
      /\ UNCHANGED <<expired, forgotten, numbers, discarded, onceVars>>
  BY DEF OnAckReceived
<1>2. /\ largest \in Nat /\ largestAcked[s] <= largest
      /\ \A n \in ackRange : n <= largest
  BY LargestAckedOK
<1>3. /\ largestAcked' \in [PacketSpaces -> Nat] /\ largestAcked'[s] = largest
      /\ \A t \in PacketSpaces : largestAcked[t] <= largestAcked'[t]
  BY <1>0, <1>1, <1>2 DEF RecoveryTypeOK
<1>. HIDE DEF largest
<1>4. newly \in SUBSET sent /\ newly \in SUBSET InSpace(sent, s)
  BY DEF NewlyAcked, InSpace
<1>5. CASE /\ newly = {}
           /\ UNCHANGED <<sent, acked, lost, elicitingInFlight, lossTime, resampled,
                          bytesInFlight, overdue>>
  <2>1. AllPackets' = AllPackets
    BY <1>1, <1>5 DEF AllPackets
  <2>2. RecoveryTypeOK'
    BY <1>0, <1>1, <1>3, <1>5, <2>1 DEF RecoveryTypeOK, numbers, onceVars
  <2>3. NumbersOK'
    <3>1. \A q \in acked : q.space \in PacketSpaces /\ q.number \in Nat
      BY InvFacts
    <3>2. \A q \in acked : q.number >= firstNumber => q.number <= largestAcked'[q.space]
      BY <1>0, <1>3, <3>1 DEF NumbersOK, RecoveryTypeOK
    <3>3. QED
      BY <1>0, <1>1, <1>5, <2>1, <3>2 DEF NumbersOK, numbers
  <2>4. OneFateEach'
    BY <1>0, <1>1, <1>5, <2>1 DEF OneFateEach
  <2>5. CountersMatchTable' /\ OvertakenHasTimer' /\ ThreeBehindIsLost' /\ DiscardedIsQuiet'
    BY <1>0, <1>1, <1>5 DEF CountersMatchTable, OvertakenHasTimer, ThreeBehindIsLost,
                             DiscardedIsQuiet
  <2>6. QED
    BY <1>0, <2>2, <2>3, <2>4, <2>5 DEF RecoveryInv
<1>6. CASE /\ newly # {}
           /\ overdue' \in 0..nextNumber
           /\ AckAndDetect(s, newly, largestAcked'[s], overdue')
           /\ resampled' \in [PacketSpaces -> BOOLEAN]
  <2>. DEFINE remaining == sent \ newly
              gone == DetectedLost(remaining, s, largest, overdue')
              T == NextLossTime(remaining, s, largest, overdue')
  <2>1. /\ sent' = remaining \ gone /\ acked' = acked \cup newly /\ lost' = lost \cup gone
        /\ CountOut(newly \cup gone)
        /\ lossTime' = [lossTime EXCEPT ![s] = T]
    BY <1>3, <1>6 DEF AckAndDetect
  <2>2. remaining \in SUBSET Packet
    BY InvFacts
  <2>. HIDE DEF newly
  <2>3. /\ T \in Nat \cup {NoTime}
        /\ gone \in SUBSET InSpace(remaining, s)
        /\ \A p \in InSpace(remaining, s) \ gone :
             p.number <= largest => T \in 0..p.number /\ largest < p.number + K_PACKET_THRESHOLD
    BY <1>2, <2>2, DetectOK
  <2>. HIDE DEF gone, T
  <2>4. gone \in SUBSET remaining
    BY <2>3 DEF InSpace
  <2>5. /\ OneFateEach' /\ CountersMatchTable' /\ AllPackets' = AllPackets
        /\ elicitingInFlight' \in [PacketSpaces -> Nat] /\ bytesInFlight' \in Nat
        /\ \A p \in sent' : p.number >= firstNumber'
    BY <1>1, <1>4, <2>1, <2>4, ReportKeeps
  <2>6. lossTime' \in [PacketSpaces -> Nat \cup {NoTime}] /\ lossTime'[s] = T
        /\ \A t \in PacketSpaces \ {s} : lossTime'[t] = lossTime[t]
    BY <1>0, <2>1, <2>3 DEF RecoveryTypeOK
  <2>7. RecoveryTypeOK'
    BY <1>0, <1>1, <1>3, <1>6, <2>5, <2>6 DEF RecoveryTypeOK, numbers, onceVars
  <2>8. \A q \in newly : q.space = s /\ q.number <= largest /\ q.number \in Nat
    BY <1>2, <1>4, InvFacts DEF InSpace, newly, NewlyAcked
  <2>9. \A q \in acked' : q.number >= firstNumber => q.number <= largestAcked'[q.space]
    <3>1. ASSUME NEW q \in acked, q.number >= firstNumber
          PROVE  q.number <= largestAcked'[q.space]
      BY <1>0, <1>3, <3>1, InvFacts DEF NumbersOK, RecoveryTypeOK
    <3>2. QED
      BY <1>3, <2>1, <2>8, <3>1
  <2>10. NumbersOK'
    BY <1>0, <1>1, <2>5, <2>9 DEF NumbersOK, numbers
  <2>11. ASSUME NEW p \in sent', NEW q \in acked', p.space = q.space
         PROVE  /\ p.number < q.number => lossTime'[p.space] \in 0..p.number
                /\ q.number < p.number + K_PACKET_THRESHOLD
    <3>1. p \in sent /\ p \in remaining /\ p \notin gone /\ p.number \in Nat
          /\ p.space \in PacketSpaces /\ p.number >= firstNumber
      BY <1>0, <2>1, InvFacts DEF NumbersOK
    <3>2. CASE p.space = s
      <4>1. p \in InSpace(remaining, s) \ gone
        BY <3>1, <3>2 DEF InSpace
      <4>2. q.number \in Nat /\ (q.number >= firstNumber => q.number <= largest)
        BY <1>3, <2>1, <2>8, <2>9, <2>11, <3>2, InvFacts
      <4>3. CASE q.number <= p.number
        BY <3>1, <4>2, <4>3, RecoveryAssumption
      <4>4. CASE p.number < q.number
        <5>1. q.number <= largest /\ p.number <= largest
          BY <1>2, <3>1, <4>2, <4>4, InvFacts
        <5>2. T \in 0..p.number /\ largest < p.number + K_PACKET_THRESHOLD
          BY <2>3, <4>1, <5>1
        <5>3. QED
          BY <1>2, <2>6, <3>1, <3>2, <4>2, <5>1, <5>2, RecoveryAssumption
      <4>5. QED
        BY <3>1, <4>2, <4>3, <4>4
    <3>3. CASE p.space # s
      <4>1. q \in acked
        BY <2>1, <2>8, <2>11, <3>3
      <4>2. QED
        BY <1>0, <2>6, <2>11, <3>1, <3>3, <4>1 DEF OvertakenHasTimer, ThreeBehindIsLost
    <3>4. QED
      BY <3>2, <3>3
  <2>12. OvertakenHasTimer' /\ ThreeBehindIsLost'
    BY <2>11 DEF OvertakenHasTimer, ThreeBehindIsLost
  <2>13. DiscardedIsQuiet'
    <3>1. ASSUME NEW t \in discarded
          PROVE  InSpace(sent', t) = {} /\ lossTime'[t] = NoTime
      <4>1. t \in PacketSpaces /\ t # s
        BY <1>0, <1>1 DEF RecoveryTypeOK
      <4>2. InSpace(sent', t) \subseteq InSpace(sent, t)
        BY <2>1 DEF InSpace
      <4>3. QED
        BY <1>0, <2>6, <4>1, <4>2 DEF DiscardedIsQuiet
    <3>2. QED
      BY <1>1, <3>1 DEF DiscardedIsQuiet
  <2>14. QED
    BY <2>5, <2>7, <2>10, <2>12, <2>13 DEF RecoveryInv
<1>7. QED
  <2>1. CASE newly = {}
    <3>1. UNCHANGED <<sent, acked, lost, elicitingInFlight, lossTime, resampled,
                      bytesInFlight, overdue>>
      BY <2>1 DEF OnAckReceived
    <3>2. QED
      BY <1>5, <2>1, <3>1
  <2>2. CASE newly # {}
    <3>0. overdue \in 0..nextNumber
      BY <1>0 DEF RecoveryTypeOK
    <3>1. overdue' \in 0..nextNumber
      BY <2>2, <3>0 DEF OnAckReceived
    <3>2. AckAndDetect(s, newly, largestAcked'[s], overdue')
      BY <2>2 DEF OnAckReceived
    <3>3. PICK c \in BOOLEAN :
            resampled' =
              [t \in PacketSpaces |-> t # s /\ lossTime[t] # NoTime /\ (resampled[t] \/ c)]
      <4>1. PICK c \in BOOLEAN :
              c = (Eliciting(newly) # {} /\ Largest(ackRange) \in NumbersOf(newly))
        OBVIOUS
      <4>2. QED
        BY <2>2, <4>1 DEF OnAckReceived
    <3>4. resampled' \in [PacketSpaces -> BOOLEAN]
      BY <3>3
    <3>5. QED
      BY <1>6, <2>2, <3>1, <3>2, <3>4
  <2>3. QED
    BY <2>1, <2>2

LEMMA TimePassesKeeps ==
  ASSUME RecoveryInv, TimePasses
  PROVE  RecoveryInv'
<1>1. UNCHANGED <<fates, numbers, spaceVars, bytesInFlight, onceVars>>
      /\ overdue' \in 0..nextNumber
  BY DEF TimePasses, RecoveryInv, RecoveryTypeOK
<1>2. QED
  BY <1>1 DEF RecoveryInv, RecoveryTypeOK, NumbersOK, CountersMatchTable, OneFateEach,
              OvertakenHasTimer, ThreeBehindIsLost, DiscardedIsQuiet, AllPackets,
              fates, numbers, spaceVars, onceVars

LEMMA LossTimeoutKeeps ==
  ASSUME RecoveryInv, NEW s \in PacketSpaces, LossTimeout(s)
  PROVE  RecoveryInv'
<1>0. /\ RecoveryTypeOK /\ NumbersOK /\ CountersMatchTable /\ OneFateEach
      /\ OvertakenHasTimer /\ ThreeBehindIsLost /\ DiscardedIsQuiet
  BY DEF RecoveryInv
<1>1. PICK horizon \in overdue..nextNumber :
        LET gone == DetectedLost(sent, s, largestAcked[s], horizon)
        IN /\ lossTime[s] < horizon \/ resampled[s]
           /\ overdue' = horizon
           /\ sent' = sent \ gone
           /\ lost' = lost \cup gone
           /\ CountOut(gone)
           /\ lossTime' = [lossTime EXCEPT
                             ![s] = NextLossTime(sent, s, largestAcked[s], horizon)]
  BY DEF LossTimeout
<1>. DEFINE largest == largestAcked[s]
            gone == DetectedLost(sent, s, largest, horizon)
            T == NextLossTime(sent, s, largest, horizon)
<1>2. /\ UNCHANGED <<acked, expired, forgotten, numbers, largestAcked, discarded, onceVars>>
      /\ resampled' = [resampled EXCEPT ![s] = FALSE]
      /\ s \in LossSpaces
  BY DEF LossTimeout
<1>3. /\ sent' = sent \ gone /\ lost' = lost \cup gone /\ CountOut(gone)
      /\ lossTime' = [lossTime EXCEPT ![s] = T] /\ overdue' = horizon
  BY <1>1
<1>4. largest \in Nat /\ sent \in SUBSET Packet
  BY <1>0, InvFacts DEF RecoveryTypeOK
<1>. HIDE DEF largest
<1>5. /\ T \in Nat \cup {NoTime}
      /\ gone \in SUBSET InSpace(sent, s)
      /\ \A p \in InSpace(sent, s) \ gone :
           p.number <= largest => T \in 0..p.number /\ largest < p.number + K_PACKET_THRESHOLD
  BY <1>4, DetectOK
<1>. HIDE DEF gone, T
<1>6. gone \in SUBSET sent
  BY <1>5 DEF InSpace
<1>7. /\ OneFateEach' /\ CountersMatchTable' /\ AllPackets' = AllPackets
      /\ elicitingInFlight' \in [PacketSpaces -> Nat] /\ bytesInFlight' \in Nat
      /\ \A p \in sent' : p.number >= firstNumber'
  <2>1. /\ {} \in SUBSET sent /\ gone \in SUBSET (sent \ {})
        /\ sent' = (sent \ {}) \ gone /\ acked' = acked \cup {} /\ {} \cup gone = gone
    BY <1>2, <1>3, <1>6
  <2>2. CountOut({} \cup gone)
    BY <1>3, <2>1
  <2>3. QED
    BY <1>2, <1>3, <2>1, <2>2, ReportKeeps
<1>8. lossTime' \in [PacketSpaces -> Nat \cup {NoTime}] /\ lossTime'[s] = T
      /\ \A t \in PacketSpaces \ {s} : lossTime'[t] = lossTime[t]
  BY <1>0, <1>3, <1>5 DEF RecoveryTypeOK
<1>9. RecoveryTypeOK'
  <2>1. overdue' \in 0..nextNumber' /\ resampled' \in [PacketSpaces -> BOOLEAN]
    BY <1>0, <1>2, <1>3 DEF RecoveryTypeOK, numbers
  <2>2. QED
    BY <1>0, <1>2, <1>7, <1>8, <2>1 DEF RecoveryTypeOK, numbers, onceVars
<1>10. NumbersOK'
  BY <1>0, <1>2, <1>7 DEF NumbersOK, numbers
<1>11. ASSUME NEW p \in sent', NEW q \in acked', p.space = q.space
       PROVE  /\ p.number < q.number => lossTime'[p.space] \in 0..p.number
              /\ q.number < p.number + K_PACKET_THRESHOLD
  <2>1. p \in sent /\ p \notin gone /\ q \in acked /\ p.number \in Nat /\ q.number \in Nat
        /\ p.space \in PacketSpaces /\ p.number >= firstNumber /\ firstNumber \in Nat
    BY <1>0, <1>2, <1>3, InvFacts DEF NumbersOK
  <2>2. q.number < p.number + K_PACKET_THRESHOLD
    BY <1>0, <1>11, <2>1 DEF ThreeBehindIsLost
  <2>3. ASSUME p.number < q.number PROVE lossTime'[p.space] \in 0..p.number
    <3>1. CASE p.space = s
      <4>1. q.number <= largest
        <5>1. q.number >= firstNumber
          BY <2>1, <2>3
        <5>2. q.number <= largestAcked[q.space] /\ q.space = s
          BY <1>0, <1>11, <2>1, <3>1, <5>1 DEF NumbersOK
        <5>3. QED
          BY <5>2 DEF largest
      <4>2. p \in InSpace(sent, s) \ gone /\ p.number <= largest
        BY <1>4, <2>1, <2>3, <3>1, <4>1 DEF InSpace
      <4>3. QED
        BY <1>5, <1>8, <3>1, <4>2
    <3>2. CASE p.space # s
      BY <1>0, <1>8, <1>11, <2>1, <2>3, <3>2 DEF OvertakenHasTimer
    <3>3. QED
      BY <3>1, <3>2
  <2>4. QED
    BY <2>2, <2>3
<1>12. OvertakenHasTimer' /\ ThreeBehindIsLost'
  BY <1>11 DEF OvertakenHasTimer, ThreeBehindIsLost
<1>13. DiscardedIsQuiet'
  <2>1. ASSUME NEW t \in discarded
        PROVE  InSpace(sent', t) = {} /\ lossTime'[t] = NoTime
    <3>1. t \in PacketSpaces /\ t # s
      BY <1>0, <1>2 DEF RecoveryTypeOK, DiscardedIsQuiet, LossSpaces
    <3>2. InSpace(sent', t) \subseteq InSpace(sent, t)
      BY <1>3 DEF InSpace
    <3>3. QED
      BY <1>0, <1>8, <3>1, <3>2 DEF DiscardedIsQuiet
  <2>2. QED
    BY <1>2, <2>1 DEF DiscardedIsQuiet
<1>14. QED
  BY <1>7, <1>9, <1>10, <1>12, <1>13 DEF RecoveryInv

LEMMA RescheduleKeeps ==
  ASSUME RecoveryInv, RescheduleData, isClient' = isClient,
         cryptoRetransmitted' \in BOOLEAN, retried' = retried
  PROVE  RecoveryInv'
<1>0. /\ RecoveryTypeOK /\ NumbersOK /\ CountersMatchTable /\ OneFateEach
      /\ OvertakenHasTimer /\ ThreeBehindIsLost /\ DiscardedIsQuiet
  BY DEF RecoveryInv
<1>. DEFINE gone == Crypto(sent)
<1>1. /\ sent' = sent \ gone /\ lost' = lost \cup gone /\ CountOut(gone)
      /\ UNCHANGED <<acked, expired, forgotten, numbers, largestAcked, lossTime, discarded,
                     resampled, overdue>>
  BY DEF RescheduleData
<1>2. gone \in SUBSET sent
  BY DEF Crypto
<1>. HIDE DEF gone
<1>3. /\ OneFateEach' /\ CountersMatchTable' /\ AllPackets' = AllPackets
      /\ elicitingInFlight' \in [PacketSpaces -> Nat] /\ bytesInFlight' \in Nat
      /\ \A p \in sent' : p.number >= firstNumber'
  <2>1. /\ {} \in SUBSET sent /\ gone \in SUBSET (sent \ {})
        /\ sent' = (sent \ {}) \ gone /\ acked' = acked \cup {} /\ {} \cup gone = gone
    BY <1>1, <1>2
  <2>2. CountOut({} \cup gone)
    BY <1>1, <2>1
  <2>3. QED
    BY <1>1, <2>1, <2>2, ReportKeeps
<1>4. RecoveryTypeOK'
  BY <1>0, <1>1, <1>3 DEF RecoveryTypeOK, numbers
<1>5. NumbersOK'
  BY <1>0, <1>1, <1>3 DEF NumbersOK, numbers
<1>6. OvertakenHasTimer' /\ ThreeBehindIsLost' /\ DiscardedIsQuiet'
  BY <1>0, <1>1 DEF OvertakenHasTimer, ThreeBehindIsLost, DiscardedIsQuiet, InSpace
<1>7. QED
  BY <1>3, <1>4, <1>5, <1>6 DEF RecoveryInv

LEMMA DiscardKeeps ==
  ASSUME RecoveryInv, NEW S \in SUBSET PacketSpaces, DiscardSpaces(S)
  PROVE  RecoveryInv'
<1>0. /\ RecoveryTypeOK /\ NumbersOK /\ CountersMatchTable /\ OneFateEach
      /\ OvertakenHasTimer /\ ThreeBehindIsLost /\ DiscardedIsQuiet
  BY DEF RecoveryInv
<1>. DEFINE gone == {p \in sent : p.space \in S}
<1>1. /\ sent' = sent \ gone
      /\ expired' = expired \cup gone
      /\ bytesInFlight' = bytesInFlight - Cardinality(InFlight(gone))
      /\ elicitingInFlight' = [s \in PacketSpaces |-> IF s \in S THEN 0 ELSE elicitingInFlight[s]]
      /\ lossTime' = [s \in PacketSpaces |-> IF s \in S THEN NoTime ELSE lossTime[s]]
      /\ resampled' = [s \in PacketSpaces |-> s \notin S /\ resampled[s]]
      /\ discarded' = discarded \cup S
      /\ UNCHANGED <<acked, lost, forgotten, numbers, largestAcked, overdue, onceVars>>
  BY DEF DiscardSpaces, OnPacketsExpired, LossTimeReset
<1>2. AllPackets' = AllPackets
  BY <1>1 DEF AllPackets
<1>3. OneFateEach'
  BY <1>0, <1>1, <1>2 DEF OneFateEach
<1>4. ASSUME NEW s \in PacketSpaces
      PROVE  elicitingInFlight'[s] = Cardinality(Eliciting(InSpace(sent', s)))
  <2>1. CASE s \in S
    <3>1. Eliciting(InSpace(sent', s)) = {}
      BY <1>1, <2>1 DEF Eliciting, InSpace
    <3>2. QED
      BY <1>1, <2>1, <3>1, FS_EmptySet
  <2>2. CASE s \notin S
    <3>1. InSpace(sent', s) = InSpace(sent, s)
      BY <1>1, <2>2 DEF InSpace
    <3>2. QED
      BY <1>0, <1>1, <2>2, <3>1 DEF CountersMatchTable
  <2>3. QED
    BY <2>1, <2>2
<1>5. /\ bytesInFlight' = Cardinality(InFlight(sent' \cup forgotten'))
      /\ bytesInFlight' \in Nat
  <2>1. InFlight(gone) \in SUBSET InFlight(sent \cup forgotten)
    BY DEF InFlight
  <2>2. InFlight(sent' \cup forgotten') = InFlight(sent \cup forgotten) \ InFlight(gone)
    BY <1>0, <1>1 DEF InFlight, OneFateEach
  <2>3. IsFiniteSet(InFlight(sent \cup forgotten))
    <3>1. sent \cup forgotten \in SUBSET AllPackets
      BY DEF AllPackets
    <3>2. QED
      BY <1>0, <3>1, FS_Subset, PartsFinite DEF RecoveryTypeOK
  <2>. HIDE DEF gone
  <2>4. LET P == InFlight(sent \cup forgotten)
            G == InFlight(gone)
        IN  Cardinality(P \ G) = Cardinality(P) - Cardinality(G) /\ Cardinality(P \ G) \in Nat
    BY <2>1, <2>3, CardTakeOut
  <2>5. QED
    BY <1>0, <1>1, <2>2, <2>4 DEF CountersMatchTable
<1>6. CountersMatchTable'
  BY <1>4, <1>5 DEF CountersMatchTable
<1>7. RecoveryTypeOK'
  <2>1. /\ elicitingInFlight' \in [PacketSpaces -> Nat]
        /\ lossTime' \in [PacketSpaces -> Nat \cup {NoTime}]
    BY <1>0, <1>1 DEF RecoveryTypeOK
  <2>2. resampled' \in [PacketSpaces -> BOOLEAN]
    BY <1>1
  <2>3. discarded' \subseteq PacketSpaces
    BY <1>0, <1>1 DEF RecoveryTypeOK
  <2>4. QED
    BY <1>0, <1>1, <1>2, <1>5, <2>1, <2>2, <2>3 DEF RecoveryTypeOK, numbers, onceVars
<1>8. NumbersOK'
  BY <1>0, <1>1, <1>2 DEF NumbersOK, numbers
<1>9. OvertakenHasTimer' /\ ThreeBehindIsLost'
  <2>1. ASSUME NEW p \in sent'
        PROVE  p \in sent /\ p.space \in PacketSpaces /\ lossTime'[p.space] = lossTime[p.space]
    BY <1>1, InvFacts
  <2>2. QED
    BY <1>0, <1>1, <2>1 DEF OvertakenHasTimer, ThreeBehindIsLost
<1>10. DiscardedIsQuiet'
  BY <1>0, <1>1 DEF DiscardedIsQuiet, InSpace, RecoveryTypeOK
<1>11. QED
  BY <1>3, <1>6, <1>7, <1>8, <1>9, <1>10 DEF RecoveryInv

LEMMA RetryKeeps ==
  ASSUME RecoveryInv, Retry
  PROVE  RecoveryInv'
<1>0. /\ RecoveryTypeOK /\ NumbersOK /\ CountersMatchTable /\ OneFateEach
      /\ OvertakenHasTimer /\ ThreeBehindIsLost /\ DiscardedIsQuiet
  BY DEF RecoveryInv
<1>1. /\ forgotten' = forgotten \cup sent /\ sent' = {} /\ firstNumber' = nextNumber
      /\ elicitingInFlight' = [s \in PacketSpaces |-> 0]
      /\ largestAcked' = [s \in PacketSpaces |-> 0]
      /\ lossTime' = [s \in PacketSpaces |-> NoTime]
      /\ discarded' = {} /\ resampled' = [s \in PacketSpaces |-> FALSE] /\ retried' = TRUE
      /\ UNCHANGED <<acked, lost, expired, nextNumber, bytesInFlight, overdue,
                     isClient, cryptoRetransmitted>>
  BY DEF Retry, Each
<1>2. AllPackets' = AllPackets
  BY <1>1 DEF AllPackets
<1>3. OneFateEach'
  BY <1>0, <1>1, <1>2 DEF OneFateEach
<1>4. CountersMatchTable'
  <2>1. \A s \in PacketSpaces : Eliciting(InSpace({}, s)) = {}
    BY DEF Eliciting, InSpace
  <2>2. sent' \cup forgotten' = sent \cup forgotten
    BY <1>1
  <2>3. QED
    BY <1>0, <1>1, <2>1, <2>2, FS_EmptySet DEF CountersMatchTable
<1>5. RecoveryTypeOK'
  <2>1. /\ elicitingInFlight' \in [PacketSpaces -> Nat] /\ largestAcked' \in [PacketSpaces -> Nat]
        /\ lossTime' \in [PacketSpaces -> Nat \cup {NoTime}]
        /\ resampled' \in [PacketSpaces -> BOOLEAN]
    BY <1>1
  <2>2. firstNumber' \in 0..nextNumber' /\ nextNumber' \in 0..MaxSent
    BY <1>0, <1>1 DEF RecoveryTypeOK
  <2>3. QED
    BY <1>0, <1>1, <1>2, <2>1, <2>2 DEF RecoveryTypeOK
<1>6. NumbersOK'
  <2>1. \A p \in AllPackets : p.number < nextNumber /\ p.number \in Nat
    BY <1>0 DEF NumbersOK, RecoveryTypeOK, Packet
  <2>2. \A q \in acked' : ~ (q.number >= firstNumber')
    BY <1>0, <1>1, <2>1 DEF AllPackets, RecoveryTypeOK
  <2>3. QED
    BY <1>1, <1>2, <2>1, <2>2 DEF NumbersOK
<1>7. OvertakenHasTimer' /\ ThreeBehindIsLost' /\ DiscardedIsQuiet'
  BY <1>1 DEF OvertakenHasTimer, ThreeBehindIsLost, DiscardedIsQuiet
<1>8. QED
  BY <1>3, <1>4, <1>5, <1>6, <1>7 DEF RecoveryInv

----------------------------------------------------------------------------
\* The theorems.

\* Whatever is sent, acknowledged, timed out or discarded in any order, the
\* tables, counters and timers of loss detection agree: RecoveryInv.
THEOREM RecoveryInvHolds == RecoverySpec => []RecoveryInv
<1>1. RecoveryInit => RecoveryInv
  BY InitOK
<1>2. RecoveryInv /\ [RecoveryNext]_recoveryVars => RecoveryInv'
  <2>. SUFFICES ASSUME RecoveryInv, [RecoveryNext]_recoveryVars PROVE RecoveryInv'
    OBVIOUS
  <2>1. CASE \E sk \in Kinds : OnPacketSent(sk[1], sk[2])
    BY <2>1, SentKeeps, RecoveryAssumption
  <2>2. CASE PeerAcks
    <3>1. PICK s \in PacketSpaces :
            \E ackRange \in SUBSET {p.number : p \in {q \in InSpace(sent \cup acked \cup lost, s) :
                                                        q.number >= firstNumber}} \ {{}} :
              OnAckReceived(s, ackRange)
      BY <2>2 DEF PeerAcks
    <3>2. PICK ackRange \in SUBSET {p.number : p \in {q \in InSpace(sent \cup acked \cup lost, s) :
                                                       q.number >= firstNumber}} :
            OnAckReceived(s, ackRange)
      BY <3>1
    <3>3. \A p \in AllPackets : p.number \in 0..nextNumber
      BY DEF RecoveryInv, NumbersOK, RecoveryTypeOK, Packet
    <3>4. ackRange \in SUBSET (0..nextNumber)
      BY <3>3 DEF InSpace, AllPackets
    <3>5. QED
      BY <3>2, <3>4, AckKeeps
  <2>3. CASE TimePasses
    BY <2>3, TimePassesKeeps
  <2>4. CASE HandleTimer
    <3>1. CASE ProbeTimeout
      <4>1. RescheduleData /\ UNCHANGED onceVars
        BY <3>1 DEF ProbeTimeout
      <4>2. isClient' = isClient /\ retried' = retried /\ cryptoRetransmitted' \in BOOLEAN
        BY <4>1 DEF onceVars, RecoveryInv, RecoveryTypeOK
      <4>3. QED
        BY <4>1, <4>2, RescheduleKeeps
    <3>2. CASE \E s \in PacketSpaces : LossTimeout(s)
      BY <3>2, LossTimeoutKeeps
    <3>3. QED
      BY <2>4, <3>1, <3>2 DEF HandleTimer
  <2>5. CASE PeerMissesCrypto
    BY <2>5, RescheduleKeeps DEF PeerMissesCrypto
  <2>6. CASE DiscardHandshake
    <3>1. DiscardSpaces({HandshakeSpace}) /\ {HandshakeSpace} \in SUBSET PacketSpaces
      BY <2>6, RecoveryAssumption DEF DiscardHandshake
    <3>2. QED
      BY <3>1, DiscardKeeps
  <2>7. CASE CloseEnd
    <3>1. DiscardSpaces(PacketSpaces \ discarded) /\ (PacketSpaces \ discarded) \in SUBSET PacketSpaces
      BY <2>7 DEF CloseEnd
    <3>2. QED
      BY <3>1, DiscardKeeps
  <2>8. CASE Retry
    BY <2>8, RetryKeeps
  <2>9. CASE UNCHANGED recoveryVars
    BY <2>9 DEF recoveryVars, fates, numbers, spaceVars, onceVars, RecoveryInv, RecoveryTypeOK,
       NumbersOK, CountersMatchTable, OneFateEach, OvertakenHasTimer, ThreeBehindIsLost,
       DiscardedIsQuiet, AllPackets
  <2>10. QED
    BY <2>1, <2>2, <2>3, <2>4, <2>5, <2>6, <2>7, <2>8, <2>9 DEF RecoveryNext
<1>3. QED
  BY <1>1, <1>2, PTL DEF RecoverySpec

\* ack_eliciting_in_flight and bytes_in_flight never drift from the table.
THEOREM CountersMatchTableHolds == RecoverySpec => []CountersMatchTable
<1>1. RecoveryInv => CountersMatchTable
  BY DEF RecoveryInv
<1>2. QED
  BY <1>1, RecoveryInvHolds, PTL

\* No packet is reported twice, or both ACKED and LOST.
THEOREM OneFateEachHolds == RecoverySpec => []OneFateEach
<1>1. RecoveryInv => OneFateEach
  BY DEF RecoveryInv
<1>2. QED
  BY <1>1, RecoveryInvHolds, PTL

\* An overtaken packet is timed, or lost when K_PACKET_THRESHOLD behind.
THEOREM OvertakenIsWatched == RecoverySpec => [](OvertakenHasTimer /\ ThreeBehindIsLost)
<1>1. RecoveryInv => OvertakenHasTimer /\ ThreeBehindIsLost
  BY DEF RecoveryInv
<1>2. QED
  BY <1>1, RecoveryInvHolds, PTL

----
(***************************************************************************)
(* Lists of ranges: quic/rangeset.py.                                      *)
(***************************************************************************)

\* A set of numbers that is not empty has a least one.
LEMMA HasLeast ==
  ASSUME NEW A \in SUBSET Nat, A # {}
  PROVE  \E x \in A : \A y \in A : x <= y
<1>1. PICK x \in A : \A y \in A : ~ (<<y, x>> \in OpToRel(<, Nat))
  BY NatLessThanWellFounded, WFMin
<1>2. ASSUME NEW y \in A PROVE x <= y
  <2>1. y \in Nat /\ x \in Nat /\ <<y, x>> \in Nat \X Nat
    OBVIOUS
  <2>2. ~ (y < x)
    BY <1>1, <2>1 DEF OpToRel
  <2>3. QED
    BY <2>1, <2>2
<1>3. QED
  BY <1>2

\* Min of a set of numbers is its least.
LEMMA MinIsLeast ==
  ASSUME NEW A \in SUBSET Nat, A # {}
  PROVE  Min(A) \in A /\ \A y \in A : Min(A) <= y
  BY HasLeast DEF Min

Ranges == {r \in [start : Nat, stop : Nat] : r.start < r.stop}

\* In order, with a gap between any two.
Ascending(q) ==
  /\ q \in Seq(Ranges)
  /\ \A i, j \in 1..Len(q) : i < j => q[i].stop < q[j].start

Apart(p, q) == \A i \in 1..Len(p), j \in 1..Len(q) : p[i].stop < q[j].start

\* The ends of a run, which is a range unless it is empty.
LEMMA RunType ==
  ASSUME NEW a \in Nat, NEW b \in Nat
  PROVE  /\ Run(a, b) \in [start : Nat, stop : Nat]
         /\ Run(a, b).start = a /\ Run(a, b).stop = b
         /\ a < b => Run(a, b) \in Ranges
  BY DEF Run, Ranges

\* A range is the run from its start to its stop.
LEMMA RangeParts ==
  ASSUME NEW r \in Ranges
  PROVE  r.start \in Nat /\ r.stop \in Nat /\ r.start < r.stop /\ r = Run(r.start, r.stop)
  BY DEF Ranges, Run

\* The ranges of a list in order, and what comes after one of them.
LEMMA AscendingParts ==
  ASSUME NEW q, Ascending(q), NEW i \in 1..Len(q)
  PROVE  /\ q[i] \in Ranges /\ q[i].start \in Nat /\ q[i].stop \in Nat /\ q[i].start < q[i].stop
         /\ DOMAIN q = 1..Len(q) /\ Len(q) \in Nat
         /\ \A j \in 1..Len(q) : i < j => q[i].stop < q[j].start /\ q[i].stop < q[j].stop
<1>1. q \in Seq(Ranges) /\ DOMAIN q = 1..Len(q) /\ Len(q) \in Nat
  BY LenProperties DEF Ascending
<1>2. \A j \in 1..Len(q) : q[j] \in Ranges /\ q[j].start \in Nat /\ q[j].stop \in Nat
                             /\ q[j].start < q[j].stop
  BY <1>1, ElementOfSeq, RangeParts
<1>3. \A j \in 1..Len(q) : i < j => q[i].stop < q[j].start
  BY DEF Ascending
<1>4. QED
  BY <1>1, <1>2, <1>3

\* A list covers what one of its ranges covers.
LEMMA InCovered ==
  ASSUME NEW q \in Seq(Ranges), NEW m
  PROVE  m \in Covered(q) <=> m \in Nat /\ \E i \in 1..Len(q) : q[i].start <= m /\ m < q[i].stop
<1>1. DOMAIN q = 1..Len(q)
  BY LenProperties
<1>2. \A i \in 1..Len(q) : q[i].start \in Nat /\ q[i].stop \in Nat
  BY ElementOfSeq, RangeParts
<1>3. ASSUME NEW i \in 1..Len(q)
      PROVE  m \in q[i].start..(q[i].stop - 1) <=> m \in Nat /\ q[i].start <= m /\ m < q[i].stop
  BY <1>2, <1>3
<1>4. QED
  BY <1>1, <1>3 DEF Covered

\* Two lists one after the other cover what each of them covers.
LEMMA CoveredConcat ==
  ASSUME NEW p \in Seq(Ranges), NEW q \in Seq(Ranges)
  PROVE  p \o q \in Seq(Ranges) /\ Covered(p \o q) = Covered(p) \cup Covered(q)
<1>0. p \o q \in Seq(Ranges) /\ Len(p) \in Nat /\ Len(q) \in Nat
  BY ConcatProperties, LenProperties
<1>1. /\ Len(p \o q) = Len(p) + Len(q)
      /\ \A i \in 1..Len(p) : (p \o q)[i] = p[i]
      /\ \A i \in 1..Len(q) : (p \o q)[Len(p) + i] = q[i]
  <2>1. \A i \in 1..(Len(p) + Len(q)) : (p \o q)[i] = IF i <= Len(p) THEN p[i] ELSE q[i - Len(p)]
    BY ConcatProperties
  <2>2. QED
    BY <1>0, <2>1, ConcatProperties
<1>2. ASSUME NEW m PROVE m \in Covered(p \o q) <=> m \in Covered(p) \/ m \in Covered(q)
  <2>1. ASSUME m \in Covered(p \o q) PROVE m \in Covered(p) \/ m \in Covered(q)
    <3>1. PICK i \in 1..(Len(p) + Len(q)) : (p \o q)[i].start <= m /\ m < (p \o q)[i].stop
      BY <1>0, <1>1, <2>1, InCovered
    <3>2. CASE i <= Len(p)
      <4>0. m \in Nat
        BY <1>0, <2>1, InCovered
      <4>1. i \in 1..Len(p)
        BY <1>0, <3>2
      <4>2. QED
        BY <1>1, <3>1, <4>0, <4>1, InCovered
    <3>3. CASE ~(i <= Len(p))
      <4>1. i - Len(p) \in 1..Len(q) /\ Len(p) + (i - Len(p)) = i
        BY <1>0, <3>3
      <4>2. (p \o q)[i] = q[i - Len(p)]
        BY <1>1, <4>1
      <4>3. QED
        BY <1>0, <2>1, <3>1, <4>1, <4>2, InCovered
    <3>4. QED
      BY <3>2, <3>3
  <2>2. ASSUME m \in Covered(p) PROVE m \in Covered(p \o q)
    <3>1. PICK i \in 1..Len(p) : p[i].start <= m /\ m < p[i].stop
      BY <2>2, InCovered
    <3>2. i \in 1..Len(p \o q) /\ (p \o q)[i] = p[i]
      BY <1>0, <1>1
    <3>3. QED
      BY <1>0, <2>2, <3>1, <3>2, InCovered
  <2>3. ASSUME m \in Covered(q) PROVE m \in Covered(p \o q)
    <3>1. PICK i \in 1..Len(q) : q[i].start <= m /\ m < q[i].stop
      BY <2>3, InCovered
    <3>2. Len(p) + i \in 1..Len(p \o q) /\ (p \o q)[Len(p) + i] = q[i]
      BY <1>0, <1>1
    <3>3. QED
      BY <1>0, <2>3, <3>1, <3>2, InCovered
  <2>4. QED
    BY <2>1, <2>2, <2>3
<1>3. QED
  BY <1>0, <1>2

\* Two lists in order, with a gap between them, are in order together.
LEMMA AscendingConcat ==
  ASSUME NEW p, Ascending(p), NEW q, Ascending(q), Apart(p, q)
  PROVE  Ascending(p \o q)
<1>0. p \in Seq(Ranges) /\ q \in Seq(Ranges) /\ Len(p) \in Nat /\ Len(q) \in Nat
  BY LenProperties DEF Ascending
<1>1. p \o q \in Seq(Ranges) /\ Len(p \o q) = Len(p) + Len(q)
  BY <1>0, ConcatProperties
<1>2. \A i \in 1..(Len(p) + Len(q)) : (p \o q)[i] = IF i <= Len(p) THEN p[i] ELSE q[i - Len(p)]
  BY <1>0, ConcatProperties
<1>3. ASSUME NEW i \in 1..Len(p \o q), NEW j \in 1..Len(p \o q), i < j
      PROVE  (p \o q)[i].stop < (p \o q)[j].start
  <2>1. CASE j <= Len(p)
    BY <1>0, <1>1, <1>2, <1>3, <2>1 DEF Ascending
  <2>2. CASE ~(j <= Len(p)) /\ i <= Len(p)
    <3>1. j - Len(p) \in 1..Len(q) /\ i \in 1..Len(p)
      BY <1>0, <1>1, <2>2
    <3>2. QED
      BY <1>1, <1>2, <2>2, <3>1 DEF Apart
  <2>3. CASE ~(j <= Len(p)) /\ ~(i <= Len(p))
    <3>1. j - Len(p) \in 1..Len(q) /\ i - Len(p) \in 1..Len(q) /\ i - Len(p) < j - Len(p)
      BY <1>0, <1>1, <1>3, <2>3
    <3>2. QED
      BY <1>1, <1>2, <2>3, <3>1 DEF Ascending
  <2>4. QED
    BY <2>1, <2>2, <2>3
<1>4. QED
  BY <1>1, <1>3 DEF Ascending

\* A part of a list.
LEMMA AscendingPart ==
  ASSUME NEW q, Ascending(q), NEW a \in 1..(Len(q) + 1), NEW b \in 0..Len(q), a <= b + 1
  PROVE  /\ Ascending(SubSeq(q, a, b))
         /\ Len(SubSeq(q, a, b)) = b - a + 1
         /\ \A i \in 1..(b - a + 1) : SubSeq(q, a, b)[i] = q[a + i - 1]
<1>0. q \in Seq(Ranges) /\ Len(q) \in Nat /\ a \in Int /\ b \in Int
  BY LenProperties DEF Ascending
<1>1. \A i \in a..b : q[i] \in Ranges
  BY <1>0, ElementOfSeq
<1>2. /\ SubSeq(q, a, b) \in Seq(Ranges)
      /\ Len(SubSeq(q, a, b)) = IF a <= b THEN b - a + 1 ELSE 0
      /\ \A i \in 1..(b - a + 1) : SubSeq(q, a, b)[i] = q[a + i - 1]
  BY <1>0, <1>1, SubSeqProperties
<1>3. Len(SubSeq(q, a, b)) = b - a + 1
  BY <1>0, <1>2
<1>4. ASSUME NEW i \in 1..(b - a + 1), NEW j \in 1..(b - a + 1), i < j
      PROVE  SubSeq(q, a, b)[i].stop < SubSeq(q, a, b)[j].start
  <2>1. a + i - 1 \in 1..Len(q) /\ a + j - 1 \in 1..Len(q) /\ a + i - 1 < a + j - 1
    BY <1>0, <1>4
  <2>2. QED
    BY <1>2, <2>1 DEF Ascending
<1>5. QED
  BY <1>2, <1>3, <1>4 DEF Ascending

\* A list of one range.
LEMMA AscendingOne ==
  ASSUME NEW r \in Ranges
  PROVE  Ascending(<<r>>) /\ Len(<<r>>) = 1 /\ <<r>>[1] = r /\ Covered(<<r>>) = r.start..(r.stop - 1)
<1>1. <<r>> \in Seq(Ranges) /\ Len(<<r>>) = 1 /\ <<r>>[1] = r
  OBVIOUS
<1>2. Ascending(<<r>>)
  BY <1>1 DEF Ascending
<1>3. DOMAIN <<r>> = {1}
  BY <1>1
<1>4. QED
  BY <1>1, <1>2, <1>3 DEF Covered

\* The empty list covers nothing.
LEMMA AscendingNone == Ascending(<< >>) /\ Covered(<< >>) = {}
<1>1. << >> \in Seq(Ranges) /\ Len(<< >>) = 0 /\ DOMAIN << >> = {}
  OBVIOUS
<1>2. QED
  BY <1>1 DEF Ascending, Covered

----------------------------------------------------------------------------
(***************************************************************************)
(* add() and subtract().                                                   *)
(***************************************************************************)
LEMMA FirstFromIs ==
  ASSUME NEW q, Ascending(q), NEW start \in Nat
  PROVE  LET i == FirstFrom(q, start) IN
         /\ i \in 1..(Len(q) + 1)
         /\ \A j \in 1..Len(q) : j < i <=> q[j].stop < start
<1>. DEFINE A == {j \in DOMAIN q : start <= q[j].stop} \cup {Len(q) + 1}
            i == FirstFrom(q, start)
<1>0. q \in Seq(Ranges) /\ Len(q) \in Nat /\ DOMAIN q = 1..Len(q)
  BY LenProperties DEF Ascending
<1>1. A \in SUBSET Nat /\ A # {}
  BY <1>0
<1>2. i \in A /\ \A y \in A : i <= y
  BY <1>1, MinIsLeast DEF FirstFrom
<1>3. i \in 1..(Len(q) + 1)
  BY <1>0, <1>2
<1>4. ASSUME NEW j \in 1..Len(q), j < i PROVE q[j].stop < start
  <2>1. j \notin A
    BY <1>0, <1>2, <1>3, <1>4
  <2>2. q[j].stop \in Nat /\ ~(start <= q[j].stop)
    BY <1>0, <2>1, AscendingParts
  <2>3. QED
    BY <2>2
<1>5. ASSUME NEW j \in 1..Len(q), q[j].stop < start PROVE j < i
  <2>1. i \in 1..Len(q) => start <= q[i].stop
    BY <1>0, <1>2
  <2>2. CASE i = Len(q) + 1
    BY <1>0, <2>2
  <2>3. CASE i \in 1..Len(q)
    <3>1. q[i].stop \in Nat /\ q[j].stop \in Nat /\ (i < j => q[i].stop < q[j].stop) /\ i # j
      BY <1>5, <2>1, <2>3, AscendingParts
    <3>2. QED
      BY <1>0, <1>5, <2>1, <2>3, <3>1
  <2>4. QED
    BY <1>0, <1>3, <2>2, <2>3
<1>6. QED
  BY <1>3, <1>4, <1>5

\* The loop of subtract() ends at the first range that does not begin before stop.
LEMMA FirstAfterIs ==
  ASSUME NEW q, Ascending(q), NEW stop \in Nat
  PROVE  LET k == FirstAfter(q, stop) IN
         /\ k \in 1..(Len(q) + 1)
         /\ \A j \in 1..Len(q) : j < k <=> q[j].start < stop
<1>. DEFINE A == {j \in DOMAIN q : stop <= q[j].start} \cup {Len(q) + 1}
            k == FirstAfter(q, stop)
<1>0. q \in Seq(Ranges) /\ Len(q) \in Nat /\ DOMAIN q = 1..Len(q)
  BY LenProperties DEF Ascending
<1>1. A \in SUBSET Nat /\ A # {}
  BY <1>0
<1>2. k \in A /\ \A y \in A : k <= y
  BY <1>1, MinIsLeast DEF FirstAfter
<1>3. k \in 1..(Len(q) + 1)
  BY <1>0, <1>2
<1>4. ASSUME NEW j \in 1..Len(q), j < k PROVE q[j].start < stop
  <2>1. j \notin A
    BY <1>0, <1>2, <1>3, <1>4
  <2>2. q[j].start \in Nat /\ ~(stop <= q[j].start)
    BY <1>0, <2>1, AscendingParts
  <2>3. QED
    BY <2>2
<1>5. ASSUME NEW j \in 1..Len(q), q[j].start < stop PROVE j < k
  <2>1. k \in 1..Len(q) => stop <= q[k].start
    BY <1>0, <1>2
  <2>2. CASE k = Len(q) + 1
    BY <1>0, <2>2
  <2>3. CASE k \in 1..Len(q)
    <3>1. /\ q[k].stop \in Nat /\ q[k].start \in Nat /\ q[k].start < q[k].stop
          /\ q[j].start \in Nat /\ (k < j => q[k].stop < q[j].start) /\ k # j
      BY <1>5, <2>1, <2>3, AscendingParts
    <3>2. QED
      BY <1>0, <1>5, <2>1, <2>3, <3>1
  <2>4. QED
    BY <1>0, <1>3, <2>2, <2>3
<1>6. QED
  BY <1>3, <1>4, <1>5

\* Where the loop of add() stops.
LEMMA SwallowedIs ==
  ASSUME NEW q, Ascending(q), NEW start \in Nat, NEW stop \in Nat, start < stop,
         NEW i \in 1..(Len(q) + 1), \A j \in 1..Len(q) : j < i <=> q[j].stop < start,
         NEW k, k = LastReached(q, stop, i)
  PROVE  /\ k \in (i - 1)..Len(q)
         /\ Reach(q, stop, i, k) \in Nat /\ stop <= Reach(q, stop, i, k)
         /\ k >= i => q[k].start <= stop /\ q[k].stop <= Reach(q, stop, i, k)
         /\ Reach(q, stop, i, k) = stop \/ (k >= i /\ Reach(q, stop, i, k) = q[k].stop)
         /\ k < Len(q) => Reach(q, stop, i, k) < q[k + 1].start
<1>. DEFINE Out == {j \in (i - 1)..Len(q) : j = Len(q) \/ Reach(q, stop, i, j) < q[j + 1].start}
<1>0. q \in Seq(Ranges) /\ Len(q) \in Nat
  BY LenProperties DEF Ascending
<1>1. Out \in SUBSET Nat /\ Len(q) \in Out
  BY <1>0
<1>2. k \in Out /\ \A y \in Out : k <= y
  BY <1>1, MinIsLeast DEF LastReached
<1>3. k \in (i - 1)..Len(q) /\ (k < Len(q) => Reach(q, stop, i, k) < q[k + 1].start)
  BY <1>0, <1>2
<1>4. \A j \in i..Len(q) : q[j].start \in Nat /\ q[j].stop \in Nat
  BY <1>0, AscendingParts
<1>5. /\ Reach(q, stop, i, k) \in Nat /\ stop <= Reach(q, stop, i, k)
      /\ Reach(q, stop, i, k) = stop \/ (k >= i /\ Reach(q, stop, i, k) = q[k].stop)
      /\ k >= i => q[k].stop <= Reach(q, stop, i, k)
  <2>1. CASE k < i
    BY <1>0, <1>3, <2>1 DEF Reach
  <2>2. CASE k >= i
    <3>1. k \in i..Len(q) /\ q[k].stop \in Nat /\ ~(k < i)
      BY <1>0, <1>3, <1>4, <2>2
    <3>2. Reach(q, stop, i, k) = IF stop < q[k].stop THEN q[k].stop ELSE stop
      BY <3>1 DEF Reach, Larger
    <3>3. QED
      BY <2>2, <3>1, <3>2
  <2>3. QED
    BY <1>0, <1>3, <2>1, <2>2
<1>6. ASSUME k >= i PROVE q[k].start <= stop
  <2>1. k - 1 \in (i - 1)..Len(q) /\ k - 1 \notin Out /\ k \in i..Len(q) /\ (k - 1) + 1 = k
    BY <1>0, <1>2, <1>3, <1>6
  <2>2. ~(Reach(q, stop, i, k - 1) < q[k].start)
    BY <2>1
  <2>3. CASE k - 1 < i
    BY <1>4, <2>1, <2>2, <2>3 DEF Reach
  <2>4. CASE ~(k - 1 < i)
    <3>1. k - 1 \in 1..Len(q) /\ k \in 1..Len(q) /\ k - 1 < k
      BY <1>0, <2>1, <2>4
    <3>2. q[k - 1].stop < q[k].start /\ q[k - 1].stop \in Nat /\ q[k].start \in Nat
      BY <3>1, AscendingParts
    <3>3. Reach(q, stop, i, k - 1) = IF stop < q[k - 1].stop THEN q[k - 1].stop ELSE stop
      BY <2>4 DEF Reach, Larger
    <3>4. QED
      BY <2>2, <3>2, <3>3
  <2>5. QED
    BY <2>3, <2>4
<1>7. QED
  BY <1>3, <1>5, <1>6

\* add() adds the numbers, and keeps the list in order.
LEMMA AddAdds ==
  ASSUME NEW q, Ascending(q), NEW start \in Nat, NEW stop \in Nat, start < stop
  PROVE  /\ Ascending(Add(q, start, stop))
         /\ Add(q, start, stop) # << >>
         /\ Covered(Add(q, start, stop)) = Covered(q) \cup start..(stop - 1)
<1>. DEFINE n == Len(q)
            i == FirstFrom(q, start)
            k == LastReached(q, stop, i)
            from == IF k < i THEN start ELSE Smaller(start, q[i].start)
            to == Reach(q, stop, i, k)
            front == SubSeq(q, 1, i - 1)
            right == SubSeq(q, k + 1, n)
            new == Add(q, start, stop)
<1>0. q \in Seq(Ranges) /\ n \in Nat /\ DOMAIN q = 1..n
  BY LenProperties DEF Ascending
<1>1. i \in 1..(n + 1) /\ \A j \in 1..n : j < i <=> q[j].stop < start
  BY FirstFromIs
<1>2. /\ k \in (i - 1)..n /\ to \in Nat /\ stop <= to
      /\ k >= i => q[k].start <= stop /\ q[k].stop <= to
      /\ to = stop \/ (k >= i /\ to = q[k].stop)
      /\ k < n => to < q[k + 1].start
  <2>. HIDE DEF i
  <2>1. QED
    BY <1>1, SwallowedIs
<1>3. new = front \o <<Run(from, to)>> \o right
  BY DEF Add, Merged
<1>. HIDE DEF i, k, to, new
<1>4. \A j \in 1..n : q[j].start \in Nat /\ q[j].stop \in Nat /\ q[j].start < q[j].stop
  BY AscendingParts
<1>5. \A a, b \in 1..n : a < b => q[a].stop < q[b].start
  BY DEF Ascending
<1>6. /\ from \in Nat /\ from <= start /\ from < to /\ Run(from, to) \in Ranges
      /\ k >= i => from <= q[i].start
      /\ from = start \/ (k >= i /\ from = q[i].start)
  <2>1. CASE k < i
    <3>1. from = start /\ ~(k >= i)
      BY <1>0, <1>1, <1>2, <2>1
    <3>2. start < to /\ to \in Nat
      BY <1>2
    <3>3. Run(from, to) \in Ranges
      BY <3>1, <3>2, RunType
    <3>4. QED
      BY <3>1, <3>2, <3>3
  <2>2. CASE ~(k < i)
    <3>1. i \in 1..n /\ k >= i
      BY <1>0, <1>1, <1>2, <2>2
    <3>2. from = Smaller(start, q[i].start) /\ q[i].start \in Nat
      BY <1>4, <2>2, <3>1
    <3>3. from \in Nat /\ from <= start /\ from <= q[i].start /\ (from = start \/ from = q[i].start)
      BY <3>2 DEF Smaller
    <3>4. from < to
      BY <1>2, <3>3
    <3>. HIDE DEF from
    <3>5. Run(from, to) \in Ranges
      BY <1>2, <3>3, <3>4, RunType
    <3>6. QED
      BY <3>1, <3>3, <3>4, <3>5
  <2>3. QED
    BY <2>1, <2>2
<1>. HIDE DEF from
<1>7. /\ Ascending(front) /\ Len(front) = i - 1
      /\ \A j \in 1..(i - 1) : front[j] = q[j]
  <2>1. i - 1 \in 0..n
    BY <1>0, <1>1
  <2>2. QED
    BY <1>0, <1>1, <2>1, AscendingPart
<1>8. /\ Ascending(right) /\ Len(right) = n - k
      /\ \A j \in 1..(n - k) : right[j] = q[k + j]
  <2>1. k + 1 \in 1..(n + 1) /\ n \in 0..n /\ k + 1 <= n + 1
    BY <1>0, <1>1, <1>2
  <2>2. /\ Ascending(right) /\ Len(right) = n - (k + 1) + 1
        /\ \A j \in 1..(n - (k + 1) + 1) : right[j] = q[(k + 1) + j - 1]
    BY <2>1, AscendingPart
  <2>3. n - (k + 1) + 1 = n - k /\ \A j \in 1..(n - k) : (k + 1) + j - 1 = k + j
    BY <1>0, <1>1, <1>2
  <2>4. QED
    BY <2>2, <2>3
<1>. HIDE DEF front, right
<1>9. /\ Ascending(<<Run(from, to)>>) /\ Len(<<Run(from, to)>>) = 1
      /\ <<Run(from, to)>>[1] = Run(from, to)
      /\ Run(from, to).start = from /\ Run(from, to).stop = to
      /\ Covered(<<Run(from, to)>>) = from..(to - 1)
  <2>1. Run(from, to).start = from /\ Run(from, to).stop = to
    BY <1>2, <1>6, RunType
  <2>2. QED
    BY <1>6, <2>1, AscendingOne
<1>10. Apart(front, <<Run(from, to)>>)
  <2>1. ASSUME NEW j \in 1..(i - 1) PROVE front[j].stop < from
    <3>1. j \in 1..n /\ j < i /\ q[j].stop < start /\ front[j] = q[j] /\ q[j].stop \in Nat
      BY <1>0, <1>1, <1>4, <1>7
    <3>2. k >= i => i \in 1..n /\ q[j].stop < q[i].start
      BY <1>0, <1>1, <1>2, <1>5, <3>1
    <3>3. QED
      BY <1>6, <3>1, <3>2
  <2>2. QED
    BY <1>7, <1>9, <2>1 DEF Apart
<1>11. Apart(<<Run(from, to)>>, right)
  <2>1. ASSUME NEW j \in 1..(n - k) PROVE to < right[j].start
    <3>1. k + 1 \in 1..n /\ k + j \in 1..n /\ right[j] = q[k + j] /\ to < q[k + 1].start
      BY <1>0, <1>1, <1>2, <1>8
    <3>2. q[k + 1].start <= q[k + j].start
      <4>1. CASE j = 1
        BY <1>4, <3>1, <4>1
      <4>2. CASE j # 1
        <5>1. k + 1 < k + j
          BY <1>0, <1>1, <1>2, <4>2
        <5>2. q[k + 1].stop < q[k + j].start /\ q[k + 1].start < q[k + 1].stop
          BY <1>4, <1>5, <3>1, <5>1
        <5>3. QED
          BY <1>4, <3>1, <5>2
      <4>3. QED
        BY <4>1, <4>2
    <3>3. QED
      BY <1>2, <1>4, <3>1, <3>2
  <2>2. QED
    BY <1>8, <1>9, <2>1 DEF Apart
<1>12. Ascending(front \o <<Run(from, to)>>)
  BY <1>7, <1>9, <1>10, AscendingConcat
<1>13. Apart(front \o <<Run(from, to)>>, right)
  <2>1. front \in Seq(Ranges) /\ <<Run(from, to)>> \in Seq(Ranges)
    BY <1>7, <1>9 DEF Ascending
  <2>2. /\ Len(front \o <<Run(from, to)>>) = i
        /\ \A j \in 1..i : (front \o <<Run(from, to)>>)[j]
                            = IF j <= i - 1 THEN front[j] ELSE <<Run(from, to)>>[j - (i - 1)]
    BY <1>1, <1>7, <1>9, <2>1, ConcatProperties
  <2>3. ASSUME NEW j \in 1..i, NEW m \in 1..(n - k)
        PROVE  (front \o <<Run(from, to)>>)[j].stop < right[m].start
    <3>0. to < right[m].start /\ right[m].start \in Nat
      <4>1. k + m \in 1..n
        BY <1>0, <1>1, <1>2
      <4>2. right[m].start \in Nat
        BY <1>4, <1>8, <4>1
      <4>3. QED
        BY <1>8, <1>9, <1>11, <4>2 DEF Apart
    <3>1. CASE j <= i - 1
      <4>1. j \in 1..Len(front) /\ (front \o <<Run(from, to)>>)[j] = front[j]
        BY <1>1, <1>7, <2>2, <3>1
      <4>2. front[j].stop < from /\ front[j].stop \in Nat
        BY <1>7, <1>9, <1>10, <4>1, AscendingParts DEF Apart
      <4>3. QED
        BY <1>2, <1>6, <3>0, <4>1, <4>2
    <3>2. CASE ~(j <= i - 1)
      <4>1. j - (i - 1) = 1
        BY <1>1, <3>2
      <4>2. QED
        BY <1>9, <2>2, <3>0, <3>2, <4>1
    <3>3. QED
      BY <3>1, <3>2
  <2>4. QED
    BY <1>8, <2>2, <2>3 DEF Apart
<1>14. Ascending(new)
  BY <1>3, <1>8, <1>12, <1>13, AscendingConcat
<1>15. Covered(new) = Covered(front) \cup from..(to - 1) \cup Covered(right)
  <2>1. /\ front \in Seq(Ranges) /\ <<Run(from, to)>> \in Seq(Ranges) /\ right \in Seq(Ranges)
    BY <1>7, <1>8, <1>9 DEF Ascending
  <2>2. /\ front \o <<Run(from, to)>> \in Seq(Ranges)
        /\ Covered(front \o <<Run(from, to)>>) = Covered(front) \cup from..(to - 1)
    BY <1>9, <2>1, CoveredConcat
  <2>3. QED
    BY <1>3, <2>1, <2>2, CoveredConcat
<1>16. \A m \in Nat : m \in Covered(front) <=> \E j \in 1..(i - 1) : q[j].start <= m /\ m < q[j].stop
  BY <1>7, InCovered DEF Ascending
<1>17. \A m \in Nat : m \in Covered(right) <=> \E j \in 1..(n - k) : q[k + j].start <= m /\ m < q[k + j].stop
  BY <1>8, InCovered DEF Ascending
<1>18. \A m \in Nat : m \in Covered(q) <=> \E j \in 1..n : q[j].start <= m /\ m < q[j].stop
  BY <1>0, InCovered
<1>19. ASSUME NEW m \in Nat
       PROVE  m \in Covered(new) <=> m \in Covered(q) \cup start..(stop - 1)
  <2>1. ASSUME m \in Covered(front) \/ m \in Covered(right) PROVE m \in Covered(q)
    <3>1. CASE m \in Covered(front)
      <4>1. PICK j \in 1..(i - 1) : q[j].start <= m /\ m < q[j].stop
        BY <1>16, <3>1
      <4>2. j \in 1..n
        BY <1>0, <1>1
      <4>3. QED
        BY <1>18, <4>1, <4>2
    <3>2. CASE m \in Covered(right)
      <4>1. PICK j \in 1..(n - k) : q[k + j].start <= m /\ m < q[k + j].stop
        BY <1>17, <3>2
      <4>2. k + j \in 1..n
        BY <1>0, <1>1, <1>2
      <4>3. QED
        BY <1>18, <4>1, <4>2
    <3>3. QED
      BY <2>1, <3>1, <3>2
  <2>2. ASSUME m \in from..(to - 1), ~(m \in start..(stop - 1)) PROVE m \in Covered(q)
    <3>1. CASE m < start
      <4>1. k >= i /\ from = q[i].start /\ i \in 1..n /\ q[i].start <= m
        BY <1>0, <1>1, <1>2, <1>6, <2>2, <3>1
      <4>2. ~(q[i].stop < start)
        BY <1>1, <4>1
      <4>3. QED
        BY <1>4, <1>18, <3>1, <4>1, <4>2
    <3>2. CASE ~(m < start)
      <4>1. stop <= m /\ m < to
        BY <1>2, <1>6, <2>2, <3>2
      <4>2. k >= i /\ to = q[k].stop /\ q[k].start <= stop
        BY <1>2, <4>1
      <4>3. k \in 1..n
        BY <1>0, <1>1, <1>2, <4>2
      <4>4. QED
        BY <1>4, <1>18, <4>1, <4>2, <4>3
    <3>3. QED
      BY <3>1, <3>2
  <2>3. ASSUME m \in Covered(q) PROVE m \in Covered(front) \cup from..(to - 1) \cup Covered(right)
    <3>1. PICK j \in 1..n : q[j].start <= m /\ m < q[j].stop
      BY <1>18, <2>3
    <3>2. CASE j < i
      <4>1. j \in 1..(i - 1)
        BY <1>0, <1>1, <3>2
      <4>2. QED
        BY <1>16, <3>1, <4>1
    <3>3. CASE j > k
      <4>1. j - k \in 1..(n - k) /\ k + (j - k) = j
        BY <1>0, <1>1, <1>2, <3>3
      <4>2. QED
        BY <1>17, <3>1, <4>1
    <3>4. CASE i <= j /\ j <= k
      <4>1. i \in 1..n /\ k \in 1..n /\ k >= i
        BY <1>0, <1>1, <1>2, <3>4
      <4>2. q[i].start <= q[j].start /\ q[j].stop <= q[k].stop
        <5>1. (i < j => q[i].stop < q[j].start) /\ (j < k => q[j].stop < q[k].start)
          BY <1>5, <4>1
        <5>2. QED
          BY <1>4, <3>4, <4>1, <5>1
      <4>3. from <= m /\ m < to
        BY <1>2, <1>4, <1>6, <3>1, <4>1, <4>2
      <4>4. QED
        BY <1>2, <1>6, <4>3
    <3>5. QED
      BY <1>0, <1>1, <1>2, <3>2, <3>3, <3>4
  <2>4. m \in start..(stop - 1) => m \in from..(to - 1)
    BY <1>2, <1>6
  <2>5. QED
    BY <1>15, <2>1, <2>2, <2>3, <2>4
<1>20. Covered(new) \subseteq Nat /\ Covered(q) \subseteq Nat
  BY <1>0, <1>14, InCovered DEF Ascending
<1>21. Covered(new) = Covered(q) \cup start..(stop - 1)
  BY <1>19, <1>20
<1>22. new # << >>
  <2>1. start \in Covered(new)
    BY <1>21
  <2>2. QED
    BY <2>1, AscendingNone
<1>23. QED
  BY <1>14, <1>21, <1>22 DEF new

\* A range before all others, which it does not touch.
LEMMA AddFirst ==
  ASSUME NEW q, Ascending(q), NEW start \in Nat, NEW stop \in Nat, start < stop,
         Len(q) > 0 => stop < q[1].start
  PROVE  Add(q, start, stop) = <<Run(start, stop)>> \o q
<1>. DEFINE i == FirstFrom(q, start)
            k == LastReached(q, stop, 1)
            Out == {j \in 0..Len(q) : j = Len(q) \/ Reach(q, stop, 1, j) < q[j + 1].start}
<1>0. q \in Seq(Ranges) /\ Len(q) \in Nat
  BY LenProperties DEF Ascending
<1>1. i = 1
  <2>1. i \in 1..(Len(q) + 1) /\ \A j \in 1..Len(q) : j < i <=> q[j].stop < start
    BY FirstFromIs
  <2>. HIDE DEF i
  <2>2. SUFFICES ASSUME i > 1 PROVE FALSE
    BY <1>0, <2>1
  <2>3. 1 \in 1..Len(q) /\ q[1].stop < start
    BY <1>0, <2>1, <2>2
  <2>4. q[1].start \in Nat /\ q[1].stop \in Nat /\ q[1].start < q[1].stop /\ Len(q) > 0
    BY <1>0, <2>3, AscendingParts
  <2>5. QED
    BY <2>3, <2>4
<1>2. k = 0
  <2>1. 0 \in Out
    <3>1. Reach(q, stop, 1, 0) = stop
      BY DEF Reach
    <3>2. QED
      BY <1>0, <3>1
  <2>2. Out \in SUBSET Nat /\ Out # {}
    BY <2>1
  <2>3. k = Min(Out)
    BY DEF LastReached
  <2>. HIDE DEF Out, k
  <2>4. k \in Out /\ k <= 0
    BY <2>1, <2>2, <2>3, MinIsLeast
  <2>5. k \in Nat
    BY <2>2, <2>4
  <2>6. QED
    BY <2>4, <2>5
<1>3. Add(q, start, stop)
        = SubSeq(q, 1, 0) \o <<Run(start, stop)>> \o SubSeq(q, 1, Len(q))
  <2>1. Add(q, start, stop) = Merged(q, start, stop, 1, 0)
    BY <1>1, <1>2 DEF Add
  <2>2. Reach(q, stop, 1, 0) = stop
    BY DEF Reach
  <2>3. QED
    BY <2>1, <2>2 DEF Merged
<1>4. SubSeq(q, 1, 0) = << >> /\ SubSeq(q, 1, Len(q)) = q
  BY <1>0, SubSeqEmpty, SubSeqFull
<1>5. <<Run(start, stop)>> \in Seq(Ranges)
  BY RunType
<1>6. << >> \o <<Run(start, stop)>> = <<Run(start, stop)>>
  BY <1>5, ConcatEmptySeq
<1>7. QED
  BY <1>3, <1>4, <1>6

\* Two lists before a third one are before it together.
LEMMA ApartConcat ==
  ASSUME NEW p \in Seq(Ranges), NEW q \in Seq(Ranges), NEW r, Apart(p, r), Apart(q, r)
  PROVE  Apart(p \o q, r)
<1>0. Len(p) \in Nat /\ Len(q) \in Nat
  BY LenProperties
<1>1. /\ Len(p \o q) = Len(p) + Len(q)
      /\ \A i \in 1..(Len(p) + Len(q)) : (p \o q)[i] = IF i <= Len(p) THEN p[i] ELSE q[i - Len(p)]
  BY ConcatProperties
<1>2. ASSUME NEW i \in 1..(Len(p) + Len(q)), NEW j \in 1..Len(r)
      PROVE  (p \o q)[i].stop < r[j].start
  <2>1. CASE i <= Len(p)
    BY <1>0, <1>1, <2>1 DEF Apart
  <2>2. CASE ~(i <= Len(p))
    <3>1. i - Len(p) \in 1..Len(q)
      BY <1>0, <2>2
    <3>2. QED
      BY <1>1, <2>2, <3>1 DEF Apart
  <2>3. QED
    BY <2>1, <2>2
<1>3. QED
  BY <1>1, <1>2 DEF Apart

\* A list of one run.
LEMMA RunAlone ==
  ASSUME NEW a \in Nat, NEW b \in Nat, a < b
  PROVE  /\ Ascending(<<Run(a, b)>>) /\ Len(<<Run(a, b)>>) = 1
         /\ <<Run(a, b)>>[1].start = a /\ <<Run(a, b)>>[1].stop = b
         /\ Covered(<<Run(a, b)>>) = a..(b - 1)
<1>1. Run(a, b) \in Ranges /\ Run(a, b).start = a /\ Run(a, b).stop = b
  BY RunType
<1>2. QED
  BY <1>1, AscendingOne

\* subtract() takes the numbers away, and keeps the list in order.
LEMMA SubtractTakes ==
  ASSUME NEW q, Ascending(q), NEW start \in Nat, NEW stop \in Nat, start < stop
  PROVE  /\ Ascending(Subtract(q, start, stop))
         /\ Covered(Subtract(q, start, stop)) = Covered(q) \ (start..(stop - 1))
<1>. DEFINE n == Len(q)
            i == FirstFrom(q, start + 1)
            k == FirstAfter(q, stop) - 1
            front == SubSeq(q, 1, i - 1)
            right == SubSeq(q, k + 1, n)
            noA == k < i \/ start <= q[i].start
            noB == k < i \/ q[k].stop <= stop
            A == Unless(noA, Run(q[i].start, start))
            B == Unless(noB, Run(stop, q[k].stop))
            new == Subtract(q, start, stop)
<1>0. q \in Seq(Ranges) /\ n \in Nat /\ start + 1 \in Nat
  BY LenProperties DEF Ascending
<1>1. i \in 1..(n + 1) /\ \A j \in 1..n : j < i <=> q[j].stop < start + 1
  BY <1>0, FirstFromIs
<1>2. k \in 0..n /\ k + 1 \in 1..(n + 1) /\ \A j \in 1..n : j < k + 1 <=> q[j].start < stop
  <2>1. FirstAfter(q, stop) \in 1..(n + 1) /\ FirstAfter(q, stop) = k + 1
    BY <1>0, FirstAfterIs
  <2>2. FirstAfter(q, stop) - 1 \in 0..n
    BY <1>0, <2>1
  <2>3. QED
    BY <2>1, <2>2, FirstAfterIs
<1>3. new = front \o A \o B \o right
  BY DEF Subtract
<1>. HIDE DEF i, k, A, B, new
<1>4. \A j \in 1..n : q[j].start \in Nat /\ q[j].stop \in Nat /\ q[j].start < q[j].stop
  BY AscendingParts
<1>5. \A a, b \in 1..n : a < b => q[a].stop < q[b].start
  BY DEF Ascending
<1>6. i <= k + 1 /\ k \in 0..n
  <2>1. ASSUME i > k + 1 PROVE FALSE
    <3>1. k + 1 \in 1..n /\ k + 1 < i /\ ~(k + 1 < k + 1)
      BY <1>0, <1>1, <1>2, <2>1
    <3>2. q[k + 1].stop < start + 1 /\ ~(q[k + 1].start < stop)
      BY <1>1, <1>2, <3>1
    <3>3. QED
      BY <1>4, <3>1, <3>2
  <2>2. QED
    BY <1>0, <1>1, <1>2, <2>1
<1>7. noA \in BOOLEAN /\ (~noA => i \in 1..n /\ k >= i /\ q[i].start \in Nat /\ q[i].start < start
                                   /\ start < q[i].stop)
  <2>1. CASE ~noA
    <3>1. i \in 1..n /\ k >= i /\ ~(i < i)
      BY <1>0, <1>1, <1>6, <2>1
    <3>2. QED
      BY <1>1, <1>4, <2>1, <3>1
  <2>2. QED
    BY <2>1
<1>8. noB \in BOOLEAN /\ (~noB => k \in 1..n /\ k >= i /\ q[k].stop \in Nat /\ stop < q[k].stop
                                   /\ q[k].start < stop)
  <2>1. CASE ~noB
    <3>1. k \in 1..n /\ k >= i /\ k < k + 1
      BY <1>0, <1>1, <1>6, <2>1
    <3>2. QED
      BY <1>2, <1>4, <2>1, <3>1
  <2>2. QED
    BY <2>1
<1>. HIDE DEF noA, noB
<1>9. /\ Ascending(A)
      /\ \A j \in 1..Len(A) : ~noA /\ A[j].start = q[i].start /\ A[j].stop = start
      /\ Covered(A) = IF noA THEN {} ELSE q[i].start..(start - 1)
  <2>1. CASE noA
    <3>1. A = << >>
      BY <2>1 DEF A, noA, Unless
    <3>2. QED
      BY <2>1, <3>1, AscendingNone
  <2>2. CASE ~noA
    <3>1. A = <<Run(q[i].start, start)>>
      BY <2>2 DEF A, noA, Unless
    <3>2. QED
      BY <1>7, <2>2, <3>1, RunAlone
  <2>3. QED
    BY <2>1, <2>2
<1>10. /\ Ascending(B)
       /\ \A j \in 1..Len(B) : ~noB /\ B[j].start = stop /\ B[j].stop = q[k].stop
       /\ Covered(B) = IF noB THEN {} ELSE stop..(q[k].stop - 1)
  <2>1. CASE noB
    <3>1. B = << >>
      BY <2>1 DEF B, noB, Unless
    <3>2. QED
      BY <2>1, <3>1, AscendingNone
  <2>2. CASE ~noB
    <3>1. B = <<Run(stop, q[k].stop)>>
      BY <2>2 DEF B, noB, Unless
    <3>2. QED
      BY <1>8, <2>2, <3>1, RunAlone
  <2>3. QED
    BY <2>1, <2>2
<1>11. /\ Ascending(front) /\ Len(front) = i - 1
       /\ \A j \in 1..(i - 1) : front[j] = q[j]
  <2>1. i - 1 \in 0..n
    BY <1>0, <1>1
  <2>2. QED
    BY <1>0, <1>1, <2>1, AscendingPart
<1>12. /\ Ascending(right) /\ Len(right) = n - k
       /\ \A j \in 1..(n - k) : right[j] = q[k + j]
  <2>1. k + 1 \in 1..(n + 1) /\ n \in 0..n /\ k + 1 <= n + 1
    BY <1>0, <1>1, <1>2
  <2>2. /\ Ascending(right) /\ Len(right) = n - (k + 1) + 1
        /\ \A j \in 1..(n - (k + 1) + 1) : right[j] = q[(k + 1) + j - 1]
    BY <2>1, AscendingPart
  <2>3. n - (k + 1) + 1 = n - k /\ \A j \in 1..(n - k) : (k + 1) + j - 1 = k + j
    BY <1>0, <1>6
  <2>4. QED
    BY <2>2, <2>3
<1>. HIDE DEF front, right
<1>13. \A j \in 1..(i - 1) : j \in 1..n /\ front[j].stop = q[j].stop /\ q[j].stop <= start
  BY <1>0, <1>1, <1>4, <1>11
<1>14. \A j \in 1..(n - k) : k + j \in 1..n /\ right[j].start = q[k + j].start /\ stop <= q[k + j].start
  <2>1. ASSUME NEW j \in 1..(n - k)
        PROVE  k + j \in 1..n /\ right[j].start = q[k + j].start /\ stop <= q[k + j].start
    <3>1. k + j \in 1..n /\ ~(k + j < k + 1)
      BY <1>0, <1>6
    <3>2. q[k + j].start \in Nat /\ ~(q[k + j].start < stop)
      BY <1>2, <1>4, <3>1
    <3>3. QED
      BY <1>12, <3>1, <3>2
  <2>2. QED
    BY <2>1
<1>15. Apart(front, A)
  <2>1. ASSUME NEW j \in 1..(i - 1), ~noA PROVE q[j].stop < q[i].start
    BY <1>1, <1>5, <1>7, <1>13, <2>1
  <2>2. QED
    BY <1>9, <1>11, <1>13, <2>1 DEF Apart
<1>16. Apart(front, B)
  <2>1. ASSUME NEW j \in 1..(i - 1) PROVE q[j].stop < stop
    BY <1>4, <1>13
  <2>2. QED
    BY <1>10, <1>11, <1>13, <2>1 DEF Apart
<1>17. Apart(front, right)
  <2>1. ASSUME NEW j \in 1..(i - 1), NEW m \in 1..(n - k) PROVE q[j].stop < q[k + m].start
    <3>1. j \in 1..n /\ k + m \in 1..n /\ j < k + m
      BY <1>1, <1>6, <1>13, <1>14
    <3>2. QED
      BY <1>5, <3>1
  <2>2. QED
    BY <1>11, <1>12, <1>13, <1>14, <2>1 DEF Apart
<1>18. Apart(A, B)
  BY <1>9, <1>10 DEF Apart
<1>19. Apart(A, right)
  <2>1. ASSUME NEW m \in 1..(n - k) PROVE start < right[m].start
    BY <1>4, <1>14
  <2>2. QED
    BY <1>9, <1>12, <2>1 DEF Apart
<1>20. Apart(B, right)
  <2>1. ASSUME NEW m \in 1..(n - k), ~noB PROVE q[k].stop < right[m].start
    <3>1. k \in 1..n /\ k + m \in 1..n /\ k < k + m
      BY <1>6, <1>8, <1>14, <2>1
    <3>2. QED
      BY <1>5, <1>14, <3>1
  <2>2. QED
    BY <1>10, <1>12, <2>1 DEF Apart
<1>21. front \in Seq(Ranges) /\ A \in Seq(Ranges) /\ B \in Seq(Ranges) /\ right \in Seq(Ranges)
  BY <1>9, <1>10, <1>11, <1>12 DEF Ascending
<1>22. Ascending(front \o A) /\ front \o A \in Seq(Ranges) /\ Covered(front \o A) = Covered(front) \cup Covered(A)
  BY <1>9, <1>11, <1>15, <1>21, AscendingConcat, CoveredConcat
<1>23. /\ Ascending(front \o A \o B) /\ front \o A \o B \in Seq(Ranges)
       /\ Covered(front \o A \o B) = Covered(front) \cup Covered(A) \cup Covered(B)
  <2>1. Apart(front \o A, B)
    BY <1>16, <1>18, <1>21, ApartConcat
  <2>2. QED
    BY <1>10, <1>21, <1>22, <2>1, AscendingConcat, CoveredConcat
<1>24. /\ Ascending(new)
       /\ Covered(new) = Covered(front) \cup Covered(A) \cup Covered(B) \cup Covered(right)
  <2>1. Apart(front \o A, right)
    BY <1>17, <1>19, <1>21, ApartConcat
  <2>2. Apart(front \o A \o B, right)
    BY <1>20, <1>21, <1>22, <2>1, ApartConcat
  <2>3. QED
    BY <1>3, <1>12, <1>21, <1>23, <2>2, AscendingConcat, CoveredConcat
<1>25. \A m \in Nat : m \in Covered(front) <=> \E j \in 1..(i - 1) : q[j].start <= m /\ m < q[j].stop
  BY <1>11, <1>21, InCovered
<1>26. \A m \in Nat : m \in Covered(right) <=> \E j \in 1..(n - k) : q[k + j].start <= m /\ m < q[k + j].stop
  BY <1>12, <1>21, InCovered
<1>27. \A m \in Nat : m \in Covered(q) <=> \E j \in 1..n : q[j].start <= m /\ m < q[j].stop
  BY <1>0, InCovered
<1>28. ASSUME NEW m \in Nat, m \in Covered(new) PROVE m \in Covered(q) \ (start..(stop - 1))
  <2>1. CASE m \in Covered(front)
    <3>1. PICK j \in 1..(i - 1) : q[j].start <= m /\ m < q[j].stop
      BY <1>25, <2>1
    <3>2. j \in 1..n /\ q[j].stop <= start /\ q[j].stop \in Nat
      BY <1>4, <1>13
    <3>3. QED
      BY <1>27, <3>1, <3>2
  <2>2. CASE m \in Covered(A)
    <3>1. ~noA /\ m \in q[i].start..(start - 1)
      BY <1>9, <2>2
    <3>2. QED
      BY <1>4, <1>7, <1>27, <3>1
  <2>3. CASE m \in Covered(B)
    <3>1. ~noB /\ m \in stop..(q[k].stop - 1)
      BY <1>10, <2>3
    <3>2. QED
      BY <1>4, <1>8, <1>27, <3>1
  <2>4. CASE m \in Covered(right)
    <3>1. PICK j \in 1..(n - k) : q[k + j].start <= m /\ m < q[k + j].stop
      BY <1>26, <2>4
    <3>2. k + j \in 1..n /\ stop <= q[k + j].start /\ q[k + j].start \in Nat
      BY <1>4, <1>14
    <3>3. QED
      BY <1>27, <3>1, <3>2
  <2>5. QED
    BY <1>24, <1>28, <2>1, <2>2, <2>3, <2>4
<1>29. ASSUME NEW m \in Nat, m \in Covered(q), m \notin start..(stop - 1) PROVE m \in Covered(new)
  <2>1. PICK j \in 1..n : q[j].start <= m /\ m < q[j].stop
    BY <1>27, <1>29
  <2>2. q[j].start \in Nat /\ q[j].stop \in Nat
    BY <1>4
  <2>3. CASE j < i
    <3>1. j \in 1..(i - 1)
      BY <1>0, <1>1, <2>3
    <3>2. QED
      BY <1>24, <1>25, <2>1, <3>1
  <2>4. CASE j > k
    <3>1. j - k \in 1..(n - k) /\ k + (j - k) = j
      BY <1>0, <1>6, <2>4
    <3>2. QED
      BY <1>24, <1>26, <2>1, <3>1
  <2>5. CASE i <= j /\ j <= k
    <3>1. i \in 1..n /\ k \in 1..n /\ ~(i < i) /\ k < k + 1
      BY <1>0, <1>1, <1>6, <2>5
    <3>2. start < q[i].stop /\ q[k].start < stop
      BY <1>1, <1>2, <1>4, <3>1
    <3>3. CASE m < start
      <4>1. j = i
        <5>1. i < j => q[i].stop < q[j].start
          BY <1>5, <3>1
        <5>2. QED
          BY <1>4, <2>1, <2>2, <2>5, <3>1, <3>2, <3>3, <5>1
      <4>2. ~noA
        BY <1>4, <2>1, <2>5, <3>1, <3>3, <4>1 DEF noA
      <4>3. QED
        BY <1>4, <1>9, <1>24, <2>1, <3>1, <3>3, <4>1, <4>2
    <3>4. CASE ~(m < start)
      <4>0. stop <= m
        BY <1>29, <3>4
      <4>1. j = k
        <5>1. j < k => q[j].stop < q[k].start
          BY <1>5, <3>1
        <5>2. QED
          BY <1>4, <2>1, <2>2, <2>5, <3>1, <3>2, <4>0, <5>1
      <4>2. ~noB
        BY <1>4, <2>1, <2>5, <3>1, <4>0, <4>1 DEF noB
      <4>3. QED
        BY <1>4, <1>10, <1>24, <2>1, <3>1, <4>0, <4>1, <4>2
    <3>5. QED
      BY <3>3, <3>4
  <2>6. QED
    BY <1>0, <1>1, <1>6, <2>3, <2>4, <2>5
<1>30. Covered(new) \subseteq Nat /\ Covered(q) \subseteq Nat
  BY <1>0, <1>24, InCovered DEF Ascending
<1>31. Covered(new) = Covered(q) \ (start..(stop - 1))
  BY <1>28, <1>29, <1>30
<1>32. QED
  BY <1>24, <1>31 DEF new

----
(***************************************************************************)
(* ACK frames: push_ack_frame and pull_ack_frame.                          *)
(***************************************************************************)

\* The gaps and lengths push_ack_frame writes.
LEMMA PushAckIs ==
  ASSUME NEW q, Ascending(q), Len(q) > 0
  PROVE  /\ Len(q) \in Nat
         /\ PushAck(q).largest = q[Len(q)].stop - 1
         /\ PushAck(q).first = q[Len(q)].stop - 1 - q[Len(q)].start
         /\ Len(PushAck(q).rest) = Len(q) - 1
         /\ \A k \in 1..(Len(q) - 1) :
              /\ PushAck(q).rest[k].gap = q[Len(q) + 1 - k].start - q[Len(q) - k].stop - 1
              /\ PushAck(q).rest[k].length = q[Len(q) - k].stop - q[Len(q) - k].start - 1
<1>. DEFINE n == Len(q)
            down == Reverse(q)
            rest == [k \in 1..(Len(down) - 1) |->
                       [gap |-> Gap(down[k], down[k + 1]),
                        length |-> down[k + 1].stop - down[k + 1].start - 1]]
<1>1. n \in Nat /\ n > 0
  BY LenProperties DEF Ascending
<1>2. Len(down) = n /\ \A i \in 1..n : down[i] = q[(n - i) + 1]
  <2>1. down = [i \in 1..n |-> q[(n - i) + 1]]
    BY DEF Reverse
  <2>. HIDE DEF down, n
  <2>2. Len(down) = n
    BY <1>1, <2>1
  <2>3. QED
    BY <2>1, <2>2
<1>3. /\ PushAck(q).largest = down[1].stop - 1
      /\ PushAck(q).first = down[1].stop - 1 - down[1].start
      /\ PushAck(q).rest = rest
  BY DEF PushAck
<1>4. down[1] = q[n]
  <2>1. 1 \in 1..n /\ (n - 1) + 1 = n
    BY <1>1
  <2>2. QED
    BY <1>2, <2>1
<1>5. Len(rest) = n - 1
  <2>. HIDE DEF down, n
  <2>1. n - 1 \in Nat /\ rest = [k \in 1..(n - 1) |->
                       [gap |-> Gap(down[k], down[k + 1]),
                        length |-> down[k + 1].stop - down[k + 1].start - 1]]
    BY <1>1, <1>2
  <2>. HIDE DEF rest
  <2>2. QED
    BY <2>1
<1>6. ASSUME NEW k \in 1..(n - 1)
      PROVE  /\ rest[k].gap = q[n + 1 - k].start - q[n - k].stop - 1
             /\ rest[k].length = q[n - k].stop - q[n - k].start - 1
  <2>1. k \in 1..n /\ k + 1 \in 1..n /\ (n - k) + 1 = n + 1 - k /\ (n - (k + 1)) + 1 = n - k
    BY <1>1
  <2>2. down[k] = q[n + 1 - k] /\ down[k + 1] = q[n - k]
    BY <1>2, <2>1
  <2>3. rest[k] = [gap |-> Gap(down[k], down[k + 1]),
                   length |-> down[k + 1].stop - down[k + 1].start - 1]
    BY <1>2
  <2>. HIDE DEF rest, down, n
  <2>4. QED
    BY <2>2, <2>3 DEF Gap
<1>7. QED
  BY <1>1, <1>3, <1>4, <1>5, <1>6

\* The first range of an empty list.
LEMMA AddToNone ==
  ASSUME NEW a \in Nat, NEW b \in Nat, a < b
  PROVE  Add(<< >>, a, b) = <<Run(a, b)>>
<1>. DEFINE q == << >>
<1>1. Ascending(q) /\ Len(q) = 0
  BY AscendingNone
<1>. HIDE DEF q
<1>2. Add(q, a, b) = <<Run(a, b)>> \o q
  BY <1>1, AddFirst
<1>3. <<Run(a, b)>> \in Seq(Ranges)
  BY RunType
<1>4. QED
  BY <1>2, <1>3, ConcatEmptySeq DEF q

\* What a frame says is what is read from it.
LEMMA PullsWhatWasPushed ==
  ASSUME NEW q, Ascending(q), Len(q) > 0
  PROVE  PullAck(PushAck(q)) = q
<1>. DEFINE n == Len(q)
            f == PushAck(q)
            N == Len(f.rest)
            One(k, before) == PullRange(before, f.rest[k].gap + 2, f.rest[k].length)
            Grown(r) == [k \in 0..N |->
                          IF k = 0 THEN PullRange([ranges |-> << >>, end |-> f.largest], 0, f.first)
                          ELSE PullRange(r[k - 1], f.rest[k].gap + 2, f.rest[k].length)]
            From(k) == [ranges |-> SubSeq(q, n - k, n), end |-> q[n - k].start]
            g == [k \in 0..N |-> From(k)]
            read == CHOOSE r : r = Grown(r)
<1>1. /\ n \in Nat /\ n > 0 /\ N = n - 1 /\ q \in Seq(Ranges)
      /\ f.largest = q[n].stop - 1 /\ f.first = q[n].stop - 1 - q[n].start
      /\ \A k \in 1..N : /\ f.rest[k].gap = q[n + 1 - k].start - q[n - k].stop - 1
                         /\ f.rest[k].length = q[n - k].stop - q[n - k].start - 1
  BY PushAckIs DEF Ascending
<1>2. PullAck(f) = read[N].ranges
  BY Zenon DEF PullAck
<1>. HIDE DEF f, N, n, read
<1>3. PullRange([ranges |-> << >>, end |-> f.largest], 0, f.first) = From(0)
  <2>1. n \in 1..Len(q) /\ n - 0 = n
    BY <1>1 DEF n
  <2>2. /\ q[n] \in Ranges /\ q[n].start \in Nat /\ q[n].stop \in Nat /\ q[n].start < q[n].stop
        /\ q[n] = Run(q[n].start, q[n].stop)
    BY <2>1, AscendingParts, RangeParts
  <2>. DEFINE a == q[n].start
              b == q[n].stop
  <2>8. a \in Nat /\ b \in Nat /\ f.largest = b - 1 /\ f.first = b - 1 - a
    BY <1>1, <2>2
  <2>3. f.largest - 0 = b - 1 /\ f.largest - 0 - f.first = a /\ f.largest - 0 + 1 = b
    <3>. HIDE DEF a, b
    <3>1. QED
      BY <2>8
  <2>4. PullRange([ranges |-> << >>, end |-> f.largest], 0, f.first)
          = [ranges |-> Add(<< >>, f.largest - 0 - f.first, f.largest - 0 + 1),
             end |-> f.largest - 0 - f.first]
    BY DEF PullRange
  <2>5. Add(<< >>, q[n].start, q[n].stop) = <<q[n]>>
    BY <2>2, AddToNone
  <2>6. SubSeq(q, n, n) = <<q[n]>>
    <3>1. SubSeq(q, n, n) = <<q[n]>> \o SubSeq(q, n + 1, n)
      BY <1>1, <2>1, SubSeqRecursiveFirst, n \in n..Len(q)
    <3>2. SubSeq(q, n + 1, n) = << >>
      BY <1>1, SubSeqEmpty
    <3>3. <<q[n]>> \in Seq(Ranges)
      BY <2>2
    <3>4. QED
      BY <3>1, <3>2, <3>3, ConcatEmptySeq
  <2>7. QED
    BY <2>1, <2>3, <2>4, <2>5, <2>6
<1>4. ASSUME NEW k \in 1..N PROVE One(k, From(k - 1)) = From(k)
  <2>1. /\ n - k \in 1..Len(q) /\ n - (k - 1) = (n - k) + 1 /\ (n - k) + 1 \in 1..Len(q)
        /\ n + 1 - k = (n - k) + 1 /\ k \in Nat /\ n = Len(q)
    BY <1>1 DEF n
  <2>. DEFINE a == q[n - k]
              b == q[(n - k) + 1]
              above == SubSeq(q, (n - k) + 1, n)
  <2>2. /\ a.start \in Nat /\ a.stop \in Nat /\ a.start < a.stop /\ b.start \in Nat /\ a.stop < b.start
        /\ a = Run(a.start, a.stop)
    <3>1. a \in Ranges /\ a.start \in Nat /\ a.stop \in Nat /\ a.start < a.stop /\ b.start \in Nat
      BY <2>1, AscendingParts
    <3>2. n - k < (n - k) + 1
      BY <2>1
    <3>3. a.stop < b.start
      BY <2>1, <3>2 DEF Ascending
    <3>4. QED
      BY <3>1, <3>3, RangeParts
  <2>3. f.rest[k].gap = b.start - a.stop - 1 /\ f.rest[k].length = a.stop - a.start - 1
    BY <1>1, <2>1
  <2>4. From(k - 1) = [ranges |-> above, end |-> b.start] /\ From(k) = [ranges |-> SubSeq(q, n - k, n), end |-> a.start]
    BY <2>1
  <2>5. Ascending(above) /\ Len(above) = k /\ above[1] = b
    <3>1. (n - k) + 1 \in 1..(Len(q) + 1) /\ n \in 0..Len(q) /\ (n - k) + 1 <= n + 1 /\ n - ((n - k) + 1) + 1 = k
      BY <1>1, <2>1
    <3>2. Ascending(above) /\ Len(above) = k /\ \A j \in 1..k : above[j] = q[((n - k) + 1) + j - 1]
      BY <3>1, AscendingPart
    <3>3. 1 \in 1..k /\ ((n - k) + 1) + 1 - 1 = (n - k) + 1
      BY <1>1, <2>1
    <3>4. QED
      BY <3>2, <3>3
  <2>6. SubSeq(q, n - k, n) = <<a>> \o above
    <3>1. n \in (n - k)..Len(q)
      BY <1>1, <2>1
    <3>2. QED
      BY <1>1, <2>1, <3>1, SubSeqRecursiveFirst
  <2>. HIDE DEF a, b, above
  <2>7. b.start - (f.rest[k].gap + 2) - f.rest[k].length = a.start
        /\ b.start - (f.rest[k].gap + 2) + 1 = a.stop
    BY <2>2, <2>3
  <2>8. One(k, From(k - 1))
          = [ranges |-> Add(above, b.start - (f.rest[k].gap + 2) - f.rest[k].length,
                            b.start - (f.rest[k].gap + 2) + 1),
             end |-> b.start - (f.rest[k].gap + 2) - f.rest[k].length]
    BY <2>4 DEF PullRange
  <2>9. Add(above, a.start, a.stop) = <<a>> \o above
    BY <2>2, <2>5, AddFirst
  <2>10. QED
    BY <2>4, <2>6, <2>7, <2>8, <2>9
<1>. HIDE DEF From, One
<1>5. g = Grown(g)
  <2>1. ASSUME NEW k \in 0..N
        PROVE  From(k) = IF k = 0 THEN PullRange([ranges |-> << >>, end |-> f.largest], 0, f.first)
                         ELSE One(k, g[k - 1])
    <3>1. CASE k = 0
      BY <1>3, <3>1
    <3>2. CASE k # 0
      <4>1. k \in 1..N /\ k - 1 \in 0..N
        BY <1>1, <3>2
      <4>2. g[k - 1] = From(k - 1)
        BY <4>1
      <4>3. QED
        BY <1>4, <3>2, <4>1, <4>2
    <3>3. QED
      BY <3>1, <3>2
  <2>2. QED
    BY <2>1 DEF One
<1>6. read = Grown(read)
  <2>. HIDE DEF g, Grown
  <2>1. QED
    BY <1>5 DEF read
<1>7. ASSUME NEW k \in 0..N PROVE read[k] = From(k)
  <2>. DEFINE Bad == {j \in 0..N : read[j] # From(j)}
  <2>1. SUFFICES ASSUME Bad # {} PROVE FALSE
    OBVIOUS
  <2>2. PICK j \in Bad : \A y \in Bad : j <= y
    <3>1. Bad \in SUBSET Nat
      OBVIOUS
    <3>. HIDE DEF Bad
    <3>2. QED
      BY <2>1, <3>1, HasLeast
  <2>3. read[j] = IF j = 0 THEN PullRange([ranges |-> << >>, end |-> f.largest], 0, f.first)
                  ELSE One(j, read[j - 1])
    BY <1>6 DEF One
  <2>4. j # 0
    BY <1>3, <2>2, <2>3
  <2>5. j \in 1..N /\ j - 1 \in 0..N /\ j - 1 \notin Bad
    BY <1>1, <2>2, <2>4
  <2>6. read[j - 1] = From(j - 1)
    BY <2>5
  <2>7. QED
    BY <1>4, <2>2, <2>3, <2>4, <2>5, <2>6
<1>8. read[N] = From(N)
  BY <1>1, <1>7
<1>9. From(N).ranges = q
  <2>1. n - N = 1
    BY <1>1
  <2>2. SubSeq(q, 1, n) = q
    BY <1>1, SubSeqFull DEF n
  <2>3. QED
    BY <2>1, <2>2 DEF From
<1>10. QED
  BY <1>2, <1>8, <1>9 DEF f

----
(***************************************************************************)
(* Packet numbers: decode_packet_number.                                   *)
(***************************************************************************)

\* A number is what division and remainder make of it.
LEMMA DivMod ==
  ASSUME NEW n \in Nat, NEW W \in Nat \ {0}
  PROVE  /\ n \div W \in Nat /\ n % W \in Nat /\ n % W < W
         /\ n = (n \div W) * W + (n % W)
  BY Z3

\* A multiple of the window that is not 0 or 1 of them is far away.
LEMMA Multiples ==
  ASSUME NEW d \in Int, NEW W \in Nat \ {0}
  PROVE  /\ d * W \in Int
         /\ d >= 2 => d * W >= 2 * W
         /\ d <= -1 => d * W <= -W
  BY Z3

\* decode_packet_number gives back a number that is at most half a window above the
\* expected one: the nearest number with the bits that were sent.
LEMMA NearNumbersAreRead ==
  ASSUME NEW W \in Nat \ {0}, W % 2 = 0, NEW n \in Nat, NEW e \in Nat, NEW bound \in Nat,
         e <= n, n - e <= W \div 2, n < bound
  PROVE  DecodePacketNumber(n % W, W, e, bound) = n
<1>. DEFINE h == W \div 2
            a == n \div W
            t == n % W
            b == e \div W
            u == e % W
            c == b * W + t
<1>1. h \in Nat /\ h > 0 /\ W = 2 * h
  BY Z3
<1>2. a \in Nat /\ t \in Nat /\ t < W /\ n = a * W + t
  BY DivMod
<1>3. b \in Nat /\ u \in Nat /\ u < W /\ e = b * W + u
  BY DivMod
<1>4. DecodePacketNumber(n % W, W, e, bound)
        = IF c <= e - h /\ c < bound - W THEN c + W
          ELSE IF c > e + h /\ c >= W THEN c - W ELSE c
  BY DEF DecodePacketNumber, Nearest
<1>. HIDE DEF h, a, t, b, u
<1>5. a * W - b * W = (a - b) * W /\ a - b \in Int
  BY <1>2, <1>3, Z3
<1>6. a - b = 0 \/ a - b = 1
  <2>. DEFINE d == a - b
              m == d * W
  <2>1. m = n - e - (t - u) /\ m > -W /\ m < 2 * W /\ d \in Int
    <3>1. a * W \in Int /\ b * W \in Int
      BY <1>2, <1>3, Z3
    <3>2. QED
      BY <1>1, <1>2, <1>3, <1>5, <3>1 DEF h
  <2>2. ~(d >= 2) /\ ~(d <= -1)
    BY <2>1, Multiples
  <2>. HIDE DEF d, m
  <2>3. d = 0 \/ d = 1
    BY <2>1, <2>2
  <2>4. QED
    BY <2>3 DEF d
<1>7. n = c \/ n = c + W
  BY <1>2, <1>3, <1>6, Z3
<1>8. c \in Int
  BY <1>2, <1>3, Z3
<1>. HIDE DEF c
<1>9. QED
  BY <1>1, <1>4, <1>7, <1>8 DEF h

----
(***************************************************************************)
(* The ACK queue.  AckInv: what the list of a space covers is what arrived *)
(* in it and the peer does not know of, and no packet under way is half a  *)
(* window ahead.                                                           *)
(***************************************************************************)

\* What one ACK frame must be: made from a list in order, and no number in it is above
\* the largest received.
AckLists == {q \in Seq(Ranges) : Ascending(q) /\ q # << >>}
SentAcks == [space : Spaces, wire : {PushAck(q) : q \in AckLists}, told : SUBSET Nat,
             highest : Nat, heard : BOOLEAN, confirmed : BOOLEAN]
Arriving == [number : Nat, eliciting : BOOLEAN, confirms : Nat]
Counts == {-1} \cup Nat

AckTypes ==
  /\ ackQueue \in [Spaces -> Seq(Ranges)] /\ ackDue \in [Spaces -> BOOLEAN]
  /\ expectedNumber \in [Spaces -> Nat] /\ largestReceived \in [Spaces -> Counts]
  /\ arrived \in [Spaces -> SUBSET Nat] /\ flying \in [Spaces -> SUBSET Arriving]
  /\ peerNumber \in [Spaces -> Counts] /\ peerKnows \in [Spaces -> Counts]
  /\ ackFrames \in Seq(SentAcks)

\* The queue of a space.
QueueInv(s) ==
  /\ Ascending(ackQueue[s]) /\ Covered(ackQueue[s]) = arrived[s]
  /\ ackDue[s] => ackQueue[s] # << >>
  /\ \A m \in arrived[s] : m <= largestReceived[s]

\* The expected number is the one after the largest, or lags behind it by one; what the
\* peer knows was received, was.
NumbersInv(s) ==
  /\ expectedNumber[s] \in {largestReceived[s], largestReceived[s] + 1}
  /\ peerKnows[s] <= largestReceived[s]
  /\ \A packet \in flying[s] :
       /\ packet.number < NumberBound /\ packet.number - peerKnows[s] <= Window \div 2
       /\ packet.confirms \in 0..Len(ackFrames)

FramesInv ==
  \A i \in 1..Len(ackFrames) :
    /\ Covered(PullAck(ackFrames[i].wire)) = ackFrames[i].told
    /\ \A m \in ackFrames[i].told : m <= largestReceived[ackFrames[i].space]

AckInv ==
  /\ AckTypes
  /\ \A s \in Spaces : QueueInv(s) /\ NumbersInv(s)
  /\ FramesInv

\* Half the window is a number above 0.
LEMMA HalfWindow == Window \in Nat /\ Window > 0 /\ Window \div 2 \in Nat /\ Window \div 2 > 0
                      /\ NumberBound \in Nat
<1>1. Window \in Nat \ {0} /\ Window % 2 = 0 /\ NumberBound \in Nat
  BY AckAssumption
<1>2. QED
  BY <1>1, Z3

\* No packet has been sent or received yet.
LEMMA AckInitInv == AckInit => AckInv
<1>1. SUFFICES ASSUME AckInit PROVE AckInv
  OBVIOUS
<1>2. Ascending(<< >>) /\ Covered(<< >>) = {} /\ << >> \in Seq(Ranges)
  BY AscendingNone DEF Ascending
<1>3. AckTypes
  BY <1>1, <1>2 DEF AckInit, AckTypes, EachSpace, Counts
<1>4. ASSUME NEW s \in Spaces PROVE QueueInv(s) /\ NumbersInv(s)
  <2>1. /\ ackQueue[s] = << >> /\ ackDue[s] = FALSE /\ expectedNumber[s] = 0
        /\ largestReceived[s] = -1 /\ arrived[s] = {} /\ flying[s] = {} /\ peerKnows[s] = -1
    BY <1>1 DEF AckInit, EachSpace
  <2>2. QED
    BY <1>2, <2>1 DEF QueueInv, NumbersInv
<1>5. FramesInv
  BY <1>1 DEF AckInit, FramesInv
<1>6. QED
  BY <1>3, <1>4, <1>5 DEF AckInv

\* A newer packet than all that arrived is read as it was written.
LEMMA AckInvReads == AckInv => NewNumbersAreRead
<1>1. SUFFICES ASSUME AckInv, NEW s \in Spaces, NEW packet \in flying[s],
                      packet.number > largestReceived[s]
               PROVE  ReadNumber(s, packet.number) = packet.number
  BY DEF NewNumbersAreRead
<1>. DEFINE n == packet.number
            e == expectedNumber[s]
            l == largestReceived[s]
            p == peerKnows[s]
            h == Window \div 2
<1>2. /\ n \in Nat /\ e \in Nat /\ l \in Counts /\ p \in Counts /\ n > l
      /\ e \in {l, l + 1} /\ p <= l /\ n < NumberBound /\ n - p <= h
  BY <1>1 DEF AckInv, AckTypes, NumbersInv, Arriving
<1>3. h \in Nat /\ NumberBound \in Nat /\ Window \in Nat \ {0} /\ Window % 2 = 0
  BY HalfWindow, AckAssumption
<1>. HIDE DEF n, e, l, p, h
<1>4. e <= n /\ n - e <= h
  BY <1>2, <1>3 DEF Counts
<1>. USE DEF h
<1>5. DecodePacketNumber(n % Window, Window, e, NumberBound) = n
  BY <1>2, <1>3, <1>4, NearNumbersAreRead
<1>6. QED
  BY <1>5 DEF ReadNumber, n, e

\* The list of each space and every ACK frame made from one cover just what arrived.
LEMMA AckInvExact == AckInv => AcksAreExact
<1>1. SUFFICES ASSUME AckInv PROVE AcksAreExact
  OBVIOUS
<1>2. DOMAIN ackFrames = 1..Len(ackFrames)
  BY <1>1, LenProperties DEF AckInv, AckTypes
<1>3. ASSUME NEW s \in Spaces
      PROVE  /\ Covered(ackQueue[s]) = arrived[s]
             /\ \A i, j \in DOMAIN ackQueue[s] : i < j => ackQueue[s][i].stop < ackQueue[s][j].start
             /\ ackDue[s] => ackQueue[s] # << >>
  <2>1. Ascending(ackQueue[s]) /\ Covered(ackQueue[s]) = arrived[s] /\ (ackDue[s] => ackQueue[s] # << >>)
    BY <1>1 DEF AckInv, QueueInv
  <2>2. DOMAIN ackQueue[s] = 1..Len(ackQueue[s])
    BY <2>1, LenProperties DEF Ascending
  <2>3. QED
    BY <2>1, <2>2 DEF Ascending
<1>4. \A i \in DOMAIN ackFrames : Covered(PullAck(ackFrames[i].wire)) = ackFrames[i].told
  BY <1>1, <1>2 DEF AckInv, FramesInv
<1>5. QED
  BY <1>3, <1>4 DEF AcksAreExact

\* The largest number a frame tells of is one of those it tells of.
LEMMA LastOfAck ==
  ASSUME NEW q \in AckLists
  PROVE  /\ PullAck(PushAck(q)) = q /\ Len(q) \in Nat /\ Len(q) > 0
         /\ Last(q).stop - 1 \in Covered(q) /\ Last(q).stop - 1 \in Nat
<1>1. q \in Seq(Ranges) /\ Ascending(q) /\ q # << >>
  BY DEF AckLists
<1>2. Len(q) \in Nat /\ Len(q) > 0 /\ Len(q) \in 1..Len(q)
  BY <1>1, LenProperties, EmptySeq
<1>3. PullAck(PushAck(q)) = q
  BY <1>1, <1>2, PullsWhatWasPushed
<1>. DEFINE r == q[Len(q)]
<1>4. r.start \in Nat /\ r.stop \in Nat /\ r.start < r.stop
  BY <1>1, <1>2, AscendingParts
<1>5. Last(q) = r
  BY DEF Last
<1>. HIDE DEF r
<1>6. r.start <= r.stop - 1 /\ r.stop - 1 < r.stop /\ r.stop - 1 \in Nat
  BY <1>4
<1>7. r.stop - 1 \in Covered(q)
  BY <1>1, <1>2, <1>6, InCovered DEF r
<1>8. QED
  BY <1>2, <1>3, <1>5, <1>6, <1>7

\* The peer sends a packet, with a number at most half a window above those it knows
\* to have arrived.
LEMMA PeerSendsKeeps ==
  ASSUME AckInv, NEW s \in Spaces, NEW eliciting \in BOOLEAN, NEW confirms \in Nat,
         PeerSends(s, eliciting, confirms)
  PROVE  AckInv'
<1>. DEFINE n == peerNumber[s] + 1
            new == [number |-> n, eliciting |-> eliciting, confirms |-> confirms]
<1>1. /\ n < NumberBound /\ n - peerKnows[s] <= Window \div 2
      /\ peerNumber' = [peerNumber EXCEPT ![s] = n]
      /\ flying' = [flying EXCEPT ![s] = @ \cup {new}]
      /\ ackQueue' = ackQueue /\ ackDue' = ackDue /\ expectedNumber' = expectedNumber
      /\ largestReceived' = largestReceived /\ arrived' = arrived /\ peerKnows' = peerKnows
      /\ ackFrames' = ackFrames
  BY DEF PeerSends, queueVars
<1>2. n \in Nat /\ new \in Arriving /\ new.number = n /\ new.confirms \in 0..Len(ackFrames)
  <2>4. confirms \in 0..Len(ackFrames)
    <3>1. DOMAIN ackFrames = 1..Len(ackFrames) /\ Len(ackFrames) \in Nat
      BY LenProperties DEF AckInv, AckTypes
    <3>2. QED
      BY <3>1 DEF PeerSends, NoFrame
  <2>1. peerNumber[s] \in Counts
    BY DEF AckInv, AckTypes
  <2>2. n \in Nat
    BY <2>1 DEF Counts
  <2>3. QED
    BY <2>2, <2>4 DEF Arriving
<1>. HIDE DEF n, new
<1>3. AckTypes'
  BY <1>1, <1>2 DEF AckInv, AckTypes, Counts
<1>4. ASSUME NEW t \in Spaces PROVE QueueInv(t)' /\ NumbersInv(t)'
  <2>1. QueueInv(t) /\ NumbersInv(t)
    BY DEF AckInv
  <2>2. flying'[t] = IF t = s THEN flying[t] \cup {new} ELSE flying[t]
    BY <1>1 DEF AckInv, AckTypes
  <2>3. QueueInv(t)'
    BY <1>1, <2>1 DEF QueueInv
  <2>4. \A packet \in flying'[t] :
          /\ packet.number < NumberBound /\ packet.number - peerKnows[t] <= Window \div 2
          /\ packet.confirms \in 0..Len(ackFrames)
    BY <1>1, <1>2, <2>1, <2>2 DEF NumbersInv
  <2>5. QED
    BY <1>1, <2>1, <2>3, <2>4 DEF NumbersInv
<1>5. FramesInv'
  BY <1>1 DEF AckInv, FramesInv
<1>6. QED
  BY <1>3, <1>4, <1>5 DEF AckInv

\* The peer reads an ACK frame: what it knows to have arrived did arrive.
LEMMA AckHeardKeeps ==
  ASSUME AckInv, NEW i \in DOMAIN ackFrames, AckHeard(i)
  PROVE  AckInv'
<1>. DEFINE f == ackFrames[i]
            s == f.space
            known == Last(PullAck(f.wire)).stop - 1
            p == peerKnows[s]
<1>1. /\ peerKnows' = [peerKnows EXCEPT ![s] = Larger(p, known)]
      /\ ackFrames' = [ackFrames EXCEPT ![i].heard = TRUE]
      /\ ackQueue' = ackQueue /\ ackDue' = ackDue /\ expectedNumber' = expectedNumber
      /\ largestReceived' = largestReceived /\ arrived' = arrived
      /\ flying' = flying /\ peerNumber' = peerNumber
  BY DEF AckHeard, queueVars
<1>2. i \in 1..Len(ackFrames) /\ f \in SentAcks /\ ackFrames \in Seq(SentAcks)
      /\ DOMAIN ackFrames = 1..Len(ackFrames) /\ Len(ackFrames) \in Nat
  BY LenProperties, ElementOfSeq DEF AckInv, AckTypes
<1>3. s \in Spaces /\ \E q \in AckLists : f.wire = PushAck(q)
  BY <1>2 DEF SentAcks
<1>4. known \in Nat /\ known \in f.told
  <2>1. Covered(PullAck(f.wire)) = f.told
    BY <1>2 DEF AckInv, FramesInv
  <2>2. QED
    BY <1>3, <2>1, LastOfAck
<1>5. known <= largestReceived[s]
  BY <1>2, <1>4 DEF AckInv, FramesInv
<1>6. /\ ackFrames' \in Seq(SentAcks) /\ Len(ackFrames') = Len(ackFrames)
      /\ \A j \in 1..Len(ackFrames) :
            ackFrames'[j].wire = ackFrames[j].wire /\ ackFrames'[j].told = ackFrames[j].told
              /\ ackFrames'[j].space = ackFrames[j].space
  <2>1. ackFrames' = [ackFrames EXCEPT ![i] = [f EXCEPT !.heard = TRUE]]
    BY <1>1
  <2>2. [f EXCEPT !.heard = TRUE] \in SentAcks
    BY <1>2 DEF SentAcks
  <2>3. [f EXCEPT !.heard = TRUE].wire = f.wire /\ [f EXCEPT !.heard = TRUE].told = f.told
        /\ [f EXCEPT !.heard = TRUE].space = f.space
    BY <1>2 DEF SentAcks
  <2>. DEFINE heard == [f EXCEPT !.heard = TRUE]
  <2>. HIDE DEF heard, f
  <2>4. ackFrames' \in Seq(SentAcks) /\ Len(ackFrames') = Len(ackFrames)
        /\ \A j \in 1..Len(ackFrames) : ackFrames'[j] = IF j = i THEN heard ELSE ackFrames[j]
    BY <1>2, <2>1, <2>2, ExceptSeq DEF heard
  <2>5. QED
    BY <2>3, <2>4 DEF heard, f
<1>7. p \in Counts /\ Larger(p, known) \in Counts
      /\ Larger(p, known) >= p /\ Larger(p, known) <= largestReceived[s]
  <2>1. p \in Counts /\ p <= largestReceived[s] /\ largestReceived[s] \in Counts
    BY <1>3 DEF AckInv, AckTypes, NumbersInv
  <2>. HIDE DEF p, known, s, f
  <2>2. QED
    BY <1>4, <1>5, <2>1 DEF Larger, Counts
<1>. HIDE DEF p, known, s, f
<1>8. AckTypes'
  BY <1>1, <1>3, <1>6, <1>7 DEF AckInv, AckTypes
<1>9. ASSUME NEW t \in Spaces PROVE QueueInv(t)' /\ NumbersInv(t)'
  <2>1. QueueInv(t) /\ NumbersInv(t) /\ peerKnows \in [Spaces -> Counts]
        /\ flying[t] \in SUBSET Arriving
    BY DEF AckInv, AckTypes
  <2>2. QueueInv(t)'
    BY <1>1, <2>1 DEF QueueInv
  <2>3. peerKnows[t] \in Counts /\ peerKnows'[t] \in Counts
        /\ peerKnows'[t] >= peerKnows[t] /\ peerKnows'[t] <= largestReceived[t]
    <3>1. CASE t = s
      BY <1>1, <1>7, <2>1, <3>1 DEF p
    <3>2. CASE t # s
      BY <1>1, <2>1, <3>2 DEF NumbersInv, Counts
    <3>3. QED
      BY <3>1, <3>2
  <2>4. ASSUME NEW packet \in flying[t]
        PROVE  /\ packet.number < NumberBound /\ packet.number - peerKnows'[t] <= Window \div 2
               /\ packet.confirms \in 0..Len(ackFrames')
    <3>1. packet.number \in Nat /\ packet.number < NumberBound
          /\ packet.confirms \in 0..Len(ackFrames)
          /\ packet.number - peerKnows[t] <= Window \div 2
      BY <2>1 DEF NumbersInv, Arriving
    <3>2. Window \div 2 \in Nat
      BY HalfWindow
    <3>3. QED
      BY <1>6, <2>3, <3>1, <3>2 DEF Counts
  <2>5. QED
    BY <1>1, <2>1, <2>2, <2>3, <2>4 DEF NumbersInv
<1>10. FramesInv'
  BY <1>1, <1>6 DEF AckInv, FramesInv
<1>11. QED
  BY <1>8, <1>9, <1>10 DEF AckInv

\* A packet whose number is read wrongly fails to decrypt and changes nothing.
LEMMA MisreadKeeps ==
  ASSUME AckInv, NEW s \in Spaces, NEW packet, Misread(s, packet)
  PROVE  AckInv'
<1>1. /\ flying' = [flying EXCEPT ![s] = @ \ {packet}]
      /\ ackQueue' = ackQueue /\ ackDue' = ackDue /\ expectedNumber' = expectedNumber
      /\ largestReceived' = largestReceived /\ arrived' = arrived
      /\ peerNumber' = peerNumber /\ peerKnows' = peerKnows /\ ackFrames' = ackFrames
  BY DEF Misread, queueVars
<1>2. \A t \in Spaces : flying'[t] \subseteq flying[t]
  BY <1>1 DEF AckInv, AckTypes
<1>3. AckTypes'
  BY <1>1 DEF AckInv, AckTypes
<1>4. \A t \in Spaces : QueueInv(t)' /\ NumbersInv(t)'
  BY <1>1, <1>2 DEF AckInv, QueueInv, NumbersInv
<1>5. FramesInv'
  BY <1>1 DEF AckInv, FramesInv
<1>6. QED
  BY <1>3, <1>4, <1>5 DEF AckInv

\* The number of a packet goes into the queue, and what the peer is now known to have
\* heard of leaves it.
LEMMA QueueTakes ==
  ASSUME NEW q, Ascending(q), NEW below \in Nat, NEW n \in Nat
  PROVE  /\ Ascending(Add(Without(q, below), n, n + 1))
         /\ Covered(Add(Without(q, below), n, n + 1)) = {m \in Covered(q) : m >= below} \cup {n}
         /\ Add(Without(q, below), n, n + 1) # << >>
<1>. DEFINE w == Without(q, below)
<1>1. Covered(q) \subseteq Nat
  BY InCovered DEF Ascending
<1>2. Ascending(w) /\ Covered(w) = {m \in Covered(q) : m >= below}
  <2>1. CASE below > 0
    <3>1. w = Subtract(q, 0, below)
      BY <2>1 DEF Without
    <3>2. Ascending(w) /\ Covered(w) = Covered(q) \ (0..(below - 1))
      BY <2>1, <3>1, SubtractTakes
    <3>3. \A m \in Nat : m \in 0..(below - 1) <=> ~(m >= below)
      OBVIOUS
    <3>. HIDE DEF w
    <3>4. QED
      BY <1>1, <3>2, <3>3
  <2>2. CASE ~(below > 0)
    <3>1. w = q /\ below = 0
      BY <2>2 DEF Without
    <3>. HIDE DEF w
    <3>2. QED
      BY <1>1, <3>1
  <2>3. QED
    BY <2>1, <2>2
<1>. HIDE DEF w
<1>3. /\ Ascending(Add(w, n, n + 1)) /\ Add(w, n, n + 1) # << >>
      /\ Covered(Add(w, n, n + 1)) = Covered(w) \cup n..((n + 1) - 1)
  BY <1>2, AddAdds
<1>4. n..((n + 1) - 1) = {n}
  OBVIOUS
<1>5. QED
  BY <1>2, <1>3, <1>4 DEF w

\* A packet arrives: its number enters the list, numbers the peer knows of leave it.
LEMMA ReceiveKeeps ==
  ASSUME AckInv, NEW s \in Spaces, NEW packet \in flying[s], Receive(s, packet)
  PROVE  AckInv'
<1>. DEFINE n == packet.number
            i == packet.confirms
            below == Freed(s, i)
            q == Add(Without(ackQueue[s], below), n, n + 1)
            e == expectedNumber[s]
            l == largestReceived[s]
<1>1. /\ expectedNumber' = [expectedNumber EXCEPT ![s] = IF n > e THEN n + 1 ELSE e]
      /\ largestReceived' = [largestReceived EXCEPT ![s] = Larger(l, n)]
      /\ ackQueue' = [ackQueue EXCEPT ![s] = q]
      /\ arrived' = [arrived EXCEPT ![s] = {m \in arrived[s] : m >= below} \cup {n}]
      /\ ackDue' = [ackDue EXCEPT ![s] = ackDue[s] \/ packet.eliciting]
      /\ ackFrames' = IF below = 0 THEN ackFrames ELSE [ackFrames EXCEPT ![i].confirmed = TRUE]
      /\ flying' = flying /\ peerNumber' = peerNumber /\ peerKnows' = peerKnows
  BY DEF Receive, peerVars
<1>2. /\ n \in Nat /\ i \in Nat /\ packet.eliciting \in BOOLEAN
      /\ e \in Nat /\ l \in Counts /\ e \in {l, l + 1}
      /\ i \in 0..Len(ackFrames)
  <2>1. packet \in Arriving /\ e \in Nat /\ l \in Counts /\ NumbersInv(s)
    BY DEF AckInv, AckTypes
  <2>2. n \in Nat /\ i \in Nat /\ packet.eliciting \in BOOLEAN
    BY <2>1 DEF Arriving
  <2>3. e \in {l, l + 1} /\ i \in 0..Len(ackFrames)
    BY <2>1 DEF NumbersInv
  <2>4. QED
    BY <2>1, <2>2, <2>3
<1>3. /\ DOMAIN ackFrames = 1..Len(ackFrames) /\ Len(ackFrames) \in Nat
      /\ \A j \in 1..Len(ackFrames) : ackFrames[j] \in SentAcks /\ ackFrames[j].highest \in Nat
      /\ ackFrames \in Seq(SentAcks)
  <2>1. ackFrames \in Seq(SentAcks)
    BY DEF AckInv, AckTypes
  <2>2. \A j \in 1..Len(ackFrames) : ackFrames[j] \in SentAcks
    BY <2>1, ElementOfSeq
  <2>3. QED
    BY <2>1, <2>2, LenProperties DEF SentAcks
<1>4. below \in Nat /\ (below # 0 => i \in 1..Len(ackFrames))
  <2>1. CASE i = 0
    BY <2>1 DEF Freed, NoFrame
  <2>2. CASE i # 0
    <3>1. i \in 1..Len(ackFrames)
      BY <1>2, <1>3, <2>2
    <3>2. below = IF ackFrames[i].confirmed THEN 0 ELSE ackFrames[i].highest + 1
      BY <2>2 DEF Freed, NoFrame
    <3>. HIDE DEF i, below
    <3>3. QED
      BY <1>3, <3>1, <3>2
  <2>3. QED
    BY <2>1, <2>2
<1>. HIDE DEF n, i, below, q, e, l
<1>5. /\ Ascending(q) /\ q # << >> /\ q \in Seq(Ranges)
      /\ Covered(q) = {m \in arrived[s] : m >= below} \cup {n}
  <2>1. Ascending(ackQueue[s]) /\ Covered(ackQueue[s]) = arrived[s]
    BY DEF AckInv, QueueInv
  <2>. DEFINE old == ackQueue[s]
  <2>2. q = Add(Without(old, below), n, n + 1)
    BY DEF q
  <2>. HIDE DEF old
  <2>3. Ascending(old) /\ Covered(old) = arrived[s]
    BY <2>1 DEF old
  <2>4. /\ Ascending(Add(Without(old, below), n, n + 1))
        /\ Covered(Add(Without(old, below), n, n + 1)) = {m \in Covered(old) : m >= below} \cup {n}
        /\ Add(Without(old, below), n, n + 1) # << >>
    BY <1>2, <1>4, <2>3, QueueTakes, Zenon
  <2>5. QED
    BY <2>2, <2>3, <2>4 DEF Ascending
<1>6. Larger(l, n) \in Nat /\ l <= Larger(l, n) /\ n <= Larger(l, n)
  BY <1>2 DEF Larger, Counts
<1>7. LET f == IF n > e THEN n + 1 ELSE e
      IN f \in Nat /\ f \in {Larger(l, n), Larger(l, n) + 1}
  BY <1>2 DEF Larger, Counts
<1>8. /\ ackFrames' \in Seq(SentAcks) /\ Len(ackFrames') = Len(ackFrames)
      /\ \A j \in 1..Len(ackFrames) :
            ackFrames'[j].wire = ackFrames[j].wire /\ ackFrames'[j].told = ackFrames[j].told
              /\ ackFrames'[j].space = ackFrames[j].space
  <2>1. CASE below = 0
    BY <1>1, <1>3, <2>1
  <2>2. CASE below # 0
    <3>. DEFINE f == ackFrames[i]
                done == [f EXCEPT !.confirmed = TRUE]
    <3>1. i \in 1..Len(ackFrames) /\ f \in SentAcks
      BY <1>3, <1>4, <2>2
    <3>2. ackFrames' = [ackFrames EXCEPT ![i] = done]
      BY <1>1, <2>2
    <3>3. done \in SentAcks /\ done.wire = f.wire /\ done.told = f.told /\ done.space = f.space
      BY <3>1 DEF SentAcks
    <3>. HIDE DEF done, f
    <3>4. ackFrames' \in Seq(SentAcks) /\ Len(ackFrames') = Len(ackFrames)
          /\ \A j \in 1..Len(ackFrames) : ackFrames'[j] = IF j = i THEN done ELSE ackFrames[j]
      BY <1>3, <3>1, <3>2, <3>3, ExceptSeq
    <3>5. QED
      BY <3>3, <3>4 DEF f
  <2>3. QED
    BY <2>1, <2>2
<1>9. AckTypes'
  <2>1. ({m \in arrived[s] : m >= below} \cup {n}) \in SUBSET Nat
    BY <1>2 DEF AckInv, AckTypes
  <2>2. expectedNumber' \in [Spaces -> Nat] /\ largestReceived' \in [Spaces -> Counts]
    BY <1>1, <1>6, <1>7 DEF AckInv, AckTypes, Counts
  <2>3. ackDue' \in [Spaces -> BOOLEAN]
    <3>1. (ackDue[s] \/ packet.eliciting) \in BOOLEAN
      OBVIOUS
    <3>2. QED
      BY <1>1, <3>1 DEF AckInv, AckTypes
  <2>4. ackQueue' \in [Spaces -> Seq(Ranges)] /\ arrived' \in [Spaces -> SUBSET Nat]
    BY <1>1, <1>5, <2>1 DEF AckInv, AckTypes
  <2>5. QED
    BY <1>1, <1>8, <2>2, <2>3, <2>4 DEF AckInv, AckTypes
<1>10. ASSUME NEW t \in Spaces
       PROVE  /\ largestReceived'[t] = IF t = s THEN Larger(l, n) ELSE largestReceived[t]
              /\ expectedNumber'[t] = IF t = s THEN (IF n > e THEN n + 1 ELSE e) ELSE expectedNumber[t]
              /\ ackQueue'[t] = IF t = s THEN q ELSE ackQueue[t]
              /\ arrived'[t] = IF t = s THEN {m \in arrived[s] : m >= below} \cup {n} ELSE arrived[t]
              /\ largestReceived[t] \in Counts /\ largestReceived'[t] \in Counts
              /\ largestReceived[t] <= largestReceived'[t]
  <2>1. /\ largestReceived'[t] = IF t = s THEN Larger(l, n) ELSE largestReceived[t]
        /\ expectedNumber'[t] = IF t = s THEN (IF n > e THEN n + 1 ELSE e) ELSE expectedNumber[t]
        /\ ackQueue'[t] = IF t = s THEN q ELSE ackQueue[t]
        /\ arrived'[t] = IF t = s THEN {m \in arrived[s] : m >= below} \cup {n} ELSE arrived[t]
    BY <1>1 DEF AckInv, AckTypes
  <2>2. largestReceived[t] \in Counts
    BY DEF AckInv, AckTypes
  <2>3. QED
    BY <1>6, <2>1, <2>2 DEF l, Counts
<1>20. \A t \in Spaces : /\ largestReceived[t] \in Counts /\ largestReceived'[t] \in Counts
                         /\ largestReceived[t] <= largestReceived'[t]
  BY <1>10
<1>11. ASSUME NEW t \in Spaces PROVE QueueInv(t)'
  <2>1. QueueInv(t)
    BY DEF AckInv
  <2>2. CASE t = s
    <3>1. Ascending(ackQueue'[t]) /\ Covered(ackQueue'[t]) = arrived'[t] /\ ackQueue'[t] # << >>
      BY <1>5, <1>10, <2>2
    <3>2. ASSUME NEW m \in arrived'[t] PROVE m <= largestReceived'[t]
      <4>1. CASE m = n
        BY <1>6, <1>10, <2>2, <4>1
      <4>2. CASE m # n
        <5>1. m \in arrived[t] /\ m \in Nat /\ m <= largestReceived[t]
          BY <1>10, <2>1, <2>2, <4>2 DEF QueueInv, AckInv, AckTypes
        <5>2. QED
          BY <1>20, <5>1 DEF Counts
      <4>3. QED
        BY <4>1, <4>2
    <3>3. QED
      BY <3>1, <3>2 DEF QueueInv
  <2>3. CASE t # s
    <3>1. /\ ackQueue'[t] = ackQueue[t] /\ arrived'[t] = arrived[t] /\ ackDue'[t] = ackDue[t]
          /\ largestReceived'[t] = largestReceived[t]
      BY <1>1, <1>10, <2>3 DEF AckInv, AckTypes
    <3>2. QED
      BY <2>1, <3>1 DEF QueueInv
  <2>4. QED
    BY <2>2, <2>3
<1>12. ASSUME NEW t \in Spaces PROVE NumbersInv(t)'
  <2>1. NumbersInv(t) /\ peerKnows[t] \in Counts
    BY DEF AckInv, AckTypes
  <2>2. expectedNumber'[t] \in {largestReceived'[t], largestReceived'[t] + 1}
    BY <1>7, <1>10, <2>1 DEF NumbersInv
  <2>3. peerKnows'[t] <= largestReceived'[t]
    <3>1. peerKnows'[t] = peerKnows[t] /\ peerKnows[t] <= largestReceived[t]
      BY <1>1, <2>1 DEF NumbersInv
    <3>2. QED
      BY <1>20, <2>1, <3>1 DEF Counts
  <2>4. QED
    BY <1>1, <1>8, <2>1, <2>2, <2>3 DEF NumbersInv
<1>13. FramesInv'
  <2>1. ASSUME NEW j \in 1..Len(ackFrames')
        PROVE  /\ Covered(PullAck(ackFrames'[j].wire)) = ackFrames'[j].told
               /\ \A m \in ackFrames'[j].told : m <= largestReceived'[ackFrames'[j].space]
    <3>1. j \in 1..Len(ackFrames) /\ ackFrames[j].space \in Spaces /\ ackFrames[j].told \subseteq Nat
      BY <1>3, <1>8 DEF SentAcks
    <3>2. \A m \in ackFrames[j].told : m \in Nat /\ m <= largestReceived[ackFrames[j].space]
      BY <3>1 DEF AckInv, FramesInv
    <3>3. \A m \in ackFrames[j].told : m <= largestReceived'[ackFrames[j].space]
      BY <1>20, <3>1, <3>2 DEF Counts
    <3>4. QED
      BY <1>8, <3>1, <3>3 DEF AckInv, FramesInv
  <2>2. QED
    BY <2>1 DEF FramesInv
<1>14. QED
  BY <1>9, <1>11, <1>12, <1>13 DEF AckInv

\* An ACK frame is written from the list of its space.
LEMMA WriteAckKeeps ==
  ASSUME AckInv, NEW s \in Spaces, ackDue[s], WriteAck(s)
  PROVE  AckInv'
<1>. DEFINE f == AckFrame(s)
            q == ackQueue[s]
            F == Len(ackFrames)
<1>1. /\ ackFrames' = Append(ackFrames, f) /\ ackDue' = [ackDue EXCEPT ![s] = FALSE]
      /\ ackQueue' = ackQueue /\ expectedNumber' = expectedNumber
      /\ largestReceived' = largestReceived /\ arrived' = arrived
      /\ flying' = flying /\ peerNumber' = peerNumber /\ peerKnows' = peerKnows
  BY DEF WriteAck, peerVars
<1>2. /\ Ascending(q) /\ Covered(q) = arrived[s] /\ q # << >> /\ q \in AckLists
      /\ \A m \in arrived[s] : m <= largestReceived[s]
      /\ arrived[s] \in SUBSET Nat /\ largestReceived[s] \in Counts
  BY DEF AckInv, AckTypes, QueueInv, AckLists, Ascending
<1>3. PullAck(PushAck(q)) = q /\ \E m \in Nat : m \in Covered(q)
  BY <1>2, LastOfAck
<1>4. largestReceived[s] \in Nat
  BY <1>2, <1>3 DEF Counts
<1>5. /\ f.space = s /\ f.wire = PushAck(q) /\ f.told = arrived[s]
      /\ f \in SentAcks
  BY <1>2, <1>4 DEF AckFrame, SentAcks
<1>. HIDE DEF f, q
<1>6. /\ ackFrames \in Seq(SentAcks) /\ F \in Nat
      /\ ackFrames' \in Seq(SentAcks) /\ Len(ackFrames') = F + 1 /\ ackFrames'[F + 1] = f
      /\ \A j \in 1..F : ackFrames'[j] = ackFrames[j]
  <2>1. ackFrames \in Seq(SentAcks) /\ F \in Nat
    BY LenProperties DEF AckInv, AckTypes
  <2>2. QED
    BY <1>1, <1>5, <2>1, AppendProperties
<1>7. AckTypes'
  BY <1>1, <1>6 DEF AckInv, AckTypes
<1>8. ASSUME NEW t \in Spaces PROVE QueueInv(t)' /\ NumbersInv(t)'
  <2>1. QueueInv(t) /\ NumbersInv(t)
    BY DEF AckInv
  <2>2. ackDue'[t] => ackDue[t]
    BY <1>1 DEF AckInv, AckTypes
  <2>3. 0..F \subseteq 0..Len(ackFrames')
    BY <1>6
  <2>. HIDE DEF F
  <2>4. NumbersInv(t)'
    BY <1>1, <2>1, <2>3 DEF NumbersInv, F
  <2>5. QED
    BY <1>1, <2>1, <2>2, <2>4 DEF QueueInv
<1>9. FramesInv'
  <2>1. ASSUME NEW j \in 1..Len(ackFrames')
        PROVE  /\ Covered(PullAck(ackFrames'[j].wire)) = ackFrames'[j].told
               /\ \A m \in ackFrames'[j].told : m <= largestReceived'[ackFrames'[j].space]
    <3>1. CASE j \in 1..F
      BY <1>1, <1>6, <3>1 DEF AckInv, FramesInv
    <3>2. CASE j = F + 1
      BY <1>1, <1>2, <1>3, <1>5, <1>6, <3>2 DEF q
    <3>3. QED
      BY <1>6, <3>1, <3>2
  <2>2. QED
    BY <2>1 DEF FramesInv
<1>10. QED
  BY <1>7, <1>8, <1>9 DEF AckInv

----
(***************************************************************************)
(* Every step of the connection keeps AckInv.                              *)
(***************************************************************************)

\* AckInv is about the variables of the ACK queue only.
LEMMA AckUnchanged == AckInv /\ UNCHANGED ackVars => AckInv'
  BY DEF AckInv, AckTypes, QueueInv, NumbersInv, FramesInv, ackVars, queueVars, peerVars

\* There is a packet space for every epoch but 0-RTT.
LEMMA ThreeSpaces == "initial" \in Spaces /\ "handshake" \in Spaces /\ "oneRtt" \in Spaces
  BY SpacesAssumption DEF Epochs

\* Every step is one of the ACK queue's, or leaves it alone.
LEMMA AckStep == AckInv /\ [Next]_vars => AckInv'
<1>. SUFFICES ASSUME AckInv, [Next]_vars PROVE AckInv'
  OBVIOUS
<1>1. CASE UNCHANGED vars
  BY <1>1, AckUnchanged DEF vars
<1>2. CASE Requests
  <2>1. CASE Peer
    <3>1. CASE \E s \in Spaces, eliciting \in BOOLEAN, confirms \in 0..Len(ackFrames) :
                 PeerSends(s, eliciting, confirms)
      <4>1. PICK s \in Spaces, eliciting \in BOOLEAN, confirms \in 0..Len(ackFrames) :
               PeerSends(s, eliciting, confirms)
        BY <3>1
      <4>2. QED
        BY <4>1, PeerSendsKeeps
    <3>2. CASE \E i \in DOMAIN ackFrames : AckHeard(i)
      BY <3>2, AckHeardKeeps
    <3>3. QED
      BY <2>1, <3>1, <3>2 DEF Peer
  <2>2. CASE \E s \in Spaces : \E packet \in flying[s] :
               DatagramReceived(s, packet) \/ DatagramMisread(s, packet)
    BY <2>2, ReceiveKeeps, MisreadKeeps DEF DatagramReceived, DatagramMisread
  <2>3. CASE UNCHANGED ackVars
    BY <2>3, AckUnchanged
  <2>4. QED
    BY <1>2, <2>1, <2>2, <2>3
       DEF Requests, Want, SendStream, AbortStream, SendDatagram, ConfigurePadding,
           ResetPadInitialACK, ClientHello, HandshakeMessage, Probe, Malformed, Close,
           AckInZeroRtt, Transmit, Quiet, Idle
<1>3. CASE Step
  <2>1. CASE HandshakePacket
    <3>1. PICK e \in {"initial", "handshake"} : IF ackDue[e] THEN WriteAck(e) ELSE NoAck
      BY <2>1 DEF HandshakePacket
    <3>2. CASE ackDue[e]
      BY <3>1, <3>2, ThreeSpaces, WriteAckKeeps
    <3>3. CASE ~ackDue[e]
      BY <3>1, <3>3, AckUnchanged DEF NoAck
    <3>4. QED
      BY <3>2, <3>3
  <2>2. CASE WriteApplicationAck
    <3>1. ackDue["oneRtt"] /\ (WriteAck("oneRtt") \/ NoAck)
      BY <2>2 DEF WriteApplicationAck, AckIsFirst
    <3>2. QED
      BY <3>1, ThreeSpaces, WriteAckKeeps, AckUnchanged DEF NoAck
  <2>3. CASE UNCHANGED ackVars
    BY <2>3, AckUnchanged
  <2>4. QED
    BY <1>3, <2>1, <2>2, <2>3
       DEF Step, DatagramsToSend, FlushBuilder, ClosePacket, CloseWritten, MalformedPacket,
           NoKeys, PacketsWritten, StartApplication, WriteZeroRttAck, WriteControl,
           ControlWritten, WriteDatagram, WriteStop, WriteReset, WriteStream, StreamsWritten,
           NoAck
<1>4. QED
  BY <1>1, <1>2, <1>3 DEF Next

\* AckInv is an invariant of the connection.
LEMMA AckAlways == Spec => []AckInv
<1>1. Init => AckInv
  BY AckInitInv DEF Init
<1>2. QED
  BY <1>1, AckStep, PTL DEF Spec

\* Every ACK frame tells the peer of just the packets that arrived in its space and that
\* the peer was not known to know of, however they were lost, doubled and reordered:
\* RangeSet.add and subtract and push_ack_frame lose and invent no number.
THEOREM AckFramesAreExact == Spec => []AcksAreExact
  BY AckAlways, AckInvExact, PTL

\* The number of a packet newer than all that arrived is read as the peer wrote it,
\* though only its last bits are in the packet (decode_packet_number).
THEOREM NewNumbersAreAlwaysRead == Spec => []NewNumbersAreRead
  BY AckAlways, AckInvReads, PTL

----
(***************************************************************************)
(* Sequences of sequences, joined.                                         *)
(***************************************************************************)

\* A first part of the function of the joined sequences.
Joined(ss, n, g) == g = [i \in 1..n |-> IF i = 1 THEN ss[i] ELSE g[i - 1] \o ss[i]]

\* The recursive function by which sequences are joined exists.
LEMMA JoinedExist ==
  ASSUME NEW ss
  PROVE  \A n \in Nat : \E g : Joined(ss, n, g)
<1>. DEFINE Bad == {n \in Nat : ~ \E g : Joined(ss, n, g)}
<1>1. SUFFICES ASSUME Bad # {} PROVE FALSE
  OBVIOUS
<1>2. PICK b \in Bad : \A y \in Bad : b <= y
  BY <1>1, HasLeast
<1>3. b # 0
  <2>1. Joined(ss, 0, [m \in 1..0 |-> 0])
    BY DEF Joined
  <2>2. QED
    BY <2>1
<1>4. b - 1 \in Nat /\ b - 1 \notin Bad
  BY <1>2, <1>3
<1>5. PICK g : Joined(ss, b - 1, g)
  BY <1>4
<1>. DEFINE last == IF b = 1 THEN ss[b] ELSE g[b - 1] \o ss[b]
            h == [i \in 1..b |-> IF i = b THEN last ELSE g[i]]
<1>6. \A i \in 1..(b - 1) : g[i] = IF i = 1 THEN ss[i] ELSE g[i - 1] \o ss[i]
  BY <1>5, <1>4 DEF Joined
<1>7. ASSUME NEW i \in 1..b PROVE h[i] = IF i = 1 THEN ss[i] ELSE h[i - 1] \o ss[i]
  <2>1. CASE i = b
    <3>1. CASE b = 1
      BY <2>1, <3>1
    <3>2. CASE b # 1
      <4>1. b - 1 \in 1..b /\ b - 1 # b
        BY <1>3, <3>2
      <4>2. h[b - 1] = g[b - 1]
        BY <4>1
      <4>3. QED
        BY <2>1, <3>2, <4>2
    <3>3. QED
      BY <3>1, <3>2
  <2>2. CASE i # b
    <3>1. i \in 1..(b - 1) /\ h[i] = g[i]
      BY <2>2
    <3>2. i # 1 => i - 1 \in 1..b /\ i - 1 # b
      BY <2>2
    <3>3. i # 1 => h[i - 1] = g[i - 1]
      BY <3>2
    <3>4. QED
      BY <1>6, <3>1, <3>3
  <2>3. QED
    BY <2>1, <2>2
<1>8. Joined(ss, b, h)
  <2>. HIDE DEF h
  <2>1. h = [i \in 1..b |-> h[i]]
    BY DEF h
  <2>2. QED
    BY <1>7, <2>1 DEF Joined
<1>9. QED
  BY <1>8

\* It depends on no more of the sequences than it has joined.
LEMMA JoinedAgree ==
  ASSUME NEW ss, NEW tt, NEW n \in Nat, NEW m \in Nat, n <= m,
         \A i \in 1..n : ss[i] = tt[i],
         NEW g, Joined(ss, n, g), NEW h, Joined(tt, m, h)
  PROVE  \A k \in 1..n : g[k] = h[k]
<1>. DEFINE Bad == {k \in 1..n : g[k] # h[k]}
<1>1. SUFFICES ASSUME Bad # {} PROVE FALSE
  OBVIOUS
<1>2. PICK b \in Bad : \A y \in Bad : b <= y
  <2>1. Bad \in SUBSET Nat
    OBVIOUS
  <2>2. QED
    BY <1>1, <2>1, HasLeast
<1>3. /\ g[b] = IF b = 1 THEN ss[b] ELSE g[b - 1] \o ss[b]
      /\ h[b] = IF b = 1 THEN tt[b] ELSE h[b - 1] \o tt[b]
  <2>1. b \in 1..n /\ b \in 1..m
    BY <1>2
  <2>2. QED
    BY <2>1 DEF Joined
<1>4. b # 1
  BY <1>2, <1>3
<1>5. b - 1 \in 1..n /\ b - 1 \notin Bad
  BY <1>2, <1>4
<1>6. QED
  BY <1>2, <1>3, <1>4, <1>5

\* FlattenSeq is the last value of such a function.
LEMMA FlattenIs ==
  ASSUME NEW S, NEW ss \in Seq(S)
  PROVE  /\ Len(ss) = 0 => FlattenSeq(ss) = << >>
         /\ Len(ss) # 0 => \E g : Joined(ss, Len(ss), g) /\ FlattenSeq(ss) = g[Len(ss)]
<1>0. Len(ss) \in Nat /\ (Len(ss) = 0 => ss = << >>)
  BY LenProperties, EmptySeq
<1>. DEFINE Grown(g) == [i \in 1..Len(ss) |-> IF i = 1 THEN ss[i] ELSE g[i - 1] \o ss[i]]
            f == CHOOSE g : g = Grown(g)
<1>1. CASE Len(ss) = 0
  BY <1>0, <1>1 DEF FlattenSeq
<1>2. CASE Len(ss) # 0
  <2>1. FlattenSeq(ss) = f[Len(ss)]
    BY <1>2, Zenon DEF FlattenSeq
  <2>2. PICK h : h = Grown(h)
    BY <1>0, JoinedExist DEF Joined
  <2>3. f = Grown(f)
    <3>. HIDE DEF Grown
    <3>1. QED
      BY <2>2
  <2>4. Joined(ss, Len(ss), f)
    <3>. HIDE DEF f
    <3>1. QED
      BY <2>3 DEF Joined
  <2>. HIDE DEF f
  <2>5. QED
    BY <1>2, <2>1, <2>4
<1>3. QED
  BY <1>1, <1>2

\* Sequences over S are joined to one over S.
LEMMA FlattenType ==
  ASSUME NEW S, NEW ss \in Seq(Seq(S))
  PROVE  FlattenSeq(ss) \in Seq(S)
<1>0. Len(ss) \in Nat /\ \A i \in 1..Len(ss) : ss[i] \in Seq(S)
  BY LenProperties, ElementOfSeq
<1>1. CASE Len(ss) = 0
  <2>1. FlattenSeq(ss) = << >>
    BY <1>1, FlattenIs
  <2>2. QED
    BY <2>1, EmptySeq
<1>2. CASE Len(ss) # 0
  <2>1. PICK g : Joined(ss, Len(ss), g) /\ FlattenSeq(ss) = g[Len(ss)]
    BY <1>2, FlattenIs
  <2>. DEFINE Bad == {k \in 1..Len(ss) : g[k] \notin Seq(S)}
  <2>2. ASSUME Bad # {} PROVE FALSE
    <3>1. PICK b \in Bad : \A y \in Bad : b <= y
      <4>1. Bad \in SUBSET Nat
        OBVIOUS
      <4>2. QED
        BY <2>2, <4>1, HasLeast
    <3>2. g[b] = IF b = 1 THEN ss[b] ELSE g[b - 1] \o ss[b]
      BY <2>1, <3>1 DEF Joined
    <3>3. b # 1
      BY <1>0, <3>1, <3>2
    <3>4. b - 1 \in 1..Len(ss) /\ b - 1 \notin Bad
      BY <3>1, <3>3
    <3>5. g[b - 1] \in Seq(S) /\ ss[b] \in Seq(S)
      BY <1>0, <3>1, <3>4
    <3>6. g[b - 1] \o ss[b] \in Seq(S)
      BY <3>5, ConcatProperties
    <3>7. QED
      BY <3>1, <3>2, <3>3, <3>6
  <2>3. Len(ss) \in 1..Len(ss)
    BY <1>0, <1>2
  <2>4. QED
    BY <2>1, <2>2, <2>3
<1>3. QED
  BY <1>1, <1>2

\* One sequence more.
LEMMA FlattenAppend ==
  ASSUME NEW S, NEW ss \in Seq(Seq(S)), NEW s \in Seq(S)
  PROVE  FlattenSeq(Append(ss, s)) = FlattenSeq(ss) \o s
<1>. DEFINE n == Len(ss)
            tt == Append(ss, s)
<1>0. /\ n \in Nat /\ tt \in Seq(Seq(S)) /\ Len(tt) = n + 1 /\ tt[n + 1] = s
      /\ \A i \in 1..n : ss[i] = tt[i]
  BY LenProperties, AppendProperties
<1>. HIDE DEF tt
<1>1. PICK h : Joined(tt, n + 1, h) /\ FlattenSeq(tt) = h[n + 1]
  BY <1>0, FlattenIs
<1>2. h[n + 1] = IF n + 1 = 1 THEN s ELSE h[n] \o s
  <2>1. n + 1 \in 1..(n + 1) /\ (n + 1) - 1 = n
    BY <1>0
  <2>2. h[n + 1] = IF n + 1 = 1 THEN tt[n + 1] ELSE h[(n + 1) - 1] \o tt[n + 1]
    BY <1>1, <2>1 DEF Joined
  <2>3. QED
    BY <1>0, <2>1, <2>2
<1>3. CASE n = 0
  <2>1. FlattenSeq(ss) = << >>
    BY <1>3, FlattenIs
  <2>2. h[n + 1] = s
    BY <1>2, <1>3
  <2>3. QED
    BY <1>1, <2>1, <2>2, ConcatEmptySeq DEF tt
<1>4. CASE n # 0
  <2>1. PICK g : Joined(ss, n, g) /\ FlattenSeq(ss) = g[n]
    BY <1>4, FlattenIs
  <2>2. n \in 1..n /\ n + 1 # 1 /\ n + 1 \in Nat /\ n <= n + 1
    BY <1>0, <1>4
  <2>3. \A k \in 1..n : g[k] = h[k]
    <3>. DEFINE m == n + 1
    <3>1. m \in Nat /\ n <= m /\ Joined(tt, m, h)
      BY <1>1, <2>2
    <3>. HIDE DEF m, n
    <3>2. n \in Nat /\ \A i \in 1..n : ss[i] = tt[i]
      BY <1>0
    <3>3. QED
      BY <2>1, <3>1, <3>2, JoinedAgree
  <2>4. QED
    BY <1>1, <1>2, <2>1, <2>2, <2>3 DEF tt
<1>5. QED
  BY <1>3, <1>4

\* Joining what comes first, then the rest.
LEMMA FlattenConcat ==
  ASSUME NEW S, NEW ss \in Seq(Seq(S))
  PROVE  \A tt \in Seq(Seq(S)) : FlattenSeq(ss \o tt) = FlattenSeq(ss) \o FlattenSeq(tt)
<1>. DEFINE Holds(tt) == FlattenSeq(ss \o tt) = FlattenSeq(ss) \o FlattenSeq(tt)
            Bad == {n \in Nat : \E tt \in Seq(Seq(S)) : Len(tt) = n /\ ~Holds(tt)}
<1>1. SUFFICES ASSUME Bad # {} PROVE FALSE
  <2>1. ASSUME NEW tt \in Seq(Seq(S)), ~Holds(tt) PROVE Len(tt) \in Bad
    BY <2>1, LenProperties
  <2>2. QED
    BY <2>1
<1>2. PICK b \in Bad : \A y \in Bad : b <= y
  <2>. HIDE DEF Bad
  <2>1. Bad \in SUBSET Nat
    BY DEF Bad
  <2>2. QED
    BY <1>1, <2>1, HasLeast
<1>3. PICK tt \in Seq(Seq(S)) : Len(tt) = b /\ ~Holds(tt)
  BY <1>2
<1>. HIDE DEF Holds
<1>4. CASE b = 0
  <2>1. tt = << >>
    BY <1>3, <1>4, EmptySeq
  <2>2. ss \o tt = ss
    BY <2>1, ConcatEmptySeq
  <2>3. FlattenSeq(tt) = << >>
    BY <1>3, <1>4, FlattenIs
  <2>4. FlattenSeq(ss) \o << >> = FlattenSeq(ss)
    BY FlattenType, ConcatEmptySeq
  <2>5. QED
    BY <1>3, <2>2, <2>3, <2>4 DEF Holds
<1>5. CASE b # 0
  <2>1. PICK rest \in Seq(Seq(S)), s \in Seq(S) : tt = Append(rest, s) /\ Len(tt) = Len(rest) + 1
    <3>1. tt # << >>
      BY <1>3, <1>5, EmptySeq
    <3>2. QED
      BY <3>1, SequenceEmptyOrAppend, AppendProperties
  <2>2. Len(rest) \in Nat /\ Len(rest) < b
    BY <1>3, <2>1, LenProperties
  <2>3. Holds(rest)
    BY <1>2, <2>1, <2>2
  <2>4. ss \o tt = Append(ss \o rest, s)
    <3>1. tt = rest \o <<s>> /\ <<s>> \in Seq(Seq(S))
      BY <2>1, AppendIsConcat
    <3>2. ss \o (rest \o <<s>>) = (ss \o rest) \o <<s>>
      BY <2>1, <3>1, ConcatAssociative
    <3>3. ss \o rest \in Seq(Seq(S))
      BY <2>1, ConcatProperties
    <3>4. Append(ss \o rest, s) = (ss \o rest) \o <<s>>
      BY <2>1, <3>3, AppendIsConcat
    <3>5. QED
      BY <3>1, <3>2, <3>4
  <2>5. FlattenSeq(ss \o tt) = FlattenSeq(ss \o rest) \o s
    BY <2>1, <2>4, FlattenAppend, ConcatProperties
  <2>6. FlattenSeq(tt) = FlattenSeq(rest) \o s
    BY <2>1, FlattenAppend
  <2>7. (FlattenSeq(ss) \o FlattenSeq(rest)) \o s = FlattenSeq(ss) \o (FlattenSeq(rest) \o s)
    <3>. DEFINE p == FlattenSeq(ss)
                q == FlattenSeq(rest)
    <3>1. p \in Seq(S) /\ q \in Seq(S)
      BY FlattenType
    <3>. HIDE DEF p, q
    <3>2. (p \o q) \o s = p \o (q \o s)
      BY <3>1, ConcatAssociative, SMTT(30)
    <3>3. QED
      BY <3>2 DEF p, q
  <2>8. QED
    BY <1>3, <2>3, <2>5, <2>6, <2>7 DEF Holds
<1>6. QED
  BY <1>4, <1>5

----
(***************************************************************************)
(* Frames, counted and added up.                                           *)
(***************************************************************************)

Summed(fs, x, n, g) ==
  g = [i \in 0..n |-> IF i = 0 THEN 0 ELSE g[i - 1] + Bytes(fs[i], x)]

\* The recursive function that adds up the bytes of frames exists.
LEMMA SummedExist ==
  ASSUME NEW fs, NEW x
  PROVE  \A n \in Nat : \E g : Summed(fs, x, n, g)
<1>. DEFINE Bad == {n \in Nat : ~ \E g : Summed(fs, x, n, g)}
<1>1. SUFFICES ASSUME Bad # {} PROVE FALSE
  OBVIOUS
<1>2. PICK b \in Bad : \A y \in Bad : b <= y
  BY <1>1, HasLeast
<1>3. b # 0
  <2>1. Summed(fs, x, 0, [i \in 0..0 |-> 0])
    BY DEF Summed
  <2>2. QED
    BY <2>1
<1>4. b - 1 \in Nat /\ b - 1 \notin Bad
  BY <1>2, <1>3
<1>5. PICK g : Summed(fs, x, b - 1, g)
  BY <1>4
<1>. DEFINE last == g[b - 1] + Bytes(fs[b], x)
            h == [i \in 0..b |-> IF i = b THEN last ELSE g[i]]
<1>6. \A i \in 0..(b - 1) : g[i] = IF i = 0 THEN 0 ELSE g[i - 1] + Bytes(fs[i], x)
  BY <1>5, <1>4 DEF Summed
<1>7. \A i \in 0..b : h[i] = IF i = 0 THEN 0 ELSE h[i - 1] + Bytes(fs[i], x)
  BY <1>3, <1>6
<1>8. Summed(fs, x, b, h)
  <2>. HIDE DEF h
  <2>1. h = [i \in 0..b |-> h[i]]
    BY DEF h
  <2>2. QED
    BY <1>7, <2>1 DEF Summed
<1>9. QED
  BY <1>8

\* It depends on no more of the frames than it has counted.
LEMMA SummedAgree ==
  ASSUME NEW fs, NEW gs, NEW x, NEW n \in Nat, NEW m \in Nat, n <= m,
         \A i \in 1..n : fs[i] = gs[i],
         NEW g, Summed(fs, x, n, g), NEW h, Summed(gs, x, m, h)
  PROVE  \A k \in 0..n : g[k] = h[k]
<1>. DEFINE Bad == {k \in 0..n : g[k] # h[k]}
<1>1. SUFFICES ASSUME Bad # {} PROVE FALSE
  OBVIOUS
<1>2. PICK b \in Bad : \A y \in Bad : b <= y
  <2>1. Bad \in SUBSET Nat
    OBVIOUS
  <2>2. QED
    BY <1>1, <2>1, HasLeast
<1>3. /\ g[b] = IF b = 0 THEN 0 ELSE g[b - 1] + Bytes(fs[b], x)
      /\ h[b] = IF b = 0 THEN 0 ELSE h[b - 1] + Bytes(gs[b], x)
  <2>1. b \in 0..n /\ b \in 0..m
    BY <1>2
  <2>2. QED
    BY <2>1 DEF Summed
<1>4. b # 0
  BY <1>2, <1>3
<1>5. b - 1 \in 0..n /\ b - 1 \notin Bad /\ b \in 1..n
  BY <1>2, <1>4
<1>6. QED
  BY <1>2, <1>3, <1>4, <1>5

\* Carried is the last value of such a function.
LEMMA CarriedIs ==
  ASSUME NEW S, NEW fs \in Seq(S), NEW x
  PROVE  \E g : Summed(fs, x, Len(fs), g) /\ Carried(fs, x) = g[Len(fs)]
<1>. DEFINE Grown(g) == [i \in 0..Len(fs) |-> IF i = 0 THEN 0 ELSE g[i - 1] + Bytes(fs[i], x)]
            f == CHOOSE g : g = Grown(g)
<1>1. Len(fs) \in Nat
  BY LenProperties
<1>2. Carried(fs, x) = f[Len(fs)]
  BY DEF Carried
<1>3. PICK h : Summed(fs, x, Len(fs), h)
  BY <1>1, SummedExist
<1>7. h = Grown(h)
  BY <1>3 DEF Summed
<1>4. f = Grown(f)
  <2>. HIDE DEF Grown
  <2>1. QED
    BY <1>7
<1>5. Summed(fs, x, Len(fs), f)
  <2>. HIDE DEF f
  <2>1. QED
    BY <1>4 DEF Summed
<1>. HIDE DEF f
<1>6. QED
  BY <1>2, <1>5

\* No frames carry nothing.
LEMMA CarriedNone == \A x : Carried(<< >>, x) = 0
<1>1. SUFFICES ASSUME NEW x PROVE Carried(<< >>, x) = 0
  OBVIOUS
<1>. DEFINE fs == << >>
<1>2. fs \in Seq(FrameRecords) /\ Len(fs) = 0
  BY EmptySeq
<1>. HIDE DEF fs
<1>3. PICK g : Summed(fs, x, 0, g) /\ Carried(fs, x) = g[0]
  BY <1>2, CarriedIs
<1>4. g[0] = 0
  BY <1>3 DEF Summed
<1>5. QED
  BY <1>3, <1>4 DEF fs

\* One frame more carries the bytes it holds.
LEMMA CarriedAppend ==
  ASSUME NEW S, NEW fs \in Seq(S), NEW f \in S, NEW x
  PROVE  Carried(Append(fs, f), x) = Carried(fs, x) + Bytes(f, x)
<1>. DEFINE n == Len(fs)
            gs == Append(fs, f)
<1>0. /\ n \in Nat /\ gs \in Seq(S) /\ Len(gs) = n + 1 /\ gs[n + 1] = f
      /\ \A i \in 1..n : fs[i] = gs[i]
  BY LenProperties, AppendProperties
<1>. HIDE DEF gs
<1>1. PICK h : Summed(gs, x, n + 1, h) /\ Carried(gs, x) = h[n + 1]
  BY <1>0, CarriedIs
<1>2. PICK g : Summed(fs, x, n, g) /\ Carried(fs, x) = g[n]
  BY CarriedIs
<1>3. \A k \in 0..n : g[k] = h[k]
  <2>. DEFINE m == n + 1
  <2>1. m \in Nat /\ n <= m /\ Summed(gs, x, m, h)
    BY <1>0, <1>1
  <2>. HIDE DEF m, n
  <2>2. n \in Nat /\ \A i \in 1..n : fs[i] = gs[i]
    BY <1>0
  <2>3. QED
    BY <1>2, <2>1, <2>2, SummedAgree
<1>4. h[n + 1] = h[n] + Bytes(f, x)
  <2>1. n + 1 \in 0..(n + 1) /\ n + 1 # 0 /\ (n + 1) - 1 = n
    BY <1>0
  <2>2. h[n + 1] = IF n + 1 = 0 THEN 0 ELSE h[(n + 1) - 1] + Bytes(gs[n + 1], x)
    BY <1>1, <2>1 DEF Summed
  <2>3. QED
    BY <1>0, <2>1, <2>2
<1>5. n \in 0..n
  BY <1>0
<1>6. QED
  BY <1>1, <1>2, <1>3, <1>4, <1>5 DEF gs

\* There is no frame of any kind among no frames.
LEMMA CountNone == \A kind : Count(<< >>, kind) = 0
<1>1. SUFFICES ASSUME NEW kind PROVE Count(<< >>, kind) = 0
  OBVIOUS
<1>2. {i \in DOMAIN << >> : << >>[i].kind = kind} = {}
  OBVIOUS
<1>3. QED
  BY <1>2, FS_EmptySet DEF Count

\* One frame more counts for its own kind.
LEMMA CountAppend ==
  ASSUME NEW S, NEW fs \in Seq(S), NEW f \in S, NEW kind
  PROVE  /\ Count(fs, kind) \in Nat
         /\ Count(Append(fs, f), kind) = Count(fs, kind) + (IF f.kind = kind THEN 1 ELSE 0)
<1>. DEFINE n == Len(fs)
            gs == Append(fs, f)
            A == {i \in DOMAIN fs : fs[i].kind = kind}
            B == {i \in DOMAIN gs : gs[i].kind = kind}
<1>0. /\ n \in Nat /\ gs \in Seq(S) /\ Len(gs) = n + 1 /\ gs[n + 1] = f
      /\ \A i \in 1..n : fs[i] = gs[i]
      /\ DOMAIN fs = 1..n /\ DOMAIN gs = 1..(n + 1)
  BY LenProperties, AppendProperties
<1>. HIDE DEF gs, n
<1>1. IsFiniteSet(A) /\ Cardinality(A) \in Nat
  <2>1. IsFiniteSet(1..n)
    BY <1>0, FS_Interval
  <2>2. A \subseteq 1..n
    BY <1>0
  <2>. HIDE DEF A
  <2>3. QED
    BY <2>1, <2>2, FS_Subset, FS_CardinalityType
<1>2. n + 1 \notin A
  BY <1>0
<1>3. B = IF f.kind = kind THEN A \cup {n + 1} ELSE A
  BY <1>0
<1>. HIDE DEF A, B
<1>4. Cardinality(B) = Cardinality(A) + (IF f.kind = kind THEN 1 ELSE 0)
  <2>1. CASE f.kind = kind
    <3>1. B = A \cup {n + 1} /\ n + 1 \notin A /\ IsFiniteSet(A)
      BY <1>1, <1>2, <1>3, <2>1
    <3>2. Cardinality(A \cup {n + 1}) = Cardinality(A) + 1
      BY <3>1, FS_AddElement
    <3>3. QED
      BY <2>1, <3>1, <3>2
  <2>2. CASE f.kind # kind
    BY <1>1, <1>3, <2>2
  <2>3. QED
    BY <2>1, <2>2
<1>5. Count(fs, kind) = Cardinality(A) /\ Count(gs, kind) = Cardinality(B)
  BY DEF Count, A, B
<1>6. QED
  BY <1>1, <1>4, <1>5 DEF gs

----
(***************************************************************************)
(* Builders.  BuilderInv: packets lie one after the other, the open one    *)
(* last.                                                                   *)
(***************************************************************************)

Datagrams == [size : Nat, packets : Seq(Packets)]
Builders == [pos : Nat, packet : {None} \cup Packets, number : Nat, ackSeen : BOOLEAN,
             current : Seq(Packets), datagrams : Seq(Datagrams), options : {None} \cup Options]

FramesOf(packets) == FlattenSeq([i \in DOMAIN packets |-> packets[i].frames])
Done(b) == PacketsOf(b.datagrams) \o b.current
Open(b) == IF b.packet = None THEN << >> ELSE b.packet.frames

\* Where the sealed packets of the current datagram end.
EndOf(b) == IF b.packet = None THEN b.pos ELSE b.packet.start

\* Packets lie one after the other up to end.
Chained(packets, end) ==
  \A j \in 1..Len(packets) :
    packets[j].start + packets[j].size = IF j = Len(packets) THEN end ELSE packets[j + 1].start

WellMade(d) ==
  /\ d.packets # << >> /\ Chained(d.packets, d.size)
  /\ \A j \in 1..Len(d.packets) : d.packets[j].type = "oneRtt" => j = Len(d.packets)

Shaped(b) ==
  /\ b \in Builders
  /\ EndOf(b) = 0 <=> b.current = << >>
  /\ Chained(b.current, EndOf(b))
  /\ \A j \in 1..Len(b.current) : b.current[j].type = "oneRtt" => j = Len(b.current)
  /\ \A i \in 1..Len(b.datagrams) : WellMade(b.datagrams[i])
BuilderInv(b) ==
  /\ Shaped(b)
  /\ \A j \in 1..Len(b.current) : b.current[j].type # "oneRtt"
  /\ b.packet # None =>
       /\ b.pos >= b.packet.start + HeaderSize(b.packet.type)
       /\ b.packet.frames = << >> <=> b.pos = b.packet.start + HeaderSize(b.packet.type)
       /\ b.packet.number = b.number /\ b.options \in Options /\ b.packet.options = b.options

\* What BuilderAssumption says of sizes, header by header.
LEMMA Sizes ==
  /\ PACKET_MAX_SIZE \in Nat /\ MIN_ROOM \in Nat /\ TAG_SIZE \in Nat
  /\ MIN_ROOM + 64 <= PACKET_MAX_SIZE
  /\ \A type \in Types : /\ HeaderSize(type) \in Nat /\ HeaderSize(type) > 0
                         /\ HeaderSize(type) + 25 + TAG_SIZE <= MIN_ROOM
<1>1. /\ PACKET_MAX_SIZE \in Nat /\ MIN_ROOM \in Nat /\ TAG_SIZE \in Nat
      /\ CID_LENGTH \in Nat /\ TOKEN_LENGTH \in Nat
      /\ MIN_ROOM + 64 <= PACKET_MAX_SIZE
      /\ \A type \in Types : HeaderSize(type) + 25 + TAG_SIZE <= MIN_ROOM
  BY BuilderAssumption DEF MaxAck, MaxClose
<1>2. \A type \in Types : HeaderSize(type) \in Nat /\ HeaderSize(type) > 0
  <2>1. HeaderSize("oneRtt") = 5 + CID_LENGTH
    BY DEF HeaderSize
  <2>2. HeaderSize("initial") = 13 + 2 * CID_LENGTH + TOKEN_LENGTH + (IF TOKEN_LENGTH < 64 THEN 1 ELSE 2)
    BY DEF HeaderSize
  <2>3. HeaderSize("handshake") = 13 + 2 * CID_LENGTH /\ HeaderSize("zeroRtt") = 13 + 2 * CID_LENGTH
    BY DEF HeaderSize
  <2>4. QED
    BY <1>1, <2>1, <2>2, <2>3 DEF Types, LongTypes
<1>3. QED
  BY <1>1, <1>2

\* None stands for no packet.
LEMMA NoneIsNoPacket == \A p \in Packets : p # None
  BY NoneAssumption

\* No datagrams hold no packets.
LEMMA PacketsOfNone == PacketsOf(<< >>) = << >>
<1>1. [i \in DOMAIN << >> |-> << >>[i].packets] = << >>
  OBVIOUS
<1>2. QED
  BY <1>1, FlattenIs, EmptySeq DEF PacketsOf

\* The sequence of a field of the elements.
LEMMA FieldsAppend ==
  ASSUME NEW ds \in Seq(Datagrams), NEW d \in Datagrams
  PROVE  /\ [i \in DOMAIN ds |-> ds[i].packets] \in Seq(Seq(Packets))
         /\ [i \in DOMAIN Append(ds, d) |-> Append(ds, d)[i].packets]
              = Append([i \in DOMAIN ds |-> ds[i].packets], d.packets)
<1>. DEFINE n == Len(ds)
            A == [i \in DOMAIN ds |-> ds[i].packets]
            es == Append(ds, d)
            B == [i \in DOMAIN es |-> es[i].packets]
<1>1. /\ n \in Nat /\ DOMAIN ds = 1..n /\ DOMAIN es = 1..(n + 1) /\ es[n + 1] = d
      /\ \A i \in 1..n : es[i] = ds[i] /\ ds[i] \in Datagrams
  BY LenProperties, AppendProperties, ElementOfSeq
<1>2. A \in [1..n -> Seq(Packets)] /\ A \in Seq(Seq(Packets)) /\ Len(A) = n
  <2>1. A \in [1..n -> Seq(Packets)]
    BY <1>1 DEF Datagrams
  <2>. HIDE DEF A, n
  <2>2. QED
    BY <1>1, <2>1
<1>3. /\ Append(A, d.packets) \in Seq(Seq(Packets)) /\ Len(Append(A, d.packets)) = n + 1
      /\ \A i \in 1..n : Append(A, d.packets)[i] = ds[i].packets
      /\ Append(A, d.packets)[n + 1] = d.packets
  <2>1. d.packets \in Seq(Packets) /\ \A i \in 1..n : A[i] = ds[i].packets
    BY <1>1 DEF Datagrams
  <2>. HIDE DEF A
  <2>2. QED
    BY <1>2, <2>1, AppendProperties
<1>4. B \in [1..(n + 1) -> Seq(Packets)] /\ \A i \in 1..(n + 1) : B[i] = es[i].packets
  BY <1>1 DEF Datagrams
<1>. HIDE DEF A, B, n, es
<1>5. B \in Seq(Seq(Packets)) /\ Len(B) = n + 1
  BY <1>1, <1>4
<1>6. \A i \in 1..(n + 1) : B[i] = Append(A, d.packets)[i]
  <2>1. n \in Nat /\ n + 1 \in 1..(n + 1) /\ 1..n \subseteq 1..(n + 1)
    BY <1>1
  <2>2. ASSUME NEW i \in 1..n PROVE B[i] = Append(A, d.packets)[i]
    BY <1>1, <1>3, <1>4, <2>1
  <2>3. B[n + 1] = Append(A, d.packets)[n + 1]
    BY <1>1, <1>3, <1>4, <2>1
  <2>4. \A i \in 1..(n + 1) : i \in 1..n \/ i = n + 1
    BY <2>1
  <2>5. QED
    BY <2>2, <2>3, <2>4
<1>7. B = Append(A, d.packets)
  BY <1>3, <1>5, <1>6, SeqEqual
<1>8. QED
  BY <1>2, <1>7 DEF A, B, es

\* One datagram more: its packets come last.
LEMMA PacketsOfAppend ==
  ASSUME NEW ds \in Seq(Datagrams), NEW d \in Datagrams
  PROVE  /\ PacketsOf(ds) \in Seq(Packets)
         /\ PacketsOf(Append(ds, d)) = PacketsOf(ds) \o d.packets
<1>1. d.packets \in Seq(Packets)
  BY DEF Datagrams
<1>2. QED
  BY <1>1, FieldsAppend, FlattenAppend, FlattenType DEF PacketsOf

\* The same for the frames of packets.
LEMMA FrameFieldsAppend ==
  ASSUME NEW ps \in Seq(Packets), NEW p \in Packets
  PROVE  /\ [i \in DOMAIN ps |-> ps[i].frames] \in Seq(Seq(FrameRecords))
         /\ [i \in DOMAIN Append(ps, p) |-> Append(ps, p)[i].frames]
              = Append([i \in DOMAIN ps |-> ps[i].frames], p.frames)
<1>. DEFINE n == Len(ps)
            A == [i \in DOMAIN ps |-> ps[i].frames]
            es == Append(ps, p)
            B == [i \in DOMAIN es |-> es[i].frames]
<1>1. /\ n \in Nat /\ DOMAIN ps = 1..n /\ DOMAIN es = 1..(n + 1) /\ es[n + 1] = p
      /\ \A i \in 1..n : es[i] = ps[i] /\ ps[i] \in Packets
  BY LenProperties, AppendProperties, ElementOfSeq
<1>2. A \in [1..n -> Seq(FrameRecords)] /\ A \in Seq(Seq(FrameRecords)) /\ Len(A) = n
  <2>1. A \in [1..n -> Seq(FrameRecords)]
    BY <1>1 DEF Packets
  <2>. HIDE DEF A, n
  <2>2. QED
    BY <1>1, <2>1
<1>3. /\ Append(A, p.frames) \in Seq(Seq(FrameRecords)) /\ Len(Append(A, p.frames)) = n + 1
      /\ \A i \in 1..n : Append(A, p.frames)[i] = ps[i].frames
      /\ Append(A, p.frames)[n + 1] = p.frames
  <2>1. p.frames \in Seq(FrameRecords) /\ \A i \in 1..n : A[i] = ps[i].frames
    BY <1>1 DEF Packets
  <2>. HIDE DEF A
  <2>2. QED
    BY <1>2, <2>1, AppendProperties
<1>4. B \in [1..(n + 1) -> Seq(FrameRecords)] /\ \A i \in 1..(n + 1) : B[i] = es[i].frames
  <2>1. \A i \in 1..(n + 1) : i \in 1..n \/ i = n + 1
    BY <1>1
  <2>2. \A i \in 1..(n + 1) : es[i] \in Packets
    BY <1>1, <2>1
  <2>3. \A i \in 1..(n + 1) : es[i].frames \in Seq(FrameRecords)
    BY <2>2 DEF Packets
  <2>. HIDE DEF n
  <2>4. DOMAIN es = 1..(n + 1)
    BY <1>1 DEF n
  <2>. HIDE DEF es
  <2>5. QED
    BY <2>3, <2>4
<1>. HIDE DEF A, B, n, es
<1>5. B \in Seq(Seq(FrameRecords)) /\ Len(B) = n + 1
  BY <1>1, <1>4
<1>6. \A i \in 1..(n + 1) : B[i] = Append(A, p.frames)[i]
  <2>1. n \in Nat /\ n + 1 \in 1..(n + 1) /\ 1..n \subseteq 1..(n + 1)
    BY <1>1
  <2>2. ASSUME NEW i \in 1..n PROVE B[i] = Append(A, p.frames)[i]
    BY <1>1, <1>3, <1>4, <2>1
  <2>3. B[n + 1] = Append(A, p.frames)[n + 1]
    BY <1>1, <1>3, <1>4, <2>1
  <2>4. \A i \in 1..(n + 1) : i \in 1..n \/ i = n + 1
    BY <2>1
  <2>5. QED
    BY <2>2, <2>3, <2>4
<1>7. B = Append(A, p.frames)
  BY <1>3, <1>5, <1>6, SeqEqual
<1>8. QED
  BY <1>2, <1>7 DEF A, B, es

\* One packet more: its frames come last.
LEMMA FramesOfAppend ==
  ASSUME NEW ps \in Seq(Packets), NEW p \in Packets
  PROVE  /\ FramesOf(ps) \in Seq(FrameRecords)
         /\ FramesOf(Append(ps, p)) = FramesOf(ps) \o p.frames
<1>1. p.frames \in Seq(FrameRecords)
  BY DEF Packets
<1>2. QED
  BY <1>1, FrameFieldsAppend, FlattenAppend, FlattenType DEF FramesOf

\* Of packets sent before and those of a builder: all sealed ones, their frames with
\* those of the open packet; numbered from 0 on.
Sealed(past, b) == past \o Done(b)
FramesIn(past, b) == FramesOf(Sealed(past, b)) \o Open(b)
Numbered(packets, n) == Len(packets) = n /\ \A i \in 1..n : packets[i].number = i - 1

\* No datagram is too long, and neither will the current one be.
Fitting(b) ==
  /\ \A i \in 1..Len(b.datagrams) : b.datagrams[i].size <= PACKET_MAX_SIZE
  /\ EndOf(b) <= PACKET_MAX_SIZE
  /\ b.packet # None =>
       b.pos + TAG_SIZE + (IF b.options.malformed = None THEN 0 ELSE 2) <= PACKET_MAX_SIZE

\* The packets of datagrams are a sequence of packets.
LEMMA PacketsOfType == \A ds \in Seq(Datagrams) : PacketsOf(ds) \in Seq(Packets)
<1>1. SUFFICES ASSUME NEW ds \in Seq(Datagrams) PROVE PacketsOf(ds) \in Seq(Packets)
  OBVIOUS
<1>. DEFINE A == [i \in DOMAIN ds |-> ds[i].packets]
<1>2. Len(ds) \in Nat /\ DOMAIN ds = 1..Len(ds) /\ \A i \in 1..Len(ds) : ds[i] \in Datagrams
  BY LenProperties, ElementOfSeq
<1>3. A \in [1..Len(ds) -> Seq(Packets)]
  BY <1>2 DEF Datagrams
<1>4. A \in Seq(Seq(Packets))
  <2>. HIDE DEF A
  <2>1. QED
    BY <1>2, <1>3
<1>5. QED
  BY <1>4, FlattenType DEF PacketsOf

\* The frames of packets are a sequence of frames.
LEMMA FramesOfType == \A ps \in Seq(Packets) : FramesOf(ps) \in Seq(FrameRecords)
<1>1. SUFFICES ASSUME NEW ps \in Seq(Packets) PROVE FramesOf(ps) \in Seq(FrameRecords)
  OBVIOUS
<1>. DEFINE A == [i \in DOMAIN ps |-> ps[i].frames]
<1>2. Len(ps) \in Nat /\ DOMAIN ps = 1..Len(ps) /\ \A i \in 1..Len(ps) : ps[i] \in Packets
  BY LenProperties, ElementOfSeq
<1>3. A \in [1..Len(ps) -> Seq(FrameRecords)]
  BY <1>2 DEF Packets
<1>4. A \in Seq(Seq(FrameRecords))
  <2>. HIDE DEF A
  <2>1. QED
    BY <1>2, <1>3
<1>5. QED
  BY <1>4, FlattenType DEF FramesOf

\* So are those of a builder.
LEMMA DoneType ==
  ASSUME NEW b \in Builders
  PROVE  Done(b) \in Seq(Packets) /\ Open(b) \in Seq(FrameRecords)
<1>1. b.datagrams \in Seq(Datagrams) /\ b.current \in Seq(Packets) /\ b.packet \in {None} \cup Packets
  BY DEF Builders
<1>2. PacketsOf(b.datagrams) \in Seq(Packets)
  BY <1>1, PacketsOfType
<1>3. Done(b) \in Seq(Packets)
  BY <1>1, <1>2, ConcatProperties DEF Done
<1>4. Open(b) \in Seq(FrameRecords)
  <2>1. CASE b.packet = None
    BY <2>1, EmptySeq DEF Open
  <2>2. CASE b.packet # None
    <3>1. b.packet.frames \in Seq(FrameRecords)
      BY <1>1, <2>2 DEF Packets
    <3>2. QED
      BY <2>2, <3>1 DEF Open
  <2>3. QED
    BY <2>1, <2>2
<1>5. QED
  BY <1>3, <1>4

\* Flushing moves packets without changing their order.
LEMMA FlushKeeps ==
  ASSUME NEW b, Shaped(b), b.packet = None
  PROVE  LET f == FlushedDatagram(b) IN
         /\ BuilderInv(f) /\ f.packet = None /\ f.pos = 0 /\ f.current = << >>
         /\ Done(f) = Done(b) /\ f.number = b.number /\ f.options = b.options
         /\ f.ackSeen = b.ackSeen
         /\ Fitting(b) => Fitting(f)
<1>. DEFINE f == FlushedDatagram(b)
            d == [size |-> b.pos, packets |-> b.current]
<1>1. /\ b.pos \in Nat /\ b.number \in Nat /\ b.ackSeen \in BOOLEAN /\ b.current \in Seq(Packets)
      /\ b.datagrams \in Seq(Datagrams) /\ b.options \in {None} \cup Options
      /\ b = [pos |-> b.pos, packet |-> b.packet, number |-> b.number, ackSeen |-> b.ackSeen,
              current |-> b.current, datagrams |-> b.datagrams, options |-> b.options]
  BY DEF Shaped, Builders
<1>2. EndOf(b) = b.pos
  BY DEF EndOf
<1>3. CASE b.pos = 0
  <2>1. f = b
    BY <1>3 DEF FlushedDatagram
  <2>2. b.current = << >>
    BY <1>2, <1>3 DEF Shaped
  <2>4. BuilderInv(b)
    BY <2>2 DEF BuilderInv, Shaped
  <2>. HIDE DEF f
  <2>3. QED
    BY <1>3, <2>1, <2>2, <2>4 DEF f
<1>4. CASE b.pos # 0
  <2>1. f = [pos |-> 0, packet |-> None, number |-> b.number, ackSeen |-> b.ackSeen,
             current |-> << >>, datagrams |-> Append(b.datagrams, d), options |-> b.options]
    BY <1>1, <1>4 DEF FlushedDatagram
  <2>2. d \in Datagrams
    BY <1>1 DEF Datagrams
  <2>3. << >> \in Seq(Packets) /\ Append(b.datagrams, d) \in Seq(Datagrams) /\ Len(<< >>) = 0
    <3>. HIDE DEF d
    <3>1. QED
      BY <1>1, <2>2, EmptySeq, AppendProperties
  <2>4. d.packets = b.current /\ d.size = b.pos
    OBVIOUS
  <2>. HIDE DEF d, f
  <2>5. /\ f \in Builders /\ f.packet = None /\ f.pos = 0 /\ f.current = << >>
        /\ f.number = b.number /\ f.options = b.options /\ f.datagrams = Append(b.datagrams, d)
        /\ f.ackSeen = b.ackSeen
    BY <1>1, <2>1, <2>3 DEF Builders
  <2>6. Done(f) = Done(b)
    <3>1. PacketsOf(f.datagrams) = PacketsOf(b.datagrams) \o b.current /\ PacketsOf(b.datagrams) \in Seq(Packets)
      BY <1>1, <2>2, <2>4, <2>5, PacketsOfAppend
    <3>2. Done(f) = (PacketsOf(b.datagrams) \o b.current) \o << >>
      BY <2>5, <3>1 DEF Done
    <3>3. PacketsOf(b.datagrams) \o b.current \in Seq(Packets)
      BY <1>1, <3>1, ConcatProperties
    <3>4. QED
      BY <3>2, <3>3, ConcatEmptySeq DEF Done
  <2>7. WellMade(d)
    <3>1. b.current # << >> /\ Chained(b.current, b.pos) /\ \A j \in 1..Len(b.current) : b.current[j].type = "oneRtt" => j = Len(b.current)
      BY <1>2, <1>4 DEF Shaped
    <3>2. QED
      BY <2>4, <3>1 DEF WellMade
  <2>8. /\ Len(f.datagrams) = Len(b.datagrams) + 1 /\ Len(b.datagrams) \in Nat
        /\ f.datagrams[Len(b.datagrams) + 1] = d
        /\ \A i \in 1..Len(b.datagrams) : f.datagrams[i] = b.datagrams[i]
    BY <1>1, <2>2, <2>5, AppendProperties, LenProperties
  <2>9. \A i \in 1..Len(f.datagrams) : i \in 1..Len(b.datagrams) \/ i = Len(b.datagrams) + 1
    BY <2>8
  <2>10. \A i \in 1..Len(f.datagrams) : WellMade(f.datagrams[i])
    BY <2>7, <2>8, <2>9 DEF Shaped
  <2>11. EndOf(f) = 0 /\ Chained(f.current, EndOf(f)) /\ \A j \in 1..Len(f.current) : f.current[j].type # "oneRtt"
    BY <2>3, <2>5 DEF EndOf, Chained
  <2>12. BuilderInv(f)
    BY <2>3, <2>5, <2>10, <2>11 DEF BuilderInv, Shaped
  <2>13. ASSUME Fitting(b) PROVE Fitting(f)
    <3>1. d.size <= PACKET_MAX_SIZE /\ \A i \in 1..Len(b.datagrams) : b.datagrams[i].size <= PACKET_MAX_SIZE
      BY <1>2, <2>4, <2>13 DEF Fitting
    <3>2. 0 <= PACKET_MAX_SIZE
      BY Sizes
    <3>3. \A i \in 1..Len(f.datagrams) : f.datagrams[i].size <= PACKET_MAX_SIZE
      BY <2>8, <2>9, <3>1
    <3>4. QED
      BY <2>5, <2>11, <3>2, <3>3 DEF Fitting
  <2>14. QED
    BY <2>5, <2>6, <2>12, <2>13 DEF f
<1>5. QED
  BY <1>3, <1>4

\* What sealing the open packet, or none, does: everything stays where it was.
Seals(b, p) ==
  /\ b.packet # None /\ p.type = b.packet.type /\ p.options = b.packet.options
  /\ p.start + p.size = b.pos + Filling(b) + TAG_SIZE /\ p.padding = Filling(b)
EndsAs(b, e) ==
  /\ BuilderInv(e) /\ e.packet = None /\ e.options = b.options /\ e.ackSeen = b.ackSeen
  /\ \/ Done(e) = Done(b) /\ e.number = b.number /\ Open(b) = << >>
     \/ \E p \in Packets : /\ Done(e) = Append(Done(b), p) /\ e.number = b.number + 1
                           /\ p.number = b.number /\ p.frames = Open(b) /\ Seals(b, p)
  /\ Fitting(b) => Fitting(e)

\* _end_packet seals the open packet: it comes after the others, and the next number is
\* one higher.
SealedPacket(b, size, padding) == [b.packet EXCEPT !.size = size, !.padding = padding]
SealedBuilder(b, size, padding) ==
  [b EXCEPT !.packet = None, !.current = Append(@, SealedPacket(b, size, padding)),
            !.pos = b.packet.start + size, !.number = @ + 1]
SealedAs(b, size, padding, p, n) ==
  /\ Shaped(n) /\ n.packet = None /\ n.options = b.options
  /\ p \in Packets /\ p.number = b.number /\ p.frames = Open(b)
  /\ p.type = b.packet.type /\ p.options = b.packet.options
  /\ p.start + p.size = b.packet.start + size /\ p.padding = padding
  /\ n.ackSeen = b.ackSeen
  /\ Done(n) = Append(Done(b), p) /\ n.number = b.number + 1
  /\ n.pos = b.packet.start + size /\ n.datagrams = b.datagrams
  /\ b.packet.type # "oneRtt" => BuilderInv(n)
LEMMA SealKeeps ==
  ASSUME NEW b, BuilderInv(b), b.packet # None, NEW size \in Nat, size > 0, NEW padding \in Nat
  PROVE  SealedAs(b, size, padding, SealedPacket(b, size, padding), SealedBuilder(b, size, padding))
<1>. DEFINE p == [b.packet EXCEPT !.size = size, !.padding = padding]
            n == [b EXCEPT !.packet = None, !.current = Append(@, p),
                           !.pos = b.packet.start + size, !.number = @ + 1]
<1>1. /\ b.pos \in Nat /\ b.number \in Nat /\ b.ackSeen \in BOOLEAN /\ b.current \in Seq(Packets)
      /\ b.datagrams \in Seq(Datagrams) /\ b.options \in {None} \cup Options
      /\ b.packet \in Packets
      /\ b = [pos |-> b.pos, packet |-> b.packet, number |-> b.number, ackSeen |-> b.ackSeen,
              current |-> b.current, datagrams |-> b.datagrams, options |-> b.options]
  BY DEF BuilderInv, Shaped, Builders
<1>2. /\ p \in Packets /\ p.frames = b.packet.frames /\ p.number = b.packet.number
      /\ p.type = b.packet.type /\ p.start = b.packet.start /\ p.size = size
      /\ p.padding = padding /\ p.options = b.packet.options
      /\ b.packet.start \in Nat
  BY <1>1 DEF Packets
<1>4. /\ Append(b.current, p) \in Seq(Packets) /\ Len(b.current) \in Nat
      /\ Len(Append(b.current, p)) = Len(b.current) + 1
      /\ Append(b.current, p)[Len(b.current) + 1] = p
      /\ \A j \in 1..Len(b.current) : Append(b.current, p)[j] = b.current[j]
      /\ Append(b.current, p) # << >>
  <2>. HIDE DEF p
  <2>1. QED
    BY <1>1, <1>2, AppendProperties, LenProperties
<1>5. /\ n \in Builders /\ n.packet = None /\ n.options = b.options /\ n.number = b.number + 1
      /\ n.pos = b.packet.start + size /\ n.datagrams = b.datagrams
      /\ n.current = Append(b.current, p) /\ n.ackSeen = b.ackSeen
  <2>. HIDE DEF p
  <2>1. b \in Builders /\ b.packet.start + size \in Nat /\ b.number + 1 \in Nat
    BY <1>1, <1>2 DEF BuilderInv, Shaped
  <2>2. QED
    BY <1>4, <2>1 DEF Builders
<1>. HIDE DEF p, n
<1>6. p.number = b.number /\ p.frames = Open(b) /\ EndOf(b) = b.packet.start
  BY <1>2 DEF BuilderInv, Open, EndOf
<1>7. Done(n) = Append(Done(b), p)
  <2>. DEFINE a == PacketsOf(b.datagrams)
              c == b.current
  <2>1. a \in Seq(Packets) /\ c \in Seq(Packets) /\ p \in Packets /\ <<p>> \in Seq(Packets)
    BY <1>1, <1>2, PacketsOfType
  <2>2. Done(n) = a \o Append(c, p) /\ Done(b) = a \o c
    BY <1>5 DEF Done
  <2>. HIDE DEF a, c
  <2>3. a \o c \in Seq(Packets)
    BY <2>1, ConcatProperties
  <2>4. Append(c, p) = c \o <<p>> /\ Append(a \o c, p) = (a \o c) \o <<p>>
    BY <2>1, <2>3, AppendIsConcat
  <2>5. a \o (c \o <<p>>) = (a \o c) \o <<p>>
    BY <2>1, ConcatAssociative
  <2>6. QED
    BY <2>2, <2>4, <2>5
<1>8. EndOf(n) = n.pos /\ n.pos > 0
  BY <1>2, <1>5 DEF EndOf
<1>9. \A j \in 1..Len(n.current) : j \in 1..Len(b.current) \/ j = Len(b.current) + 1
  BY <1>4, <1>5
<1>10. Chained(n.current, EndOf(n))
  <2>1. \A j \in 1..Len(b.current) :
          b.current[j].start + b.current[j].size
            = IF j = Len(b.current) THEN b.packet.start ELSE b.current[j + 1].start
    BY <1>6 DEF BuilderInv, Shaped, Chained
  <2>2. ASSUME NEW j \in 1..Len(b.current)
        PROVE  n.current[j].start + n.current[j].size = n.current[j + 1].start
    <3>1. n.current[j] = b.current[j]
      BY <1>4, <1>5
    <3>2. CASE j = Len(b.current)
      BY <1>2, <1>4, <1>5, <2>1, <3>1, <3>2
    <3>3. CASE j # Len(b.current)
      <4>1. j + 1 \in 1..Len(b.current)
        BY <1>4, <3>3
      <4>2. n.current[j + 1] = b.current[j + 1]
        BY <1>4, <1>5, <4>1
      <4>3. QED
        BY <2>1, <3>1, <3>3, <4>2
    <3>4. QED
      BY <3>2, <3>3
  <2>3. n.current[Len(b.current) + 1].start + n.current[Len(b.current) + 1].size = n.pos
    BY <1>2, <1>4, <1>5
  <2>4. Len(n.current) = Len(b.current) + 1 /\ \A j \in 1..Len(b.current) : j # Len(n.current)
    BY <1>4, <1>5
  <2>5. QED
    BY <1>8, <1>9, <2>2, <2>3, <2>4 DEF Chained
<1>11. /\ \A j \in 1..Len(b.current) : n.current[j].type # "oneRtt"
       /\ n.current[Len(b.current) + 1].type = b.packet.type
       /\ Len(n.current) = Len(b.current) + 1 /\ n.current # << >>
  BY <1>2, <1>4, <1>5 DEF BuilderInv
<1>12. Shaped(n)
  <2>1. \A i \in 1..Len(n.datagrams) : WellMade(n.datagrams[i])
    BY <1>5 DEF BuilderInv, Shaped
  <2>2. \A j \in 1..Len(n.current) : n.current[j].type = "oneRtt" => j = Len(n.current)
    BY <1>9, <1>11
  <2>3. QED
    BY <1>5, <1>8, <1>10, <1>11, <2>1, <2>2 DEF Shaped
<1>13. ASSUME b.packet.type # "oneRtt" PROVE BuilderInv(n)
  <2>1. \A j \in 1..Len(n.current) : n.current[j].type # "oneRtt"
    BY <1>9, <1>11, <1>13
  <2>2. QED
    BY <1>5, <1>12, <2>1 DEF BuilderInv
<1>14. p = SealedPacket(b, size, padding) /\ n = SealedBuilder(b, size, padding)
  BY DEF p, n, SealedPacket, SealedBuilder
<1>15. QED
  BY <1>2, <1>5, <1>6, <1>7, <1>12, <1>13, <1>14 DEF SealedAs

\* _end_packet seals the open packet or, when it is empty, drops it with its number.
LEMMA EndKeeps ==
  ASSUME NEW b, BuilderInv(b)
  PROVE  EndsAs(b, Ended(b))
<1>1. CASE b.packet = None
  BY <1>1 DEF Ended, EndsAs, Open
<1>2. CASE b.packet # None
  <2>. DEFINE size == b.pos - b.packet.start + Filling(b) + TAG_SIZE
              fill == Filling(b)
              p == [b.packet EXCEPT !.size = size, !.padding = fill]
              n == [b EXCEPT !.packet = None, !.current = Append(@, p),
                             !.pos = b.packet.start + size, !.number = @ + 1]
              c == [b EXCEPT !.packet = None, !.pos = b.packet.start]
  <2>1. Ended(b) = IF PacketIsEmpty(b) /\ b.options.malformed = None THEN c
                   ELSE IF b.packet.type = "oneRtt" THEN FlushedDatagram(n) ELSE n
    BY <1>2 DEF Ended, EndPacket
  <2>2. /\ b.pos \in Nat /\ b.number \in Nat /\ b.ackSeen \in BOOLEAN /\ b.current \in Seq(Packets)
        /\ b.datagrams \in Seq(Datagrams) /\ b.options \in Options
        /\ b.packet \in Packets /\ b.packet.start \in Nat /\ b.packet.type \in Types
        /\ b = [pos |-> b.pos, packet |-> b.packet, number |-> b.number, ackSeen |-> b.ackSeen,
                current |-> b.current, datagrams |-> b.datagrams, options |-> b.options]
    BY <1>2 DEF BuilderInv, Shaped, Builders, Packets
  <2>3. /\ HeaderSize(b.packet.type) \in Nat /\ HeaderSize(b.packet.type) > 0
        /\ PACKET_MAX_SIZE \in Nat /\ TAG_SIZE \in Nat
    BY <2>2, Sizes
  <2>4. b.pos >= b.packet.start + HeaderSize(b.packet.type)
    BY <1>2 DEF BuilderInv
  <2>5. Filling(b) \in Nat
    <3>1. Remaining(b) > 0 => Remaining(b) \in Nat
      BY <2>2, <2>3 DEF Remaining
    <3>2. QED
      BY <3>1 DEF Filling, Padding
  <2>6. size \in Nat /\ size > 0 /\ b.packet.start + size = b.pos + Filling(b) + TAG_SIZE
    <3>. DEFINE x == Filling(b)
                t == b.packet.start
                h == HeaderSize(b.packet.type)
    <3>1. x \in Nat /\ t \in Nat /\ b.pos \in Nat /\ h \in Nat /\ h > 0 /\ TAG_SIZE \in Nat /\ b.pos >= t + h
      BY <2>2, <2>3, <2>4, <2>5
    <3>2. size = b.pos - t + x + TAG_SIZE
      OBVIOUS
    <3>. HIDE DEF x, t, h, size
    <3>3. size \in Nat /\ size > 0 /\ t + size = b.pos + x + TAG_SIZE
      BY <3>1, <3>2
    <3>4. QED
      BY <3>3 DEF x, t
  <2>7. CASE PacketIsEmpty(b) /\ b.options.malformed = None
    <3>1. Ended(b) = c
      BY <2>1, <2>7
    <3>3. /\ c \in Builders /\ c.packet = None /\ c.pos = b.packet.start /\ c.number = b.number
          /\ c.current = b.current /\ c.datagrams = b.datagrams /\ c.options = b.options
          /\ c.ackSeen = b.ackSeen
      <4>1. b \in Builders
        BY DEF BuilderInv, Shaped
      <4>2. QED
        BY <2>2, <4>1 DEF Builders
    <3>. HIDE DEF c
    <3>4. EndOf(c) = EndOf(b)
      BY <1>2, <3>3 DEF EndOf
    <3>5. BuilderInv(c)
      BY <3>3, <3>4 DEF BuilderInv, Shaped
    <3>6. Open(b) = << >>
      <4>1. b.pos = b.packet.start + HeaderSize(b.packet.type)
        BY <2>2, <2>3, <2>4, <2>7 DEF PacketIsEmpty
      <4>2. QED
        BY <1>2, <4>1 DEF BuilderInv, Open
    <3>7. Done(c) = Done(b)
      BY <3>3 DEF Done
    <3>8. Fitting(b) => Fitting(c)
      BY <3>3, <3>4 DEF Fitting
    <3>9. QED
      BY <3>1, <3>3, <3>5, <3>6, <3>7, <3>8 DEF EndsAs
  <2>8. CASE ~(PacketIsEmpty(b) /\ b.options.malformed = None)
    <3>1. /\ Shaped(n) /\ n.packet = None /\ n.options = b.options
          /\ p \in Packets /\ p.number = b.number /\ p.frames = Open(b)
          /\ Done(n) = Append(Done(b), p) /\ n.number = b.number + 1
          /\ n.pos = b.packet.start + size /\ n.datagrams = b.datagrams
          /\ p.type = b.packet.type /\ p.options = b.packet.options
          /\ p.start + p.size = b.packet.start + size /\ p.padding = fill
          /\ n.ackSeen = b.ackSeen
          /\ b.packet.type # "oneRtt" => BuilderInv(n)
      <4>1. size \in Nat /\ size > 0 /\ fill \in Nat
        BY <2>5, <2>6
      <4>. HIDE DEF size, fill
      <4>2. SealedAs(b, size, fill, SealedPacket(b, size, fill), SealedBuilder(b, size, fill))
        BY <1>2, <4>1, SealKeeps
      <4>3. n = SealedBuilder(b, size, fill) /\ p = SealedPacket(b, size, fill)
        BY DEF SealedBuilder, SealedPacket
      <4>. HIDE DEF n, p
      <4>4. QED
        BY <4>2, <4>3 DEF SealedAs
    <3>. HIDE DEF n, p
    <3>0. Seals(b, p)
      <4>. HIDE DEF size
      <4>1. QED
        BY <1>2, <2>6, <3>1 DEF Seals
    <3>2. ASSUME Fitting(b) PROVE Fitting(n)
      <4>1. b.pos + TAG_SIZE + (IF b.options.malformed = None THEN 0 ELSE 2) <= PACKET_MAX_SIZE
        BY <1>2, <3>2 DEF Fitting
      <4>2. b.pos + Filling(b) + TAG_SIZE <= PACKET_MAX_SIZE
        <5>1. CASE b.options.malformed = None
          <6>1. Filling(b) = Padding(b)
            BY <5>1, NoneAssumption DEF Filling
          <6>2. Padding(b) = 0 \/ Padding(b) = PACKET_MAX_SIZE - b.pos - TAG_SIZE
            BY DEF Padding, Remaining
          <6>3. QED
            BY <2>2, <2>3, <4>1, <5>1, <6>1, <6>2
        <5>2. CASE b.options.malformed # None
          <6>1. Filling(b) = 2 \/ Filling(b) = 0
            BY <5>2 DEF Filling
          <6>2. QED
            BY <2>2, <2>3, <4>1, <5>2, <6>1
        <5>3. QED
          BY <5>1, <5>2
      <4>3. EndOf(n) = n.pos /\ n.pos <= PACKET_MAX_SIZE
        <5>. HIDE DEF size
        <5>1. QED
          BY <2>6, <3>1, <4>2 DEF EndOf
      <4>4. QED
        BY <3>1, <3>2, <4>3 DEF Fitting
    <3>3. CASE b.packet.type # "oneRtt"
      BY <2>1, <2>8, <3>0, <3>1, <3>2, <3>3 DEF EndsAs
    <3>4. CASE b.packet.type = "oneRtt"
      <4>. DEFINE f == FlushedDatagram(n)
      <4>1. Ended(b) = f
        BY <2>1, <2>8, <3>4
      <4>2. /\ BuilderInv(f) /\ f.packet = None
            /\ Done(f) = Done(n) /\ f.number = n.number /\ f.options = n.options
            /\ f.ackSeen = n.ackSeen
            /\ Fitting(n) => Fitting(f)
        BY <3>1, FlushKeeps
      <4>. HIDE DEF f
      <4>3. QED
        BY <3>0, <3>1, <3>2, <4>1, <4>2 DEF EndsAs
    <3>5. QED
      BY <3>3, <3>4
  <2>9. QED
    BY <2>7, <2>8
<1>3. QED
  BY <1>1, <1>2

\* The frames of b are those of c in the same order, and its numbers go on in c.
Onward(b, c) ==
  /\ BuilderInv(c) /\ c.options = b.options /\ c.ackSeen = b.ackSeen
  /\ \/ Done(c) = Done(b) /\ c.number = b.number /\ Open(c) = Open(b)
     \/ \E p \in Packets : /\ Done(c) = Append(Done(b), p) /\ c.number = b.number + 1
                           /\ p.number = b.number /\ p.frames = Open(b) /\ Open(c) = << >>
                           /\ Seals(b, p)

\* In both cases no frame is lost: a packet that is dropped holds none.
LEMMA EndIsOnward ==
  ASSUME NEW b, BuilderInv(b)
  PROVE  Onward(b, Ended(b)) /\ Ended(b).packet = None /\ (Fitting(b) => Fitting(Ended(b)))
<1>1. EndsAs(b, Ended(b))
  BY EndKeeps
<1>2. Open(Ended(b)) = << >>
  BY <1>1 DEF EndsAs, Open
<1>3. QED
  BY <1>1, <1>2 DEF EndsAs, Onward

\* flush() leaves nothing but datagrams.
LEMMA FlushIsOnward ==
  ASSUME NEW b, BuilderInv(b)
  PROVE  /\ Onward(b, Flush(b)) /\ Open(Flush(b)) = << >> /\ Flush(b).current = << >>
         /\ Fitting(b) => Fitting(Flush(b))
<1>. DEFINE e == Ended(b)
            f == Flush(b)
<1>4. Onward(b, e) /\ e.packet = None /\ (Fitting(b) => Fitting(e))
  BY EndIsOnward
<1>3. /\ BuilderInv(f) /\ f.packet = None /\ f.current = << >>
      /\ Done(f) = Done(e) /\ f.number = e.number /\ f.options = e.options
      /\ f.ackSeen = e.ackSeen
      /\ Fitting(e) => Fitting(f)
  <2>1. Shaped(e) /\ f = FlushedDatagram(e)
    BY <1>4 DEF Onward, BuilderInv, Flush
  <2>. HIDE DEF e, f
  <2>2. QED
    BY <1>4, <2>1, FlushKeeps
<1>. HIDE DEF e, f
<1>5. Open(f) = << >> /\ Open(e) = << >>
  BY <1>3, <1>4 DEF Open
<1>6. QED
  BY <1>3, <1>4, <1>5 DEF Onward, f

\* start_packet: the previous packet ends, and the new one has room at least for a
\* CONNECTION_CLOSE, in a new datagram for an ACK besides.
LEMMA StartKeeps ==
  ASSUME NEW b, BuilderInv(b), b.options \in Options, NEW type \in Types,
         NEW newPacket \in BOOLEAN
  PROVE  LET s == StartPacket(b, type, newPacket) IN
         /\ Onward(b, s) /\ s.packet # None /\ s.packet.type = type /\ s.packet.frames = << >>
         /\ Fitting(b) => /\ Fitting(s) /\ Remaining(s) >= MaxClose
                          /\ newPacket => Remaining(s) >= MaxClose + MaxAck
<1>. DEFINE e == Ended(b)
            far == PACKET_MAX_SIZE - e.pos < MIN_ROOM \/ newPacket
            r == IF far THEN FlushedDatagram(e) ELSE e
            h == HeaderSize(type)
            new == [type |-> type, start |-> r.pos, number |-> r.number,
                    frames |-> << >>, eliciting |-> FALSE, size |-> 0,
                    padding |-> 0, options |-> r.options]
            s == [r EXCEPT !.pos = @ + h, !.packet = new]
<1>1. Onward(b, e) /\ e.packet = None /\ (Fitting(b) => Fitting(e))
  BY EndIsOnward
<1>2. StartPacket(b, type, newPacket) = s
  BY DEF StartPacket
<1>3. /\ h \in Nat /\ h > 0 /\ h + 25 + TAG_SIZE <= MIN_ROOM
      /\ PACKET_MAX_SIZE \in Nat /\ MIN_ROOM \in Nat /\ TAG_SIZE \in Nat
      /\ MIN_ROOM + 64 <= PACKET_MAX_SIZE
  BY Sizes
<1>4. /\ BuilderInv(r) /\ r.packet = None /\ Done(r) = Done(e) /\ r.number = e.number
      /\ r.options = e.options /\ r.ackSeen = e.ackSeen /\ (Fitting(e) => Fitting(r))
      /\ far => r.pos = 0
  <2>1. BuilderInv(e) /\ Shaped(e)
    BY <1>1 DEF Onward, BuilderInv
  <2>. DEFINE f == FlushedDatagram(e)
  <2>2. /\ BuilderInv(f) /\ f.packet = None /\ f.pos = 0
        /\ Done(f) = Done(e) /\ f.number = e.number /\ f.options = e.options
        /\ f.ackSeen = e.ackSeen
        /\ Fitting(e) => Fitting(f)
    BY <1>1, <2>1, FlushKeeps
  <2>3. r = IF far THEN f ELSE e
    OBVIOUS
  <2>. HIDE DEF r, f, e, far
  <2>4. QED
    BY <1>1, <2>1, <2>2, <2>3
<1>5. r \in Builders /\ r.pos \in Nat /\ r.number \in Nat /\ r.options \in Options
      /\ r.current \in Seq(Packets) /\ r.datagrams \in Seq(Datagrams)
  <2>. HIDE DEF r, e
  <2>1. r \in Builders
    BY <1>4 DEF BuilderInv, Shaped
  <2>2. QED
    BY <1>1, <1>4, <2>1 DEF Builders, Onward
<1>. HIDE DEF r, e, far, h
<1>6. new \in Packets /\ new.type = type /\ new.start = r.pos /\ new.number = r.number
      /\ new.frames = << >> /\ new.options = r.options
  BY <1>5, EmptySeq DEF Packets
<1>. HIDE DEF new
<1>7. new # None
  BY <1>6, NoneIsNoPacket
<1>8. /\ s \in Builders /\ s.packet = new /\ s.pos = r.pos + h /\ s.number = r.number
      /\ s.current = r.current /\ s.datagrams = r.datagrams /\ s.options = r.options
      /\ s.ackSeen = r.ackSeen
  <2>1. r.pos + h \in Nat
    BY <1>3, <1>5
  <2>2. QED
    BY <1>5, <1>6, <2>1 DEF Builders
<1>. HIDE DEF s
<1>9. EndOf(s) = r.pos /\ EndOf(r) = r.pos
  BY <1>4, <1>6, <1>7, <1>8 DEF EndOf
<1>10. BuilderInv(s)
  <2>1. Shaped(s)
    BY <1>4, <1>8, <1>9 DEF BuilderInv, Shaped
  <2>2. \A j \in 1..Len(s.current) : s.current[j].type # "oneRtt"
    BY <1>4, <1>8 DEF BuilderInv
  <2>3. s.pos = s.packet.start + HeaderSize(s.packet.type)
    BY <1>6, <1>8 DEF h
  <2>4. s.pos >= s.packet.start + HeaderSize(s.packet.type)
    <3>1. s.pos \in Nat
      BY <1>3, <1>5, <1>8
    <3>2. QED
      BY <2>3, <3>1
  <2>5. QED
    BY <1>5, <1>6, <1>8, <2>1, <2>2, <2>3, <2>4 DEF BuilderInv
<1>11. Onward(b, s)
  <2>1. Done(s) = Done(e) /\ Open(s) = << >> /\ Open(e) = << >>
    BY <1>1, <1>4, <1>6, <1>7, <1>8 DEF Done, Open
  <2>2. s.number = e.number /\ s.options = e.options /\ s.ackSeen = e.ackSeen
    BY <1>4, <1>8
  <2>3. QED
    BY <1>1, <1>10, <2>1, <2>2 DEF Onward
<1>12. ASSUME Fitting(b)
       PROVE  /\ Fitting(s) /\ Remaining(s) >= MaxClose
              /\ newPacket => Remaining(s) >= MaxClose + MaxAck
  <2>1. Fitting(r) /\ Fitting(e)
    BY <1>1, <1>4, <1>12
  <2>2. r.pos <= PACKET_MAX_SIZE
    BY <1>9, <2>1 DEF Fitting
  <2>3. r.pos = 0 \/ (r = e /\ PACKET_MAX_SIZE - r.pos >= MIN_ROOM /\ ~newPacket)
    <3>1. CASE far
      BY <1>4, <3>1
    <3>2. CASE ~far
      <4>1. r = e /\ ~(PACKET_MAX_SIZE - e.pos < MIN_ROOM) /\ ~newPacket
        BY <3>2 DEF r, far
      <4>2. r.pos \in Nat
        BY <1>5
      <4>3. QED
        BY <1>3, <4>1, <4>2
    <3>3. QED
      BY <3>1, <3>2
  <2>4. s.pos + TAG_SIZE + 25 <= PACKET_MAX_SIZE /\ (newPacket => s.pos + TAG_SIZE + 25 + 64 <= PACKET_MAX_SIZE)
    BY <1>3, <1>5, <1>8, <2>3
  <2>5. s.pos \in Nat
    BY <1>3, <1>5, <1>8
  <2>6. Remaining(s) >= MaxClose /\ (newPacket => Remaining(s) >= MaxClose + MaxAck)
    BY <1>3, <2>4, <2>5 DEF Remaining, MaxClose, MaxAck
  <2>7. s.pos + TAG_SIZE + (IF s.options.malformed = None THEN 0 ELSE 2) <= PACKET_MAX_SIZE
    BY <1>3, <2>4, <2>5
  <2>8. QED
    BY <1>8, <1>9, <2>1, <2>2, <2>6, <2>7 DEF Fitting
<1>13. QED
  BY <1>2, <1>6, <1>7, <1>8, <1>11, <1>12

\* start_frame and what is pushed after it: one frame more in the open packet.
LEMMA FrameKeeps ==
  ASSUME NEW b, BuilderInv(b), b.packet # None, NEW frame \in FrameRecords,
         NEW size \in Nat, size > 0
  PROVE  LET w == WithFrame(b, frame, size) IN
         /\ BuilderInv(w) /\ w.packet # None /\ w.options = b.options /\ w.number = b.number
         /\ w.packet.type = b.packet.type
         /\ w.ackSeen = (b.ackSeen \/ frame.kind \in {"ack", "zeroRttAck"})
         /\ Done(w) = Done(b) /\ Open(w) = Append(Open(b), frame) /\ w.pos = b.pos + size
         /\ (Fitting(b) /\ Remaining(b) >= size + (IF b.options.malformed = None THEN 0 ELSE 2))
              => Fitting(w)
<1>. DEFINE w == WithFrame(b, frame, size)
<1>1. /\ b \in Builders /\ b.pos \in Nat /\ b.ackSeen \in BOOLEAN /\ b.packet \in Packets
      /\ b.packet.frames \in Seq(FrameRecords) /\ b.packet.eliciting \in BOOLEAN
      /\ b.packet.start \in Nat /\ b.packet.type \in Types
      /\ HeaderSize(b.packet.type) \in Nat
      /\ PACKET_MAX_SIZE \in Nat /\ TAG_SIZE \in Nat
  BY Sizes DEF BuilderInv, Shaped, Builders, Packets
<1>2. /\ Append(b.packet.frames, frame) \in Seq(FrameRecords)
      /\ Append(b.packet.frames, frame) # << >>
      /\ b.pos + size \in Nat
      /\ (b.packet.eliciting \/ frame.kind \notin NonAckEliciting) \in BOOLEAN
      /\ (b.ackSeen \/ frame.kind \in {"ack", "zeroRttAck"}) \in BOOLEAN
  BY <1>1, AppendProperties
<1>. DEFINE q == [b.packet EXCEPT !.frames = Append(@, frame),
                                  !.eliciting = @ \/ frame.kind \notin NonAckEliciting]
<1>3. /\ q \in Packets /\ q.type = b.packet.type /\ q.start = b.packet.start
      /\ q.number = b.packet.number /\ q.frames = Append(b.packet.frames, frame)
      /\ q.options = b.packet.options
  <2>1. \A x \in Seq(FrameRecords), y \in BOOLEAN :
          LET z == [b.packet EXCEPT !.frames = x, !.eliciting = y]
          IN /\ z \in Packets /\ z.type = b.packet.type /\ z.start = b.packet.start
             /\ z.number = b.packet.number /\ z.frames = x /\ z.options = b.packet.options
    BY <1>1 DEF Packets
  <2>2. QED
    BY <1>2, <2>1
<1>. DEFINE seen == b.ackSeen \/ frame.kind \in {"ack", "zeroRttAck"}
<1>4. seen \in BOOLEAN /\ w = [b EXCEPT !.pos = b.pos + size, !.packet = q, !.ackSeen = seen]
  BY <1>1 DEF WithFrame, Builders, Packets
<1>. HIDE DEF seen
<1>. HIDE DEF q
<1>5. /\ w \in Builders /\ w.pos = b.pos + size /\ w.packet = q /\ w.number = b.number
      /\ w.current = b.current /\ w.datagrams = b.datagrams /\ w.options = b.options
      /\ w.ackSeen = seen
  <2>1. \A x \in Nat, y \in BOOLEAN :
          LET z == [b EXCEPT !.pos = x, !.packet = q, !.ackSeen = y]
          IN /\ z \in Builders /\ z.pos = x /\ z.packet = q /\ z.number = b.number
             /\ z.current = b.current /\ z.datagrams = b.datagrams /\ z.options = b.options
             /\ z.ackSeen = y
    BY <1>1, <1>3 DEF Builders
  <2>. HIDE DEF w
  <2>2. w = [b EXCEPT !.pos = b.pos + size, !.packet = q, !.ackSeen = seen]
    BY <1>4
  <2>3. b.pos + size \in Nat /\ seen \in BOOLEAN
    BY <1>2, <1>4
  <2>4. QED
    BY <2>1, <2>2, <2>3, Zenon
<1>. HIDE DEF w
<1>6. w.packet # None
  BY <1>3, <1>5, NoneIsNoPacket
<1>7. EndOf(w) = EndOf(b) /\ Done(w) = Done(b) /\ Open(w) = Append(Open(b), frame)
  BY <1>3, <1>5, <1>6 DEF EndOf, Done, Open
<1>8. BuilderInv(w)
  <2>1. Shaped(w) /\ \A j \in 1..Len(w.current) : w.current[j].type # "oneRtt"
    BY <1>5, <1>7 DEF BuilderInv, Shaped
  <2>2. b.pos >= b.packet.start + HeaderSize(b.packet.type)
    BY DEF BuilderInv
  <2>3. /\ w.pos >= w.packet.start + HeaderSize(w.packet.type)
        /\ w.pos # w.packet.start + HeaderSize(w.packet.type)
    BY <1>1, <1>3, <1>5, <2>2
  <2>4. w.packet.frames # << >>
    BY <1>2, <1>3, <1>5
  <2>5. w.packet.number = w.number /\ w.options \in Options /\ w.packet.options = w.options
    BY <1>3, <1>5 DEF BuilderInv
  <2>6. QED
    BY <2>1, <2>3, <2>4, <2>5 DEF BuilderInv
<1>9. ASSUME Fitting(b), Remaining(b) >= size + (IF b.options.malformed = None THEN 0 ELSE 2)
      PROVE  Fitting(w)
  <2>1. w.pos + TAG_SIZE + (IF w.options.malformed = None THEN 0 ELSE 2) <= PACKET_MAX_SIZE
    BY <1>1, <1>5, <1>9 DEF Remaining
  <2>2. QED
    BY <1>5, <1>7, <1>9, <2>1 DEF Fitting
<1>10. QED
  BY <1>3, <1>5, <1>6, <1>7, <1>8, <1>9 DEF w, seen

\* What is on its way, seen from the packets sent before.
LEMMA OnwardFrames ==
  ASSUME NEW past \in Seq(Packets), NEW b, BuilderInv(b), NEW c, Onward(b, c)
  PROVE  /\ FramesIn(past, c) = FramesIn(past, b)
         /\ Numbered(Sealed(past, b), b.number) => Numbered(Sealed(past, c), c.number)
<1>1. Done(b) \in Seq(Packets) /\ Open(b) \in Seq(FrameRecords) /\ b.number \in Nat
  BY DoneType DEF BuilderInv, Shaped, Builders
<1>. DEFINE a == Sealed(past, b)
<1>2. a \in Seq(Packets)
  BY <1>1, ConcatProperties DEF Sealed
<1>3. CASE Done(c) = Done(b) /\ c.number = b.number /\ Open(c) = Open(b)
  BY <1>3 DEF FramesIn, Sealed
<1>4. CASE \E p \in Packets : /\ Done(c) = Append(Done(b), p) /\ c.number = b.number + 1
                              /\ p.number = b.number /\ p.frames = Open(b) /\ Open(c) = << >>
  <2>1. PICK p \in Packets : /\ Done(c) = Append(Done(b), p) /\ c.number = b.number + 1
                             /\ p.number = b.number /\ p.frames = Open(b) /\ Open(c) = << >>
    BY <1>4
  <2>2. Sealed(past, c) = Append(a, p)
    <3>1. Append(Done(b), p) = Done(b) \o <<p>> /\ <<p>> \in Seq(Packets)
      BY <1>1, AppendIsConcat
    <3>2. past \o (Done(b) \o <<p>>) = (past \o Done(b)) \o <<p>>
      BY <1>1, <3>1, ConcatAssociative
    <3>3. Append(a, p) = a \o <<p>>
      BY <1>2, AppendIsConcat
    <3>4. QED
      BY <2>1, <3>1, <3>2, <3>3 DEF Sealed
  <2>. HIDE DEF a
  <2>3. FramesOf(a) \in Seq(FrameRecords) /\ FramesOf(Append(a, p)) = FramesOf(a) \o Open(b)
    BY <1>2, <2>1, FramesOfAppend
  <2>4. FramesIn(past, c) = (FramesOf(a) \o Open(b)) \o << >>
    BY <2>1, <2>2, <2>3 DEF FramesIn
  <2>5. FramesOf(a) \o Open(b) \in Seq(FrameRecords)
    BY <1>1, <2>3, ConcatProperties
  <2>6. FramesIn(past, c) = FramesIn(past, b)
    BY <2>4, <2>5, ConcatEmptySeq DEF FramesIn, a
  <2>7. ASSUME Numbered(a, b.number) PROVE Numbered(Append(a, p), c.number)
    <3>1. Len(a) = b.number /\ \A i \in 1..b.number : a[i].number = i - 1
      BY <2>7 DEF Numbered
    <3>2. /\ Len(Append(a, p)) = b.number + 1 /\ Append(a, p)[b.number + 1] = p
          /\ \A i \in 1..b.number : Append(a, p)[i] = a[i]
      BY <1>2, <3>1, AppendProperties
    <3>3. \A i \in 1..(b.number + 1) : i \in 1..b.number \/ i = b.number + 1
      BY <1>1
    <3>4. ASSUME NEW i \in 1..(b.number + 1) PROVE Append(a, p)[i].number = i - 1
      <4>1. CASE i \in 1..b.number
        BY <3>1, <3>2, <4>1
      <4>2. CASE i = b.number + 1
        BY <1>1, <2>1, <3>2, <4>2
      <4>3. QED
        BY <3>3, <4>1, <4>2
    <3>5. QED
      BY <2>1, <3>2, <3>4 DEF Numbered
  <2>8. QED
    BY <2>2, <2>6, <2>7 DEF a
<1>5. QED
  BY <1>3, <1>4 DEF Onward

\* The frames of a builder after those sent before.
LEMMA FramesInType ==
  ASSUME NEW past \in Seq(Packets), NEW b, BuilderInv(b)
  PROVE  FramesIn(past, b) \in Seq(FrameRecords)
<1>1. Done(b) \in Seq(Packets) /\ Open(b) \in Seq(FrameRecords)
  BY DoneType DEF BuilderInv, Shaped
<1>. DEFINE a == Sealed(past, b)
<1>2. a \in Seq(Packets)
  BY <1>1, ConcatProperties DEF Sealed
<1>3. FramesOf(a) \in Seq(FrameRecords)
  <2>. HIDE DEF a
  <2>1. QED
    BY <1>2, FramesOfType
<1>4. QED
  BY <1>1, <1>3, ConcatProperties DEF FramesIn

----
(***************************************************************************)
(* The connection as it writes.                                            *)
(***************************************************************************)

Running == pc \notin {"idle", "begin"}
Writing == pc \in {"control", "datagrams", "streams"}

WriterTypes ==
  /\ scene \in Scenes /\ padAll \in BOOLEAN /\ padACK \in BOOLEAN
  /\ malformed \in {None, "empty", "unexpected"}
  /\ due \in [FrameKinds -> Nat] /\ asked \in [AskedKinds -> Nat]
  /\ left \in [Streams -> Nat] /\ written \in [Streams -> Nat]
  /\ IsFiniteSet(resetDue) /\ IsFiniteSet(stopDue)
  /\ datagramsDue \in Seq(Nat) /\ turns \in Seq(Range(StreamOrder))
  /\ outbox \in Seq(Datagrams) /\ packetNumber \in Nat

\* A builder is at work while datagrams_to_send runs, and has a packet open while the
\* frames of an application packet are written; only a malformed packet is malformed.
PlaceInv ==
  /\ ~Running => builder = NewBuilder(0, None)
  /\ Running => builder.options \in Options
  /\ Writing => builder.packet # None /\ Head(todo) \in {"zeroRtt", "oneRtt"}
  /\ Writing \/ pc = "packet" => builder.options.malformed = None

WriterInv ==
  /\ WriterTypes /\ BuilderInv(builder) /\ PlaceInv
  /\ \A i \in 1..Len(outbox) : WellMade(outbox[i])

\* Packet numbers, over all calls.
NumberingInv ==
  /\ Numbered(SentPackets, packetNumber)
  /\ Running => Numbered(Sealed(SentPackets, builder), builder.number)

\* Sizes, for ACK frames that fit the room they ask for.
FewRanges == \A s \in Spaces : Len(ackQueue[s]) <= 30
FitInv ==
  /\ Fitting(builder)
  /\ \A i \in 1..Len(outbox) : outbox[i].size <= PACKET_MAX_SIZE

Kept ==
  /\ WriterInv'
  /\ RequestedIsDueOrSent => RequestedIsDueOrSent'
  /\ NumberingInv => NumberingInv'
  /\ FewRanges /\ FitInv => FitInv'

\* A builder left alone.
LEMMA OnwardItself == ASSUME NEW b, BuilderInv(b) PROVE Onward(b, b)
BY DEF Onward

\* A builder that has just been made.
LEMMA NewIsMade ==
  ASSUME NEW number \in Nat, NEW options \in {None} \cup Options
  PROVE  LET b == NewBuilder(number, options) IN
         /\ BuilderInv(b) /\ Done(b) = << >> /\ Open(b) = << >> /\ Fitting(b)
         /\ b.number = number /\ b.options = options /\ b.packet = None
<1>. DEFINE b == NewBuilder(number, options)
<1>1. /\ b.pos = 0 /\ b.packet = None /\ b.number = number /\ b.ackSeen = FALSE
      /\ b.current = << >> /\ b.datagrams = << >> /\ b.options = options
  BY DEF NewBuilder
<1>2. b \in Builders
  BY EmptySeq DEF NewBuilder, Builders
<1>3. << >> \o << >> = << >> /\ Len(<< >>) = 0
  OBVIOUS
<1>. HIDE DEF b
<1>4. EndOf(b) = 0 /\ Chained(b.current, EndOf(b))
  BY <1>1, <1>3 DEF EndOf, Chained
<1>5. BuilderInv(b)
  BY <1>1, <1>2, <1>3, <1>4 DEF BuilderInv, Shaped
<1>6. Done(b) = << >> /\ Open(b) = << >>
  BY <1>1, <1>3, PacketsOfNone DEF Done, Open
<1>7. Fitting(b)
  BY <1>1, <1>3, <1>4, Sizes DEF Fitting
<1>8. QED
  BY <1>1, <1>5, <1>6, <1>7 DEF b

\* The frames of all packets written, the open one's last.
LEMMA FramesAre ==
  ASSUME NEW past \in Seq(Packets), NEW b, BuilderInv(b)
  PROVE  LET ps == past \o PacketsOf(b.datagrams) \o b.current
                     \o (IF b.packet = None THEN << >> ELSE <<b.packet>>)
         IN FlattenSeq([i \in DOMAIN ps |-> ps[i].frames]) = FramesIn(past, b)
<1>. DEFINE d == PacketsOf(b.datagrams)
            c == b.current
            a == Sealed(past, b)
            ps == past \o PacketsOf(b.datagrams) \o b.current
                    \o (IF b.packet = None THEN << >> ELSE <<b.packet>>)
<1>1. /\ d \in Seq(Packets) /\ c \in Seq(Packets) /\ b.packet \in {None} \cup Packets
      /\ Done(b) \in Seq(Packets)
  BY PacketsOfType, DoneType DEF BuilderInv, Shaped, Builders
<1>2. a = (past \o d) \o c /\ a \in Seq(Packets)
  <2>1. a = past \o Done(b) /\ Done(b) = d \o c
    BY DEF Sealed, Done
  <2>. HIDE DEF a, d, c, ps
  <2>4. past \in Seq(Packets) /\ d \in Seq(Packets) /\ c \in Seq(Packets)
    BY <1>1
  <2>2. past \o (d \o c) = (past \o d) \o c
    BY <2>4, ConcatAssociative
  <2>3. QED
    BY <1>1, <2>1, <2>2, ConcatProperties
<1>3. ps = a \o (IF b.packet = None THEN << >> ELSE <<b.packet>>)
  BY <1>2
<1>. HIDE DEF a, ps
<1>4. FramesOf(ps) = FramesOf(a) \o Open(b)
  <2>1. CASE b.packet = None
    <3>1. ps = a /\ Open(b) = << >>
      BY <1>2, <1>3, <2>1, ConcatEmptySeq DEF Open
    <3>2. FramesOf(a) \in Seq(FrameRecords)
      BY <1>2, FramesOfType
    <3>3. QED
      BY <3>1, <3>2, ConcatEmptySeq
  <2>2. CASE b.packet # None
    <3>1. ps = Append(a, b.packet) /\ Open(b) = b.packet.frames /\ b.packet \in Packets
      BY <1>1, <1>2, <1>3, <2>2, AppendIsConcat DEF Open
    <3>2. QED
      BY <1>2, <3>1, FramesOfAppend
  <2>3. QED
    BY <2>1, <2>2
<1>5. QED
  BY <1>4 DEF FramesOf, FramesIn, ps, a

\* Frames, in terms of the datagrams sent and the builder.
LEMMA FramesNow ==
  /\ WriterInv => /\ SentPackets \in Seq(Packets) /\ Frames \in Seq(FrameRecords)
                  /\ Frames = FramesIn(SentPackets, builder)
  /\ (BuilderInv(builder) /\ outbox \in Seq(Datagrams))' =>
       Frames' = FramesIn(SentPackets', builder')
<1>1. ASSUME WriterInv
      PROVE  /\ SentPackets \in Seq(Packets) /\ Frames \in Seq(FrameRecords)
             /\ Frames = FramesIn(SentPackets, builder)
  <2>1. SentPackets \in Seq(Packets) /\ BuilderInv(builder)
    BY <1>1, PacketsOfType DEF SentPackets, WriterInv, WriterTypes
  <2>2. Frames = FramesIn(SentPackets, builder)
    BY <2>1, FramesAre DEF Frames, WrittenPackets
  <2>3. QED
    BY <2>1, <2>2, FramesInType
<1>2. ASSUME (BuilderInv(builder) /\ outbox \in Seq(Datagrams))'
      PROVE  Frames' = FramesIn(SentPackets', builder')
  <2>1. SentPackets' \in Seq(Packets) /\ BuilderInv(builder')
    BY <1>2, PacketsOfType DEF SentPackets, BuilderInv, Shaped
  <2>. DEFINE s == SentPackets'
              b == builder'
  <2>2. Frames' = FlattenSeq([i \in DOMAIN WrittenPackets' |-> WrittenPackets'[i].frames])
    BY DEF Frames
  <2>3. WrittenPackets' = s \o PacketsOf(b.datagrams) \o b.current
                            \o (IF b.packet = None THEN << >> ELSE <<b.packet>>)
    BY DEF WrittenPackets, PacketsOf
  <2>. HIDE DEF s, b
  <2>4. QED
    BY <2>1, <2>2, <2>3, FramesAre DEF s, b
<1>3. QED
  BY <1>1, <1>2

----
(***************************************************************************)
(* Frames written, and what is owed for them.                              *)
(***************************************************************************)

\* The kinds of frames that are asked for are not those that carry data or answer.
LEMMA FrameKindsAre ==
  FrameKinds = {"done", "challenge", "response", "newId", "retire", "blocked", "limit",
                "streamLimit", "ping", "probe"}
<1>1. Range(EarlyKinds) = {"done", "challenge", "response", "newId", "retire", "blocked", "limit"}
  <2>1. DOMAIN EarlyKinds = 1..7
    BY DEF EarlyKinds
  <2>2. QED
    BY <2>1 DEF Range, EarlyKinds
<1>2. Range(LateKinds) = {"streamLimit", "ping", "probe"}
  <2>1. DOMAIN LateKinds = 1..3
    BY DEF LateKinds
  <2>2. QED
    BY <2>1 DEF Range, LateKinds
<1>3. QED
  BY <1>1, <1>2 DEF FrameKinds

\* Nor those that stand for nothing that was asked for.
LEMMA KindsAre ==
  AskedKinds = {"done", "challenge", "response", "newId", "retire", "blocked", "limit",
                "streamLimit", "ping", "probe", "reset", "stop", "datagram"}
BY FrameKindsAre DEF AskedKinds

\* A frame carries a number of bytes.
LEMMA BytesType == \A f \in FrameRecords : \A x : Bytes(f, x) \in Nat
<1>1. SUFFICES ASSUME NEW f \in FrameRecords, NEW x PROVE Bytes(f, x) \in Nat
  OBVIOUS
<1>2. f.kind \in {"crypto", "stream"} => f.length \in Nat
  <2>1. CASE f \in [kind : AskedKinds \cup {"zeroRttAck", "close"}]
    BY <2>1, KindsAre
  <2>2. CASE f \in [kind : {"ack"}, of : Spaces]
    BY <2>2
  <2>3. CASE f \in [kind : {"crypto"}, of : Epochs, length : Nat]
    BY <2>3
  <2>4. CASE f \in [kind : {"stream"}, of : Streams, length : Nat, fin : BOOLEAN]
    BY <2>4
  <2>5. QED
    BY <2>1, <2>2, <2>3, <2>4 DEF FrameRecords
<1>3. QED
  BY <1>2 DEF Bytes

\* Frames carry a number of bytes.
LEMMA CarriedType ==
  ASSUME NEW fs \in Seq(FrameRecords), NEW x
  PROVE  Carried(fs, x) \in Nat
<1>. DEFINE n == Len(fs)
<1>1. n \in Nat /\ \A i \in 1..n : fs[i] \in FrameRecords
  BY LenProperties, ElementOfSeq
<1>2. PICK g : Summed(fs, x, n, g) /\ Carried(fs, x) = g[n]
  BY CarriedIs
<1>. DEFINE Bad == {k \in 0..n : g[k] \notin Nat}
<1>3. Bad = {}
  <2>1. SUFFICES ASSUME Bad # {} PROVE FALSE
    OBVIOUS
  <2>2. PICK b \in Bad : \A y \in Bad : b <= y
    <3>1. Bad \in SUBSET Nat
      OBVIOUS
    <3>2. QED
      BY <2>1, <3>1, HasLeast
  <2>3. g[b] = IF b = 0 THEN 0 ELSE g[b - 1] + Bytes(fs[b], x)
    BY <1>2, <2>2 DEF Summed
  <2>4. b # 0
    BY <2>2, <2>3
  <2>5. b - 1 \in 0..n /\ b - 1 \notin Bad /\ b \in 1..n
    BY <1>1, <2>2, <2>4
  <2>6. Bytes(fs[b], x) \in Nat
    <3>1. fs[b] \in FrameRecords
      BY <1>1, <2>5
    <3>2. \A f \in FrameRecords : Bytes(f, x) \in Nat
      BY BytesType
    <3>3. QED
      BY <3>1, <3>2
  <2>7. g[b - 1] \in Nat
    BY <2>5
  <2>8. QED
    BY <2>2, <2>3, <2>4, <2>6, <2>7
<1>4. n \in 0..n
  BY <1>1
<1>5. QED
  BY <1>2, <1>3, <1>4

\* Frames of a kind are a number of frames.
LEMMA CountType == \A fs \in Seq(FrameRecords) : \A kind : Count(fs, kind) \in Nat
<1>1. [kind |-> "close"] \in FrameRecords
  BY DEF FrameRecords
<1>2. QED
  BY <1>1, CountAppend

\* What one more frame changes in the counts.
LEMMA TallyAppend ==
  ASSUME NEW fs \in Seq(FrameRecords), NEW f \in FrameRecords
  PROVE  /\ Append(fs, f) \in Seq(FrameRecords)
         /\ \A kind : /\ Count(fs, kind) \in Nat /\ Count(Append(fs, f), kind) \in Nat
                      /\ f.kind = kind => Count(Append(fs, f), kind) = Count(fs, kind) + 1
                      /\ f.kind # kind => Count(Append(fs, f), kind) = Count(fs, kind)
         /\ \A x : /\ Carried(fs, x) \in Nat /\ Carried(Append(fs, f), x) \in Nat
                   /\ Carried(Append(fs, f), x) = Carried(fs, x) + Bytes(f, x)
<1>1. Append(fs, f) \in Seq(FrameRecords)
  BY AppendProperties
<1>2. ASSUME NEW kind
      PROVE  /\ Count(fs, kind) \in Nat /\ Count(Append(fs, f), kind) \in Nat
             /\ f.kind = kind => Count(Append(fs, f), kind) = Count(fs, kind) + 1
             /\ f.kind # kind => Count(Append(fs, f), kind) = Count(fs, kind)
  <2>1. /\ Count(fs, kind) \in Nat
        /\ Count(Append(fs, f), kind) = Count(fs, kind) + (IF f.kind = kind THEN 1 ELSE 0)
    BY CountAppend
  <2>2. QED
    BY <2>1
<1>3. ASSUME NEW x
      PROVE  /\ Carried(fs, x) \in Nat /\ Carried(Append(fs, f), x) \in Nat
             /\ Carried(Append(fs, f), x) = Carried(fs, x) + Bytes(f, x)
  BY <1>1, CarriedType, CarriedAppend
<1>4. QED
  BY <1>1, <1>2, <1>3

\* A builder with one frame more.
Adds(b, w, f) ==
  /\ BuilderInv(w) /\ w.packet # None /\ w.options = b.options /\ w.number = b.number
  /\ w.packet.type = b.packet.type /\ Done(w) = Done(b) /\ Open(w) = Append(Open(b), f)

\* The frame that is added is the last of all, and packets are numbered as before.
LEMMA AddedFrames ==
  ASSUME NEW past \in Seq(Packets), NEW b, BuilderInv(b), NEW f \in FrameRecords,
         NEW w, Adds(b, w, f)
  PROVE  /\ FramesIn(past, w) = Append(FramesIn(past, b), f)
         /\ Numbered(Sealed(past, b), b.number) => Numbered(Sealed(past, w), w.number)
<1>1. Done(b) \in Seq(Packets) /\ Open(b) \in Seq(FrameRecords)
  BY DoneType DEF BuilderInv, Shaped
<1>2. Sealed(past, w) = Sealed(past, b) /\ Sealed(past, b) \in Seq(Packets)
  BY <1>1, ConcatProperties DEF Adds, Sealed
<1>. DEFINE a == FramesOf(Sealed(past, b))
            o == Open(b)
<1>3. FramesIn(past, w) = a \o Append(o, f) /\ FramesIn(past, b) = a \o o
  BY <1>2 DEF FramesIn, Adds
<1>4. a \in Seq(FrameRecords) /\ o \in Seq(FrameRecords)
  BY <1>1, <1>2, FramesOfType
<1>. HIDE DEF a, o
<1>5. a \o o \in Seq(FrameRecords) /\ <<f>> \in Seq(FrameRecords)
  BY <1>4, ConcatProperties
<1>6. Append(o, f) = o \o <<f>> /\ Append(a \o o, f) = (a \o o) \o <<f>>
  BY <1>4, <1>5, AppendIsConcat
<1>7. a \o (o \o <<f>>) = (a \o o) \o <<f>>
  BY <1>4, <1>5, ConcatAssociative
<1>8. QED
  BY <1>2, <1>3, <1>6, <1>7 DEF Adds

\* A step that writes no frame.
LEMMA Went ==
  ASSUME WriterInv, Onward(builder, builder'), UNCHANGED <<outbox, packetNumber>>, Running
  PROVE  /\ Frames' = Frames /\ BuilderInv(builder')
         /\ NumberingInv => NumberingInv'
         /\ \A i \in 1..Len(outbox') : WellMade(outbox'[i])
<1>1. SentPackets \in Seq(Packets) /\ Frames = FramesIn(SentPackets, builder) /\ BuilderInv(builder)
      /\ SentPackets' = SentPackets
  BY FramesNow DEF WriterInv, SentPackets
<1>2. BuilderInv(builder') /\ outbox' \in Seq(Datagrams)
  BY DEF Onward, WriterInv, WriterTypes
<1>3. Frames' = FramesIn(SentPackets', builder')
  BY <1>2, FramesNow
<1>4. /\ FramesIn(SentPackets, builder') = FramesIn(SentPackets, builder)
      /\ Numbered(Sealed(SentPackets, builder), builder.number)
           => Numbered(Sealed(SentPackets, builder'), builder'.number)
  BY <1>1, OnwardFrames
<1>5. NumberingInv => NumberingInv'
  BY <1>1, <1>4 DEF NumberingInv
<1>6. QED
  BY <1>1, <1>2, <1>3, <1>4, <1>5 DEF WriterInv

\* A step that writes one, perhaps in a new packet.
LEMMA WroteOne ==
  ASSUME WriterInv, NEW b, Onward(builder, b), NEW f \in FrameRecords, Adds(b, builder', f),
         UNCHANGED <<outbox, packetNumber>>, Running
  PROVE  /\ Frames' = Append(Frames, f) /\ BuilderInv(builder')
         /\ NumberingInv => NumberingInv'
         /\ \A i \in 1..Len(outbox') : WellMade(outbox'[i])
<1>1. SentPackets \in Seq(Packets) /\ Frames = FramesIn(SentPackets, builder) /\ BuilderInv(builder)
      /\ SentPackets' = SentPackets
  BY FramesNow DEF WriterInv, SentPackets
<1>2. BuilderInv(builder') /\ outbox' \in Seq(Datagrams) /\ BuilderInv(b)
  BY DEF Onward, Adds, WriterInv, WriterTypes
<1>3. Frames' = FramesIn(SentPackets', builder')
  BY <1>2, FramesNow
<1>4. /\ FramesIn(SentPackets, b) = FramesIn(SentPackets, builder)
      /\ Numbered(Sealed(SentPackets, builder), builder.number)
           => Numbered(Sealed(SentPackets, b), b.number)
  BY <1>1, OnwardFrames
<1>5. /\ FramesIn(SentPackets, builder') = Append(FramesIn(SentPackets, b), f)
      /\ Numbered(Sealed(SentPackets, b), b.number)
           => Numbered(Sealed(SentPackets, builder'), builder'.number)
  BY <1>1, <1>2, AddedFrames
<1>6. NumberingInv => NumberingInv'
  BY <1>1, <1>4, <1>5 DEF NumberingInv
<1>7. QED
  BY <1>1, <1>2, <1>3, <1>4, <1>5, <1>6 DEF WriterInv

\* What is owed stays the same when no frame is written.
LEMMA OwedSame ==
  ASSUME Frames' = Frames, UNCHANGED <<dueVars, asked, written>>, RequestedIsDueOrSent
  PROVE  RequestedIsDueOrSent'
BY DEF RequestedIsDueOrSent, dueVars

\* A frame that stands for nothing that was asked for.
LEMMA OwedOther ==
  ASSUME WriterInv, NEW f \in FrameRecords, Frames' = Append(Frames, f),
         f.kind \in {"ack", "zeroRttAck", "close", "probe"},
         UNCHANGED <<dueVars, asked, written>>, RequestedIsDueOrSent
  PROVE  RequestedIsDueOrSent'
<1>1. /\ \A kind : /\ f.kind # kind => Count(Frames', kind) = Count(Frames, kind)
      /\ \A x : Carried(Frames', x) = Carried(Frames, x) + Bytes(f, x) /\ Carried(Frames, x) \in Nat
  BY FramesNow, TallyAppend
<1>2. \A kind \in AskedKinds \ {"probe"} : kind # f.kind
  BY KindsAre
<1>3. \A x : Bytes(f, x) = 0
  BY DEF Bytes
<1>4. \A kind \in AskedKinds \ {"probe"} : Count(Frames', kind) = Count(Frames, kind)
  BY <1>1, <1>2
<1>5. \A x : Carried(Frames', x) = Carried(Frames, x)
  BY <1>1, <1>3
<1>6. {"reset", "stop", "datagram"} \cup (FrameKinds \ {"probe"}) \subseteq AskedKinds \ {"probe"}
  BY DEF AskedKinds
<1>7. QED
  BY <1>4, <1>5, <1>6 DEF RequestedIsDueOrSent, dueVars

----
(***************************************************************************)
(* What is asked for.                                                      *)
(***************************************************************************)

\* What comes to be due between the calls leaves packets alone.
LEMMA AskedOnly ==
  ASSUME WriterInv, pc = "idle", pc' \in {"idle", "begin"},
         UNCHANGED <<builder, outbox, packetNumber>>, WriterTypes'
  PROVE  /\ Frames' = Frames /\ WriterInv'
         /\ NumberingInv => NumberingInv'
         /\ FitInv => FitInv'
<1>1. Frames' = Frames
  BY DEF Frames, WrittenPackets, SentPackets
<1>2. ~Running /\ ~Running' /\ ~Writing' /\ pc' # "packet"
  BY DEF Running, Writing
<1>3. WriterInv'
  BY <1>2 DEF WriterInv, PlaceInv
<1>4. NumberingInv => NumberingInv'
  BY <1>2 DEF NumberingInv, SentPackets
<1>5. FitInv => FitInv'
  BY DEF FitInv
<1>6. QED
  BY <1>1, <1>3, <1>4, <1>5

\* A frame that is asked for is due.
LEMMA WantKeeps == ASSUME WriterInv, NEW kind \in FrameKinds, Want(kind) PROVE Kept
<1>1. /\ pc = "idle" /\ pc' = "idle" /\ UNCHANGED <<builder, outbox, packetNumber, scene>>
      /\ kind \in DOMAIN scene.wants
      /\ due' = [due EXCEPT ![kind] = @ + scene.wants[kind]]
      /\ asked' = [asked EXCEPT ![kind] = @ + scene.wants[kind]]
      /\ UNCHANGED <<choiceVars, left, endDue, resetDue, stopDue, datagramsDue, written, turns>>
  BY DEF Want, Request, Quiet
<1>2. scene.wants[kind] \in Nat /\ kind \in AskedKinds
  BY <1>1, ScenesAssumption DEF WriterInv, WriterTypes, AskedKinds
<1>3. WriterTypes'
  BY <1>1, <1>2 DEF WriterInv, WriterTypes, choiceVars
<1>4. /\ Frames' = Frames /\ WriterInv'
      /\ NumberingInv => NumberingInv'
      /\ FitInv => FitInv'
  BY <1>1, <1>3, AskedOnly
<1>5. ASSUME RequestedIsDueOrSent PROVE RequestedIsDueOrSent'
  <2>1. /\ due \in [FrameKinds -> Nat] /\ asked \in [AskedKinds -> Nat]
        /\ \A k \in FrameKinds : k \in AskedKinds
        /\ \A k : Count(Frames, k) \in Nat
    BY FramesNow, CountType DEF WriterInv, WriterTypes, AskedKinds
  <2>2. \A k \in FrameKinds \ {"probe"} : asked'[k] = due'[k] + Count(Frames, k)
    <3>1. \A k \in FrameKinds \ {"probe"} : asked[k] = due[k] + Count(Frames, k)
      BY <1>5 DEF RequestedIsDueOrSent
    <3>2. ASSUME NEW k \in FrameKinds \ {"probe"} PROVE asked'[k] = due'[k] + Count(Frames, k)
      <4>1. k \in AskedKinds /\ asked[k] \in Nat /\ due[k] \in Nat /\ Count(Frames, k) \in Nat
        BY <2>1
      <4>2. CASE k = kind
        <5>1. asked'[k] = asked[k] + scene.wants[kind] /\ due'[k] = due[k] + scene.wants[kind]
          BY <1>1, <2>1, <4>1, <4>2
        <5>2. QED
          BY <1>2, <3>1, <4>1, <5>1
      <4>3. CASE k # kind
        BY <1>1, <2>1, <3>1, <4>1, <4>3
      <4>4. QED
        BY <4>2, <4>3
    <3>3. QED
      BY <3>2
  <2>3. kind \notin {"reset", "stop", "datagram"}
    <3>1. FrameKinds \cap {"reset", "stop", "datagram"} = {}
      BY FrameKindsAre
    <3>2. QED
      BY <3>1
  <2>4. asked'["reset"] = asked["reset"] /\ asked'["stop"] = asked["stop"] /\ asked'["datagram"] = asked["datagram"]
    BY <1>1, <2>1, <2>3, KindsAre
  <2>5. QED
    BY <1>1, <1>4, <1>5, <2>2, <2>4 DEF RequestedIsDueOrSent
<1>6. QED
  BY <1>4, <1>5 DEF Kept

\* Bytes that are written to a stream are left to be sent.
LEMMA WroteKeeps ==
  ASSUME WriterInv, NEW x \in Streams, NEW n \in Nat, pc = "idle", pc' \in {"idle", "begin"},
         UNCHANGED <<builder, outbox, packetNumber, scene, turns, padAll, malformed, due, resetDue,
                     stopDue, datagramsDue, asked>>,
         padACK' \in BOOLEAN,
         left' = [left EXCEPT ![x] = @ + n], written' = [written EXCEPT ![x] = @ + n]
  PROVE  Kept
<1>1. WriterTypes'
  BY DEF WriterInv, WriterTypes
<1>2. /\ Frames' = Frames /\ WriterInv'
      /\ NumberingInv => NumberingInv'
      /\ FitInv => FitInv'
  BY <1>1, AskedOnly
<1>3. ASSUME RequestedIsDueOrSent PROVE RequestedIsDueOrSent'
  <2>1. /\ left \in [Streams -> Nat] /\ written \in [Streams -> Nat]
        /\ \A y : Carried(Frames, y) \in Nat
    BY FramesNow, CarriedType DEF WriterInv, WriterTypes
  <2>2. \A y \in Streams : written[y] = left[y] + Carried(Frames, y)
    BY <1>3 DEF RequestedIsDueOrSent
  <2>3. ASSUME NEW y \in Streams PROVE written'[y] = left'[y] + Carried(Frames, y)
    <3>1. CASE y = x
      <4>1. left[x] \in Nat /\ written[x] \in Nat /\ Carried(Frames, x) \in Nat
        BY <2>1
      <4>2. left'[x] = left[x] + n /\ written'[x] = written[x] + n
        BY <2>1
      <4>3. QED
        BY <2>2, <3>1, <4>1, <4>2
    <3>2. CASE y # x
      BY <2>1, <2>2, <3>2
    <3>3. QED
      BY <3>1, <3>2
  <2>4. QED
    BY <1>2, <1>3, <2>3 DEF RequestedIsDueOrSent
<1>4. QED
  BY <1>2, <1>3 DEF Kept

\* send_stream_data.
LEMMA SendStreamKeeps ==
  ASSUME WriterInv, NEW x \in Range(StreamOrder), NEW n \in scene.sizes, NEW end \in BOOLEAN,
         SendStream(x, n, end)
  PROVE  Kept
<1>1. /\ pc = "idle" /\ pc' = "idle" /\ UNCHANGED <<builder, outbox, packetNumber, scene, turns>>
      /\ left' = [left EXCEPT ![x] = @ + n] /\ written' = [written EXCEPT ![x] = @ + n]
      /\ UNCHANGED <<choiceVars, due, resetDue, stopDue, datagramsDue, asked>>
  BY DEF SendStream, Wrote, Request, Quiet
<1>2. n \in Nat /\ x \in Streams
  BY ScenesAssumption DEF WriterInv, WriterTypes, Streams
<1>3. padACK' \in BOOLEAN /\ UNCHANGED <<padAll, malformed>>
  BY <1>1 DEF WriterInv, WriterTypes, choiceVars
<1>4. QED
  BY <1>1, <1>2, <1>3, WroteKeeps

\* reset_stream and stop_stream.
LEMMA AbortStreamKeeps ==
  ASSUME WriterInv, NEW x \in Range(StreamOrder), NEW kind \in {"reset", "stop"},
         AbortStream(x, kind)
  PROVE  Kept
<1>1. /\ pc = "idle" /\ pc' = "idle" /\ UNCHANGED <<builder, outbox, packetNumber, scene, turns>>
      /\ asked[kind] = 0 /\ asked' = [asked EXCEPT ![kind] = 1]
      /\ resetDue' = IF kind = "reset" THEN {x} ELSE resetDue
      /\ stopDue' = IF kind = "stop" THEN {x} ELSE stopDue
      /\ UNCHANGED <<choiceVars, due, left, datagramsDue, written>>
  BY DEF AbortStream, Request, Quiet
<1>2. IsFiniteSet({x}) /\ Cardinality({x}) = 1
  BY FS_Singleton
<1>3. kind \in AskedKinds /\ kind \notin FrameKinds
  BY KindsAre, FrameKindsAre
<1>4. WriterTypes'
  BY <1>1, <1>2, <1>3 DEF WriterInv, WriterTypes, choiceVars
<1>5. /\ Frames' = Frames /\ WriterInv'
      /\ NumberingInv => NumberingInv'
      /\ FitInv => FitInv'
  BY <1>1, <1>4, AskedOnly
<1>6. ASSUME RequestedIsDueOrSent PROVE RequestedIsDueOrSent'
  <2>1. /\ asked \in [AskedKinds -> Nat] /\ {"reset", "stop", "datagram"} \subseteq AskedKinds
        /\ \A k : Count(Frames, k) \in Nat
    BY FramesNow, CountType DEF WriterInv, WriterTypes, AskedKinds
  <2>2. Cardinality(resetDue) \in Nat /\ Cardinality(stopDue) \in Nat
    BY FS_CardinalityType DEF WriterInv, WriterTypes
  <2>3. /\ asked["reset"] = Cardinality(resetDue) + Count(Frames, "reset")
        /\ asked["stop"] = Cardinality(stopDue) + Count(Frames, "stop")
    BY <1>6 DEF RequestedIsDueOrSent
  <2>4. asked'["reset"] = Cardinality(resetDue') + Count(Frames, "reset")
    BY <1>1, <1>2, <2>1, <2>2, <2>3
  <2>5. asked'["stop"] = Cardinality(stopDue') + Count(Frames, "stop")
    BY <1>1, <1>2, <2>1, <2>2, <2>3
  <2>6. \A k \in FrameKinds \cup {"datagram"} : asked'[k] = asked[k]
    BY <1>1, <1>3, <2>1 DEF AskedKinds
  <2>7. QED
    BY <1>1, <1>5, <1>6, <2>4, <2>5, <2>6 DEF RequestedIsDueOrSent
<1>7. QED
  BY <1>5, <1>6 DEF Kept

\* send_datagram_frame.
LEMMA SendDatagramKeeps ==
  ASSUME WriterInv, NEW n \in scene.datagrams, SendDatagram(n) PROVE Kept
<1>1. /\ pc = "idle" /\ pc' = "idle" /\ UNCHANGED <<builder, outbox, packetNumber, scene, turns>>
      /\ asked' = [asked EXCEPT !["datagram"] = @ + 1]
      /\ datagramsDue' = Append(datagramsDue, n)
      /\ UNCHANGED <<choiceVars, due, left, resetDue, stopDue, written>>
  BY DEF SendDatagram, Request, Quiet
<1>2. n \in Nat /\ "datagram" \in AskedKinds /\ "datagram" \notin FrameKinds
  BY KindsAre, FrameKindsAre, ScenesAssumption DEF WriterInv, WriterTypes
<1>3. /\ datagramsDue \in Seq(Nat) /\ datagramsDue' \in Seq(Nat) /\ Len(datagramsDue) \in Nat
      /\ Len(datagramsDue') = Len(datagramsDue) + 1
  BY <1>1, <1>2, AppendProperties, LenProperties DEF WriterInv, WriterTypes
<1>4. WriterTypes'
  BY <1>1, <1>2, <1>3 DEF WriterInv, WriterTypes, choiceVars
<1>5. /\ Frames' = Frames /\ WriterInv'
      /\ NumberingInv => NumberingInv'
      /\ FitInv => FitInv'
  BY <1>1, <1>4, AskedOnly
<1>6. ASSUME RequestedIsDueOrSent PROVE RequestedIsDueOrSent'
  <2>1. /\ asked \in [AskedKinds -> Nat] /\ \A k : Count(Frames, k) \in Nat
    BY FramesNow, CountType DEF WriterInv, WriterTypes
  <2>2. asked'["datagram"] = Len(datagramsDue') + Count(Frames, "datagram")
    BY <1>1, <1>2, <1>3, <1>6, <2>1 DEF RequestedIsDueOrSent
  <2>3. \A k \in FrameKinds \cup {"reset", "stop"} : asked'[k] = asked[k]
    BY <1>1, <1>2, <2>1 DEF AskedKinds
  <2>4. QED
    BY <1>1, <1>5, <1>6, <2>2, <2>3 DEF RequestedIsDueOrSent
<1>7. QED
  BY <1>5, <1>6 DEF Kept

\* The requests that change nothing that is due.
LEMMA ChoiceKeeps ==
  ASSUME WriterInv, pc = "idle", pc' \in {"idle", "begin"},
         UNCHANGED <<builder, outbox, packetNumber, scene, turns, left, resetDue, stopDue,
                     datagramsDue, asked, written>>,
         padAll' \in BOOLEAN, padACK' \in BOOLEAN, malformed' \in {None, "empty", "unexpected"},
         due' \in [FrameKinds -> Nat], \A k \in FrameKinds \ {"probe"} : due'[k] = due[k]
  PROVE  Kept
<1>1. WriterTypes'
  BY DEF WriterInv, WriterTypes
<1>2. /\ Frames' = Frames /\ WriterInv'
      /\ NumberingInv => NumberingInv'
      /\ FitInv => FitInv'
  BY <1>1, AskedOnly
<1>3. RequestedIsDueOrSent => RequestedIsDueOrSent'
  BY <1>2 DEF RequestedIsDueOrSent
<1>4. QED
  BY <1>2, <1>3 DEF Kept

----
(***************************************************************************)
(* A call begins and ends.                                                 *)
(***************************************************************************)

\* All that happens between two calls of datagrams_to_send.
LEMMA RequestsKeep == ASSUME WriterInv, Requests PROVE Kept
<1>1. CASE \E kind \in FrameKinds : Want(kind)
  BY <1>1, WantKeeps
<1>2. CASE \E x \in Range(StreamOrder), n \in scene.sizes, end \in BOOLEAN : SendStream(x, n, end)
  BY <1>2, SendStreamKeeps
<1>3. CASE \E x \in Range(StreamOrder), kind \in {"reset", "stop"} : AbortStream(x, kind)
  BY <1>3, AbortStreamKeeps
<1>4. CASE \E n \in scene.datagrams : SendDatagram(n)
  BY <1>4, SendDatagramKeeps
<1>5. CASE ConfigurePadding
  <2>1. /\ pc = "idle" /\ pc' = pc /\ padAll' = ~padAll
        /\ UNCHANGED <<builder, outbox, packetNumber, scene, turns, padACK, malformed, dueVars,
                       asked, written>>
    BY <1>5 DEF ConfigurePadding, Request, Quiet
  <2>2. QED
    BY <2>1, ChoiceKeeps DEF dueVars, WriterInv, WriterTypes
<1>6. CASE ResetPadInitialACK
  <2>1. /\ pc = "idle" /\ pc' = pc /\ padACK' = TRUE
        /\ UNCHANGED <<builder, outbox, packetNumber, scene, turns, padAll, malformed, dueVars,
                       asked, written>>
    BY <1>6 DEF ResetPadInitialACK, Quiet, historyVars
  <2>2. QED
    BY <2>1, ChoiceKeeps DEF dueVars, WriterInv, WriterTypes
<1>7. CASE \E pad \in BOOLEAN : ClientHello(pad)
  <2>1. /\ pc = "idle" /\ pc' = "begin" /\ padACK' \in BOOLEAN /\ scene.hello \in Nat
        /\ left' = [left EXCEPT !["initial"] = @ + scene.hello]
        /\ written' = [written EXCEPT !["initial"] = @ + scene.hello]
        /\ UNCHANGED <<builder, outbox, packetNumber, scene, turns, padAll, malformed, due,
                       resetDue, stopDue, datagramsDue, asked>>
    BY <1>7, ScenesAssumption
       DEF ClientHello, Letter, Request, Begin, Idle, Wrote, WriterInv, WriterTypes
  <2>2. "initial" \in Streams
    BY DEF Streams, Epochs
  <2>3. QED
    BY <2>1, <2>2, WroteKeeps
<1>8. CASE \E n \in scene.messages : HandshakeMessage(n)
  <2>1. PICK n \in scene.messages : HandshakeMessage(n)
    BY <1>8
  <2>2. /\ pc = "idle" /\ pc' = "begin" /\ padACK' \in BOOLEAN /\ n \in Nat
        /\ left' = [left EXCEPT !["handshake"] = @ + n]
        /\ written' = [written EXCEPT !["handshake"] = @ + n]
        /\ UNCHANGED <<builder, outbox, packetNumber, scene, turns, padAll, malformed, due,
                       resetDue, stopDue, datagramsDue, asked>>
    BY <2>1, ScenesAssumption
       DEF HandshakeMessage, Letter, Request, Begin, Idle, Wrote, WriterInv, WriterTypes
  <2>3. "handshake" \in Streams
    BY DEF Streams, Epochs
  <2>4. QED
    BY <2>2, <2>3, WroteKeeps
<1>9. CASE \E epoch \in Epochs : Probe(epoch)
  <2>1. /\ pc = "idle" /\ pc' = "begin" /\ due' = [due EXCEPT !["probe"] = 1]
        /\ UNCHANGED <<builder, outbox, packetNumber, scene, turns, padAll, padACK, malformed,
                       left, resetDue, stopDue, datagramsDue, asked, written>>
    BY <1>9 DEF Probe, Letter, Request, Begin, Idle
  <2>2. /\ due' \in [FrameKinds -> Nat] /\ \A k \in FrameKinds \ {"probe"} : due'[k] = due[k]
    BY <2>1 DEF WriterInv, WriterTypes
  <2>3. QED
    BY <2>1, <2>2, ChoiceKeeps DEF WriterInv, WriterTypes
<1>10. CASE \E epoch \in LongTypes, kind \in {"empty", "unexpected"} : Malformed(epoch, kind)
  <2>1. /\ pc = "idle" /\ pc' = "begin" /\ malformed' \in {"empty", "unexpected"}
        /\ UNCHANGED <<builder, outbox, packetNumber, scene, turns, padAll, padACK, dueVars,
                       asked, written>>
    BY <1>10 DEF Malformed, Letter, Request, Begin, Idle
  <2>2. QED
    BY <2>1, ChoiceKeeps DEF dueVars, WriterInv, WriterTypes
<1>11. CASE \/ \E epoch \in Epochs \cup {None} : Close(epoch)
            \/ AckInZeroRtt \/ Transmit \/ Peer
            \/ \E s \in Spaces : \E packet \in flying[s] :
                 DatagramReceived(s, packet) \/ DatagramMisread(s, packet)
  <2>1. /\ pc = "idle" /\ pc' \in {"idle", "begin"}
        /\ UNCHANGED <<builder, outbox, packetNumber, scene, turns, padAll, padACK, malformed,
                       dueVars, asked, written>>
    BY <1>11 DEF Close, AckInZeroRtt, Transmit, Peer, DatagramReceived, DatagramMisread, Letter,
                 Request, Begin, Idle, choiceVars, historyVars, callVars
  <2>2. QED
    BY <2>1, ChoiceKeeps DEF dueVars, WriterInv, WriterTypes
<1>12. QED
  BY <1>1, <1>2, <1>3, <1>4, <1>5, <1>6, <1>7, <1>8, <1>9, <1>10, <1>11 DEF Requests

\* A step of something else.
LEMMA UnchangedKeeps == ASSUME WriterInv, UNCHANGED vars PROVE Kept
<1>1. /\ UNCHANGED <<scene, padAll, padACK, malformed, due, asked, left, written, resetDue, stopDue,
                     datagramsDue, turns, outbox, packetNumber, builder, pc, todo>>
  BY DEF vars, choiceVars, dueVars, callVars, historyVars
<1>2. WriterInv'
  BY <1>1 DEF WriterInv, WriterTypes, PlaceInv, Running, Writing
<1>3. SentPackets' = SentPackets /\ Frames' = Frames
  BY <1>1 DEF SentPackets, Frames, WrittenPackets
<1>4. QED
  BY <1>1, <1>2, <1>3 DEF Kept, RequestedIsDueOrSent, NumberingInv, Running, FitInv

\* The call begins, with a new builder that goes on from the last packet number.
LEMMA DatagramsToSendKeeps == ASSUME WriterInv, DatagramsToSend PROVE Kept
<1>. DEFINE options == [isClient |-> scene.isClient, padAll |-> padAll, padACK |-> padACK,
                        malformed |-> malformed, from |-> packetNumber]
<1>1. /\ pc = "begin" /\ builder' = NewBuilder(packetNumber, options)
      /\ pc' \in {"close", "malformed", "packet"} /\ (pc' = "packet" => malformed = None)
      /\ UNCHANGED <<scene, choiceVars, dueVars, packetNumber, turns, outbox, historyVars>>
  BY DEF DatagramsToSend
<1>2. options \in Options /\ options.malformed = malformed
  BY ScenesAssumption DEF WriterInv, WriterTypes, Options
<1>. HIDE DEF options
<1>3. /\ BuilderInv(builder') /\ Done(builder') = << >> /\ Open(builder') = << >>
      /\ Fitting(builder') /\ builder'.number = packetNumber /\ builder'.options = options
  BY <1>1, <1>2, NewIsMade DEF WriterInv, WriterTypes
<1>4. Done(builder) = << >> /\ Open(builder) = << >>
  <2>1. builder = NewBuilder(0, None)
    BY <1>1 DEF WriterInv, PlaceInv, Running
  <2>2. QED
    BY <2>1, NewIsMade
<1>5. WriterTypes' /\ Running' /\ ~Writing' /\ ~Running
  BY <1>1 DEF WriterInv, WriterTypes, choiceVars, dueVars, historyVars, Running, Writing
<1>6. WriterInv'
  BY <1>1, <1>2, <1>3, <1>5 DEF WriterInv, PlaceInv
<1>7. SentPackets \in Seq(Packets) /\ SentPackets' = SentPackets
  BY <1>1, FramesNow DEF SentPackets
<1>8. Sealed(SentPackets, builder') = SentPackets /\ Sealed(SentPackets, builder) = SentPackets
  BY <1>3, <1>4, <1>7, ConcatEmptySeq DEF Sealed
<1>9. Frames' = Frames
  <2>1. Frames' = FramesIn(SentPackets, builder') /\ Frames = FramesIn(SentPackets, builder)
    BY <1>5, <1>6, <1>7, FramesNow DEF WriterInv, WriterTypes
  <2>2. QED
    BY <1>3, <1>4, <1>8, <2>1 DEF FramesIn
<1>10. RequestedIsDueOrSent => RequestedIsDueOrSent'
  BY <1>1, <1>9, OwedSame DEF historyVars
<1>11. NumberingInv => NumberingInv'
  BY <1>1, <1>3, <1>7, <1>8 DEF NumberingInv
<1>12. FitInv => FitInv'
  BY <1>1, <1>3 DEF FitInv
<1>13. QED
  BY <1>6, <1>10, <1>11, <1>12 DEF Kept

\* Of two lists of datagrams, the packets of both.
LEMMA PacketsOfConcat ==
  ASSUME NEW ds \in Seq(Datagrams), NEW es \in Seq(Datagrams)
  PROVE  PacketsOf(ds \o es) = PacketsOf(ds) \o PacketsOf(es)
<1>. DEFINE A == [i \in DOMAIN ds |-> ds[i].packets]
            B == [i \in DOMAIN es |-> es[i].packets]
            fs == ds \o es
            C == [i \in DOMAIN fs |-> fs[i].packets]
            n == Len(ds)
            m == Len(es)
<1>1. /\ n \in Nat /\ m \in Nat /\ DOMAIN ds = 1..n /\ DOMAIN es = 1..m
      /\ \A i \in 1..n : ds[i] \in Datagrams
      /\ \A i \in 1..m : es[i] \in Datagrams
  BY LenProperties, ElementOfSeq
<1>2. A \in Seq(Seq(Packets)) /\ B \in Seq(Seq(Packets)) /\ Len(A) = n /\ Len(B) = m
  <2>1. A \in [1..n -> Seq(Packets)] /\ B \in [1..m -> Seq(Packets)]
    BY <1>1 DEF Datagrams
  <2>. HIDE DEF A, B, n, m
  <2>2. A \in Seq(Seq(Packets)) /\ Len(A) = n
    BY <1>1, <2>1
  <2>3. B \in Seq(Seq(Packets)) /\ Len(B) = m
    BY <1>1, <2>1
  <2>4. QED
    BY <2>2, <2>3
<1>3. /\ fs \in Seq(Datagrams) /\ Len(fs) = n + m /\ DOMAIN fs = 1..(n + m)
      /\ \A i \in 1..n : fs[i] = ds[i]
      /\ \A i \in (n + 1)..(n + m) : fs[i] = es[i - n]
  <2>1. fs \in Seq(Datagrams) /\ Len(fs) = n + m
    BY ConcatProperties
  <2>2. \A i \in 1..(n + m) : fs[i] = IF i <= n THEN ds[i] ELSE es[i - n]
    BY ConcatProperties
  <2>. HIDE DEF fs, n, m
  <2>3. QED
    BY <1>1, <2>1, <2>2, LenProperties
<1>4. /\ A \o B \in Seq(Seq(Packets)) /\ Len(A \o B) = n + m
      /\ \A i \in 1..n : (A \o B)[i] = ds[i].packets
      /\ \A i \in (n + 1)..(n + m) : (A \o B)[i] = es[i - n].packets
  <2>1. \A i \in 1..n : A[i] = ds[i].packets
    BY <1>1
  <2>2. \A i \in 1..m : B[i] = es[i].packets
    BY <1>1
  <2>. HIDE DEF A, B, n, m
  <2>3. A \o B \in Seq(Seq(Packets)) /\ Len(A \o B) = n + m
        /\ \A i \in 1..(n + m) : (A \o B)[i] = IF i <= n THEN A[i] ELSE B[i - n]
    BY <1>2, ConcatProperties
  <2>4. ASSUME NEW i \in 1..n PROVE (A \o B)[i] = ds[i].packets
    BY <1>1, <2>1, <2>3
  <2>5. ASSUME NEW i \in (n + 1)..(n + m) PROVE (A \o B)[i] = es[i - n].packets
    <3>1. i \in 1..(n + m) /\ ~(i <= n) /\ i - n \in 1..m
      BY <1>1
    <3>2. QED
      BY <2>2, <2>3, <3>1
  <2>6. QED
    BY <2>3, <2>4, <2>5
<1>5. C \in Seq(Seq(Packets)) /\ Len(C) = n + m /\ \A i \in 1..(n + m) : C[i] = fs[i].packets
  <2>1. \A i \in 1..(n + m) : fs[i] \in Datagrams
    BY <1>3, ElementOfSeq
  <2>2. C \in [1..(n + m) -> Seq(Packets)]
    BY <1>3, <2>1 DEF Datagrams
  <2>3. \A i \in 1..(n + m) : C[i] = fs[i].packets
    BY <1>3
  <2>. DEFINE l == n + m
  <2>4. l \in Nat
    BY <1>1
  <2>. HIDE DEF C, l
  <2>5. C \in Seq(Seq(Packets)) /\ Len(C) = l
    BY <2>2, <2>4 DEF l
  <2>6. QED
    BY <2>3, <2>5 DEF l
<1>. HIDE DEF A, B, C, fs, n, m
<1>6. ASSUME NEW i \in 1..(n + m) PROVE C[i] = (A \o B)[i]
  <2>1. i \in 1..n \/ i \in (n + 1)..(n + m)
    BY <1>1
  <2>2. CASE i \in 1..n
    BY <1>3, <1>4, <1>5, <2>2
  <2>3. CASE i \in (n + 1)..(n + m)
    BY <1>3, <1>4, <1>5, <2>3
  <2>4. QED
    BY <2>1, <2>2, <2>3
<1>7. C = A \o B
  BY <1>4, <1>5, <1>6, SeqEqual
<1>8. FlattenSeq(A \o B) = FlattenSeq(A) \o FlattenSeq(B)
  BY <1>2, FlattenConcat
<1>9. QED
  BY <1>7, <1>8 DEF PacketsOf, A, B, C, fs

\* The call ends: its datagrams are sent, and the packet number is stored.
LEMMA FlushBuilderKeeps == ASSUME WriterInv, FlushBuilder PROVE Kept
<1>. DEFINE f == Flush(builder)
<1>1. /\ pc = "flush" /\ outbox' = outbox \o f.datagrams
      /\ packetNumber' = IF f.datagrams = << >> THEN packetNumber ELSE f.number
      /\ builder' = NewBuilder(0, None) /\ pc' = "idle"
      /\ malformed' = None \/ malformed' = malformed
      /\ UNCHANGED <<scene, padAll, padACK, dueVars, turns, historyVars>>
  BY DEF FlushBuilder
<1>2. /\ Onward(builder, f) /\ Open(f) = << >> /\ f.current = << >> /\ BuilderInv(f)
      /\ Fitting(builder) => Fitting(f)
  BY FlushIsOnward DEF WriterInv, Onward
<1>. HIDE DEF f
<1>3. /\ f.datagrams \in Seq(Datagrams) /\ f.number \in Nat /\ outbox \in Seq(Datagrams)
      /\ \A i \in 1..Len(f.datagrams) : WellMade(f.datagrams[i])
      /\ PacketsOf(f.datagrams) \in Seq(Packets)
  BY <1>2, PacketsOfType DEF BuilderInv, Shaped, Builders, WriterInv, WriterTypes
<1>4. outbox' \in Seq(Datagrams) /\ packetNumber' \in Nat
  BY <1>1, <1>3, ConcatProperties DEF WriterInv, WriterTypes
<1>5. /\ BuilderInv(builder') /\ Done(builder') = << >> /\ Open(builder') = << >>
      /\ Fitting(builder')
  BY <1>1, NewIsMade
<1>6. WriterTypes' /\ ~Running' /\ Running /\ ~Writing' /\ pc' # "packet"
  BY <1>1, <1>4 DEF WriterInv, WriterTypes, dueVars, historyVars, Running, Writing
<1>7. \A i \in 1..Len(outbox') :
        \/ i \in 1..Len(outbox) /\ outbox'[i] = outbox[i]
        \/ \E j \in 1..Len(f.datagrams) : outbox'[i] = f.datagrams[j]
  <2>1. /\ Len(outbox) \in Nat /\ Len(f.datagrams) \in Nat
        /\ Len(outbox') = Len(outbox) + Len(f.datagrams)
        /\ \A i \in 1..Len(outbox') :
             outbox'[i] = IF i <= Len(outbox) THEN outbox[i] ELSE f.datagrams[i - Len(outbox)]
    BY <1>1, <1>3, ConcatProperties, LenProperties
  <2>2. ASSUME NEW i \in 1..Len(outbox'), ~(i \in 1..Len(outbox))
        PROVE  i - Len(outbox) \in 1..Len(f.datagrams) /\ ~(i <= Len(outbox))
    BY <2>1, <2>2
  <2>3. \A i \in 1..Len(outbox') : i \in 1..Len(outbox) => i <= Len(outbox)
    BY <2>1
  <2>4. QED
    BY <2>1, <2>2, <2>3
<1>8. \A i \in 1..Len(outbox') : WellMade(outbox'[i])
  BY <1>3, <1>7 DEF WriterInv
<1>9. WriterInv'
  BY <1>1, <1>5, <1>6, <1>8 DEF WriterInv, PlaceInv
<1>10. SentPackets' = Sealed(SentPackets, f) /\ SentPackets' \in Seq(Packets)
  <2>1. Done(f) = PacketsOf(f.datagrams)
    BY <1>2, <1>3, ConcatEmptySeq DEF Done
  <2>2. SentPackets' = SentPackets \o PacketsOf(f.datagrams)
    BY <1>1, <1>3, PacketsOfConcat DEF SentPackets
  <2>3. QED
    BY <1>3, <1>4, <2>1, <2>2, PacketsOfType DEF Sealed, SentPackets
<1>11. Sealed(SentPackets', builder') = SentPackets'
  BY <1>5, <1>10, ConcatEmptySeq DEF Sealed
<1>12. /\ FramesIn(SentPackets, f) = FramesIn(SentPackets, builder)
       /\ Numbered(Sealed(SentPackets, builder), builder.number)
            => Numbered(Sealed(SentPackets, f), f.number)
  BY <1>2, FramesNow, OnwardFrames DEF WriterInv
<1>13. Frames' = Frames
  <2>1. Frames' = FramesIn(SentPackets', builder') /\ Frames = FramesIn(SentPackets, builder)
    BY <1>9, FramesNow DEF WriterInv, WriterTypes
  <2>2. FramesIn(SentPackets', builder') = FramesIn(SentPackets, f)
    BY <1>2, <1>5, <1>10, <1>11 DEF FramesIn
  <2>3. QED
    BY <1>12, <2>1, <2>2
<1>14. RequestedIsDueOrSent => RequestedIsDueOrSent'
  BY <1>1, <1>13, OwedSame DEF historyVars
<1>15. ASSUME NumberingInv PROVE NumberingInv'
  <2>1. Numbered(SentPackets', f.number)
    BY <1>6, <1>10, <1>12, <1>15 DEF NumberingInv
  <2>2. packetNumber' = f.number
    <3>1. CASE f.datagrams = << >>
      <4>1. SentPackets' = SentPackets
        BY <1>1, <1>3, <3>1, ConcatEmptySeq DEF SentPackets
      <4>2. QED
        BY <1>1, <1>15, <2>1, <3>1, <4>1 DEF NumberingInv, Numbered
    <3>2. CASE f.datagrams # << >>
      BY <1>1, <3>2
    <3>3. QED
      BY <3>1, <3>2
  <2>3. QED
    BY <1>6, <2>1, <2>2 DEF NumberingInv
<1>16. ASSUME FitInv PROVE FitInv'
  <2>1. Fitting(f)
    BY <1>2, <1>16 DEF FitInv
  <2>2. \A i \in 1..Len(outbox') : outbox'[i].size <= PACKET_MAX_SIZE
    BY <1>7, <1>16, <2>1 DEF FitInv, Fitting
  <2>3. QED
    BY <1>5, <2>2 DEF FitInv
<1>17. QED
  BY <1>9, <1>14, <1>15, <1>16 DEF Kept

----
(***************************************************************************)
(* Packets.                                                                *)
(***************************************************************************)

\* Epochs with keys are types of packets.
LEMMA KeysAreTypes == WriterTypes => scene.keys \subseteq Types /\ Types = Epochs
BY ScenesAssumption DEF WriterTypes, Types, LongTypes, Epochs

\* Steps of a call that write no frame.
LEMMA StillKeepsTurning ==
  ASSUME WriterInv, Running, Running', Onward(builder, builder'), WriterTypes',
         UNCHANGED <<dueVars, outbox, packetNumber, asked, written>>,
         Writing' => builder'.packet # None /\ Head(todo') \in {"zeroRtt", "oneRtt"},
         Writing' \/ pc' = "packet" => builder.options.malformed = None,
         FitInv => Fitting(builder')
  PROVE  Kept
<1>1. /\ Frames' = Frames /\ BuilderInv(builder')
      /\ NumberingInv => NumberingInv'
      /\ \A i \in 1..Len(outbox') : WellMade(outbox'[i])
  BY Went
<1>2. builder'.options = builder.options /\ builder.options \in Options
  BY DEF Onward, WriterInv, PlaceInv
<1>3. WriterInv'
  BY <1>1, <1>2 DEF WriterInv, PlaceInv
<1>4. FitInv => FitInv'
  BY DEF FitInv
<1>5. QED
  BY <1>1, <1>3, <1>4, OwedSame DEF Kept

\* The same when no stream has had its turn.
LEMMA StillKeeps ==
  ASSUME WriterInv, Running, Running', Onward(builder, builder'),
         UNCHANGED <<scene, padAll, padACK, malformed, dueVars, turns, outbox, packetNumber, asked,
                     written>>,
         Writing' => builder'.packet # None /\ Head(todo') \in {"zeroRtt", "oneRtt"},
         Writing' \/ pc' = "packet" => builder.options.malformed = None,
         FitInv => Fitting(builder')
  PROVE  Kept
<1>1. WriterTypes'
  BY DEF WriterInv, WriterTypes, dueVars
<1>2. QED
  BY <1>1, StillKeepsTurning

\* Steps that write one, perhaps in a new packet b.
LEMMA WritingKeeps ==
  ASSUME WriterInv, Running, Running', WriterTypes', UNCHANGED <<outbox, packetNumber>>,
         NEW b, Onward(builder, b), NEW f \in FrameRecords, Adds(b, builder', f),
         Writing' => Head(todo') \in {"zeroRtt", "oneRtt"},
         Writing' \/ pc' = "packet" => builder.options.malformed = None,
         FewRanges /\ FitInv => Fitting(builder'),
         RequestedIsDueOrSent /\ Frames' = Append(Frames, f) => RequestedIsDueOrSent'
  PROVE  Kept
<1>1. /\ Frames' = Append(Frames, f) /\ BuilderInv(builder')
      /\ NumberingInv => NumberingInv'
      /\ \A i \in 1..Len(outbox') : WellMade(outbox'[i])
  BY WroteOne
<1>2. builder'.options = builder.options /\ builder.options \in Options /\ builder'.packet # None
  BY DEF Onward, Adds, WriterInv, PlaceInv
<1>3. WriterInv'
  BY <1>1, <1>2 DEF WriterInv, PlaceInv
<1>4. FewRanges /\ FitInv => FitInv'
  BY DEF FitInv
<1>5. QED
  BY <1>1, <1>3, <1>4 DEF Kept

\* CONNECTION_CLOSE, in a packet of its own.
LEMMA ClosePacketKeeps == ASSUME WriterInv, ClosePacket PROVE Kept
<1>1. /\ pc = "close" /\ pc' = "close"
      /\ builder' = IF ~CloseHere THEN builder
                    ELSE WithFrame(StartPacket(builder, Head(todo), FALSE),
                                   [kind |-> "close"], Size.close)
      /\ UNCHANGED <<scene, padAll, padACK, malformed, dueVars, turns, outbox, packetNumber, asked,
                     written>>
  BY DEF ClosePacket, choiceVars, Rest, historyVars
<1>2. Running /\ Running' /\ ~Writing' /\ pc' # "packet" /\ BuilderInv(builder)
      /\ builder.options \in Options
  BY <1>1 DEF Running, Writing, WriterInv, PlaceInv
<1>3. CASE ~CloseHere
  BY <1>1, <1>2, <1>3, OnwardItself, StillKeeps DEF FitInv
<1>4. CASE CloseHere
  <2>. DEFINE b == StartPacket(builder, Head(todo), FALSE)
              f == [kind |-> "close"]
  <2>1. Head(todo) \in Types
    BY <1>4, KeysAreTypes DEF WriterInv, CloseHere
  <2>2. /\ Onward(builder, b) /\ b.packet # None /\ b.options = builder.options
        /\ Fitting(builder) => Fitting(b) /\ Remaining(b) >= MaxClose
    BY <1>2, <2>1, StartKeeps DEF Onward
  <2>3. f \in FrameRecords /\ Size.close = 4
    BY DEF FrameRecords, Size
  <2>. HIDE DEF b, f
  <2>4. /\ Adds(b, builder', f)
        /\ (Fitting(b) /\ Remaining(b) >= 4 + (IF b.options.malformed = None THEN 0 ELSE 2))
             => Fitting(builder')
    <3>1. builder' = WithFrame(b, f, 4)
      BY <1>1, <1>4, <2>3 DEF b, f
    <3>2. BuilderInv(b)
      BY <2>2 DEF Onward
    <3>3. b.packet # None /\ f \in FrameRecords /\ 4 \in Nat /\ 4 > 0
      BY <2>2, <2>3
    <3>4. LET w == WithFrame(b, f, 4) IN
          /\ BuilderInv(w) /\ w.packet # None /\ w.options = b.options /\ w.number = b.number
          /\ w.packet.type = b.packet.type
          /\ Done(w) = Done(b) /\ Open(w) = Append(Open(b), f)
          /\ (Fitting(b) /\ Remaining(b) >= 4 + (IF b.options.malformed = None THEN 0 ELSE 2))
               => Fitting(w)
      BY <3>2, <3>3, FrameKeeps
    <3>5. QED
      BY <3>1, <3>4 DEF Adds
  <2>5. FitInv => Fitting(builder')
    <3>1. ASSUME FitInv PROVE Fitting(b) /\ Remaining(b) >= MaxClose
      BY <2>2, <3>1 DEF FitInv
    <3>2. Remaining(b) \in Int
      <4>1. BuilderInv(b)
        BY <2>2 DEF Onward
      <4>2. b.pos \in Nat
        BY <4>1 DEF BuilderInv, Shaped, Builders
      <4>3. QED
        BY <4>2, Sizes DEF Remaining
    <3>3. QED
      BY <2>4, <3>1, <3>2 DEF MaxClose
  <2>6. WriterTypes'
    BY <1>1 DEF WriterInv, WriterTypes, dueVars
  <2>7. RequestedIsDueOrSent /\ Frames' = Append(Frames, f) => RequestedIsDueOrSent'
    <3>1. f.kind = "close"
      BY DEF f
    <3>2. QED
      BY <1>1, <2>3, <3>1, OwedOther
  <2>8. QED
    BY <1>1, <1>2, <2>2, <2>3, <2>4, <2>5, <2>6, <2>7, WritingKeeps
<1>5. QED
  BY <1>3, <1>4

\* CloseWritten, NoKeys, PacketsWritten, StreamsWritten.
LEMMA TurningKeeps ==
  ASSUME WriterInv, CloseWritten \/ NoKeys \/ PacketsWritten \/ StreamsWritten PROVE Kept
<1>1. /\ pc \in {"close", "packet", "streams"} /\ pc' \in {"flush", "packet"} /\ builder' = builder
      /\ pc' = "packet" => pc = "packet" \/ pc = "streams"
      /\ UNCHANGED <<scene, padAll, padACK, malformed, dueVars, turns, outbox, packetNumber, asked,
                     written>>
  BY DEF CloseWritten, NoKeys, PacketsWritten, StreamsWritten, choiceVars, Rest, historyVars
<1>2. Running /\ Running' /\ ~Writing' /\ Onward(builder, builder')
  BY <1>1, OnwardItself DEF Running, Writing, WriterInv
<1>3. pc' = "packet" => builder.options.malformed = None
  BY <1>1 DEF WriterInv, PlaceInv, Writing
<1>4. QED
  BY <1>1, <1>2, <1>3, StillKeeps DEF FitInv

\* A packet without frames.
LEMMA MalformedPacketKeeps == ASSUME WriterInv, MalformedPacket PROVE Kept
<1>1. /\ pc = "malformed" /\ pc' = "flush"
      /\ builder' = IF Head(todo) \in scene.keys THEN StartPacket(builder, Head(todo), FALSE)
                    ELSE builder
      /\ UNCHANGED <<scene, padAll, padACK, malformed, dueVars, turns, outbox, packetNumber, asked,
                     written>>
  BY DEF MalformedPacket, choiceVars, Rest, historyVars
<1>2. Running /\ Running' /\ ~Writing' /\ BuilderInv(builder) /\ builder.options \in Options
  BY <1>1 DEF Running, Writing, WriterInv, PlaceInv
<1>3. Onward(builder, builder') /\ (Fitting(builder) => Fitting(builder'))
  <2>1. CASE Head(todo) \in scene.keys
    <3>1. Head(todo) \in Types
      BY <2>1, KeysAreTypes DEF WriterInv
    <3>2. QED
      BY <1>1, <1>2, <2>1, <3>1, StartKeeps
  <2>2. CASE Head(todo) \notin scene.keys
    BY <1>1, <1>2, <2>2, OnwardItself
  <2>3. QED
    BY <2>1, <2>2
<1>4. QED
  BY <1>1, <1>2, <1>3, StillKeeps DEF FitInv

\* A packet of 0-RTT or 1-RTT is started.
LEMMA StartApplicationKeeps == ASSUME WriterInv, StartApplication PROVE Kept
<1>1. /\ pc = "packet" /\ pc' = "control" /\ Head(todo) \in {"zeroRtt", "oneRtt"} /\ todo' = todo
      /\ builder' = StartPacket(builder, Head(todo), FALSE)
      /\ UNCHANGED <<scene, padAll, padACK, malformed, dueVars, turns, outbox, packetNumber, asked,
                     written>>
  BY DEF StartApplication, choiceVars, Rest, historyVars
<1>2. Running /\ Running' /\ BuilderInv(builder) /\ builder.options \in Options
      /\ builder.options.malformed = None
  BY <1>1 DEF Running, Writing, WriterInv, PlaceInv
<1>3. /\ Onward(builder, builder') /\ (Fitting(builder) => Fitting(builder'))
      /\ builder'.packet # None
  <2>1. Head(todo) \in Types
    BY <1>1 DEF Types, LongTypes
  <2>2. QED
    BY <1>1, <1>2, <2>1, StartKeeps
<1>4. QED
  BY <1>1, <1>2, <1>3, StillKeeps DEF FitInv

----
(***************************************************************************)
(* Frames of an application packet.                                        *)
(***************************************************************************)

\* Of one frame written, what is owed less.
LEMMA OwedControl ==
  ASSUME WriterInv, NEW k \in FrameKinds, due[k] > 0, Frames' = Append(Frames, [kind |-> k]),
         due' = [due EXCEPT ![k] = @ - 1],
         UNCHANGED <<left, resetDue, stopDue, datagramsDue, asked, written>>,
         RequestedIsDueOrSent
  PROVE  RequestedIsDueOrSent'
<1>. DEFINE f == [kind |-> k]
<1>1. f \in FrameRecords /\ f.kind = k
  BY DEF FrameRecords, AskedKinds
<1>. HIDE DEF f
<1>2. Frames \in Seq(FrameRecords) /\ Frames' = Append(Frames, f)
  BY FramesNow DEF f
<1>3. \A kind : /\ Count(Frames, kind) \in Nat
                /\ kind = k => Count(Frames', kind) = Count(Frames, kind) + 1
                /\ kind # k => Count(Frames', kind) = Count(Frames, kind)
  BY <1>1, <1>2, TallyAppend
<1>4. \A x : Carried(Frames', x) = Carried(Frames, x)
  <2>1. k \notin {"crypto", "stream"}
    BY FrameKindsAre
  <2>2. \A x : Bytes(f, x) = 0
    BY <1>1, <2>1 DEF Bytes
  <2>3. \A x : Carried(Frames', x) = Carried(Frames, x) + Bytes(f, x) /\ Carried(Frames, x) \in Nat
    BY <1>1, <1>2, TallyAppend
  <2>4. QED
    BY <2>2, <2>3
<1>5. k \notin {"reset", "stop", "datagram"}
  BY FrameKindsAre
<1>6. ASSUME NEW kind \in FrameKinds \ {"probe"}
      PROVE  asked[kind] = due'[kind] + Count(Frames', kind)
  <2>1. asked[kind] = due[kind] + Count(Frames, kind) /\ due[kind] \in Nat /\ Count(Frames, kind) \in Nat
    BY <1>3 DEF RequestedIsDueOrSent, WriterInv, WriterTypes
  <2>2. CASE kind = k
    <3>1. due'[kind] = due[kind] - 1
      BY <2>2 DEF WriterInv, WriterTypes
    <3>2. Count(Frames', kind) = Count(Frames, kind) + 1
      BY <1>3, <2>2
    <3>3. QED
      BY <2>1, <3>1, <3>2
  <2>3. CASE kind # k
    <3>1. due'[kind] = due[kind] /\ Count(Frames', kind) = Count(Frames, kind)
      BY <1>3, <2>3 DEF WriterInv, WriterTypes
    <3>2. QED
      BY <2>1, <3>1
  <2>4. QED
    BY <2>2, <2>3
<1>7. \A kind \in {"reset", "stop", "datagram"} : Count(Frames', kind) = Count(Frames, kind)
  BY <1>3, <1>5
<1>8. QED
  BY <1>4, <1>6, <1>7 DEF RequestedIsDueOrSent

\* A CRYPTO or STREAM frame: its bytes are no longer left to be sent.
LEMMA OwedBytes ==
  ASSUME WriterInv, NEW f \in FrameRecords, f.kind \in {"crypto", "stream"},
         NEW x \in Streams, f.of = x, NEW n \in Nat, f.length = n,
         Frames' = Append(Frames, f), left' = [left EXCEPT ![x] = @ - n],
         UNCHANGED <<due, resetDue, stopDue, datagramsDue, asked, written>>,
         RequestedIsDueOrSent
  PROVE  RequestedIsDueOrSent'
<1>1. Frames \in Seq(FrameRecords)
  BY FramesNow
<1>2. /\ \A kind : f.kind # kind => Count(Frames', kind) = Count(Frames, kind)
      /\ \A y : Carried(Frames', y) = Carried(Frames, y) + Bytes(f, y) /\ Carried(Frames, y) \in Nat
  BY <1>1, TallyAppend
<1>3. \A kind \in FrameKinds \cup {"reset", "stop", "datagram"} : f.kind # kind
  BY FrameKindsAre
<1>4. \A kind \in FrameKinds \cup {"reset", "stop", "datagram"} :
         Count(Frames', kind) = Count(Frames, kind)
  BY <1>2, <1>3
<1>5. ASSUME NEW y \in Streams PROVE written[y] = left'[y] + Carried(Frames', y)
  <2>1. written[y] = left[y] + Carried(Frames, y) /\ left[y] \in Nat /\ Carried(Frames, y) \in Nat
    BY <1>2 DEF RequestedIsDueOrSent, WriterInv, WriterTypes
  <2>2. CASE y = x
    <3>1. left'[y] = left[y] - n /\ Bytes(f, y) = n
      BY <2>2 DEF WriterInv, WriterTypes, Bytes
    <3>2. QED
      BY <1>2, <2>1, <3>1
  <2>3. CASE y # x
    <3>1. left'[y] = left[y] /\ Bytes(f, y) = 0
      BY <2>3 DEF WriterInv, WriterTypes, Bytes
    <3>2. QED
      BY <1>2, <2>1, <3>1
  <2>4. QED
    BY <2>2, <2>3
<1>6. QED
  BY <1>4, <1>5 DEF RequestedIsDueOrSent

\* A frame that is asked for at most once for a stream, or kept in a list.
LEMMA OwedOnce ==
  ASSUME WriterInv, NEW k \in {"reset", "stop", "datagram"},
         Frames' = Append(Frames, [kind |-> k]),
         \/ k = "reset" /\ UNCHANGED <<stopDue, datagramsDue>>
              /\ \E x \in resetDue : resetDue' = resetDue \ {x}
         \/ k = "stop" /\ UNCHANGED <<resetDue, datagramsDue>>
              /\ \E x \in stopDue : stopDue' = stopDue \ {x}
         \/ k = "datagram" /\ UNCHANGED <<resetDue, stopDue>>
              /\ datagramsDue # << >> /\ datagramsDue' = Tail(datagramsDue),
         UNCHANGED <<due, left, asked, written>>, RequestedIsDueOrSent
  PROVE  RequestedIsDueOrSent'
<1>. DEFINE f == [kind |-> k]
<1>1. f \in FrameRecords /\ f.kind = k
  BY DEF FrameRecords, AskedKinds
<1>. HIDE DEF f
<1>2. Frames \in Seq(FrameRecords) /\ Frames' = Append(Frames, f)
  BY FramesNow DEF f
<1>3. \A kind : /\ Count(Frames, kind) \in Nat
                /\ kind = k => Count(Frames', kind) = Count(Frames, kind) + 1
                /\ kind # k => Count(Frames', kind) = Count(Frames, kind)
  BY <1>1, <1>2, TallyAppend
<1>4. \A x : Carried(Frames', x) = Carried(Frames, x)
  <2>1. \A x : Bytes(f, x) = 0
    BY <1>1 DEF Bytes
  <2>2. \A x : Carried(Frames', x) = Carried(Frames, x) + Bytes(f, x) /\ Carried(Frames, x) \in Nat
    BY <1>1, <1>2, TallyAppend
  <2>3. QED
    BY <2>1, <2>2
<1>5. k \notin FrameKinds
  BY FrameKindsAre
<1>6. \A kind \in FrameKinds : Count(Frames', kind) = Count(Frames, kind)
  BY <1>3, <1>5
<1>7. asked["reset"] = Cardinality(resetDue') + Count(Frames', "reset")
  <2>1. asked["reset"] = Cardinality(resetDue) + Count(Frames, "reset")
    BY DEF RequestedIsDueOrSent
  <2>2. CASE k = "reset"
    <3>1. PICK x \in resetDue : resetDue' = resetDue \ {x}
      BY <2>2
    <3>2. Cardinality(resetDue') = Cardinality(resetDue) - 1 /\ Cardinality(resetDue) \in Nat
      BY <3>1, FS_RemoveElement, FS_CardinalityType DEF WriterInv, WriterTypes
    <3>3. QED
      BY <1>3, <2>1, <2>2, <3>2
  <2>3. CASE k # "reset"
    BY <1>3, <2>1, <2>3
  <2>4. QED
    BY <2>2, <2>3
<1>8. asked["stop"] = Cardinality(stopDue') + Count(Frames', "stop")
  <2>1. asked["stop"] = Cardinality(stopDue) + Count(Frames, "stop")
    BY DEF RequestedIsDueOrSent
  <2>2. CASE k = "stop"
    <3>1. PICK x \in stopDue : stopDue' = stopDue \ {x}
      BY <2>2
    <3>2. Cardinality(stopDue') = Cardinality(stopDue) - 1 /\ Cardinality(stopDue) \in Nat
      BY <3>1, FS_RemoveElement, FS_CardinalityType DEF WriterInv, WriterTypes
    <3>3. QED
      BY <1>3, <2>1, <2>2, <3>2
  <2>3. CASE k # "stop"
    BY <1>3, <2>1, <2>3
  <2>4. QED
    BY <2>2, <2>3
<1>9. asked["datagram"] = Len(datagramsDue') + Count(Frames', "datagram")
  <2>1. asked["datagram"] = Len(datagramsDue) + Count(Frames, "datagram")
    BY DEF RequestedIsDueOrSent
  <2>2. CASE k = "datagram"
    <3>1. Len(datagramsDue') = Len(datagramsDue) - 1 /\ Len(datagramsDue) \in Nat
      BY <2>2, HeadTailProperties, LenProperties DEF WriterInv, WriterTypes
    <3>2. QED
      BY <1>3, <2>1, <2>2, <3>1
  <2>3. CASE k # "datagram"
    BY <1>3, <2>1, <2>3
  <2>4. QED
    BY <2>2, <2>3
<1>10. QED
  BY <1>4, <1>6, <1>7, <1>8, <1>9 DEF RequestedIsDueOrSent

\* A frame in the packet that is open.
LEMMA FrameHere ==
  ASSUME WriterInv, Writing, NEW f \in FrameRecords, NEW size \in Nat, size > 0,
         builder' = WithFrame(builder, f, size)
  PROVE  /\ Running /\ Onward(builder, builder) /\ Adds(builder, builder', f)
         /\ builder.options.malformed = None /\ Head(todo) \in {"zeroRtt", "oneRtt"}
         /\ FitInv /\ Remaining(builder) >= size => Fitting(builder')
<1>1. /\ BuilderInv(builder) /\ builder.packet # None /\ builder.options.malformed = None
      /\ Head(todo) \in {"zeroRtt", "oneRtt"}
  BY DEF WriterInv, PlaceInv
<1>2. /\ Adds(builder, builder', f)
      /\ (Fitting(builder) /\ Remaining(builder) >= size + (IF builder.options.malformed = None THEN 0 ELSE 2))
              => Fitting(builder')
  BY <1>1, FrameKeeps DEF Adds
<1>3. Remaining(builder) \in Int
  BY <1>1, Sizes DEF Remaining, BuilderInv, Shaped, Builders
<1>4. FitInv /\ Remaining(builder) >= size => Fitting(builder')
  BY <1>1, <1>2, <1>3 DEF FitInv
<1>5. QED
  BY <1>1, <1>2, <1>4, OnwardItself DEF Running, Writing

\* The ACK frame of the mapper, in 0-RTT.
LEMMA WriteZeroRttAckKeeps == ASSUME WriterInv, WriteZeroRttAck PROVE Kept
<1>. DEFINE f == [kind |-> "zeroRttAck"]
<1>1. /\ pc = "control" /\ pc' = pc /\ todo' = todo
      /\ builder' = IF Fits(builder, Capacity.ack) THEN WithFrame(builder, f, 6) ELSE builder
      /\ UNCHANGED <<scene, padAll, padACK, malformed, dueVars, turns, outbox, packetNumber, asked,
                     written>>
  BY DEF WriteZeroRttAck, Rest, historyVars
<1>2. /\ Running /\ Running' /\ Writing /\ builder.packet # None
      /\ Head(todo) \in {"zeroRtt", "oneRtt"} /\ builder.options.malformed = None
      /\ BuilderInv(builder)
  BY <1>1 DEF Running, Writing, WriterInv, PlaceInv
<1>3. f \in FrameRecords /\ f.kind = "zeroRttAck"
  BY DEF FrameRecords
<1>. HIDE DEF f
<1>4. CASE ~Fits(builder, Capacity.ack)
  BY <1>1, <1>2, <1>4, OnwardItself, StillKeeps DEF FitInv
<1>5. CASE Fits(builder, Capacity.ack)
  <2>1. builder' = WithFrame(builder, f, 6)
    BY <1>1, <1>5
  <2>2. Remaining(builder) >= 6
    <3>1. Remaining(builder) \in Int
      BY <1>2, Sizes DEF Remaining, BuilderInv, Shaped, Builders
    <3>2. Remaining(builder) >= 64
      BY <1>5 DEF Fits, Capacity, MaxAck
    <3>3. QED
      BY <3>1, <3>2
  <2>3. /\ Onward(builder, builder) /\ Adds(builder, builder', f) /\ (FitInv => Fitting(builder'))
    BY <1>2, <1>3, <2>1, <2>2, FrameHere
  <2>4. WriterTypes'
    BY <1>1 DEF WriterInv, WriterTypes, dueVars
  <2>5. RequestedIsDueOrSent /\ Frames' = Append(Frames, f) => RequestedIsDueOrSent'
    BY <1>1, <1>3, OwedOther
  <2>6. QED
    BY <1>1, <1>2, <1>3, <2>3, <2>4, <2>5, WritingKeeps
<1>6. QED
  BY <1>4, <1>5

\* An ACK frame of at most 30 ranges fits the room asked for.
LEMMA AckSizeIs ==
  ASSUME AckInv, NEW s \in Spaces, ackDue[s]
  PROVE  /\ AckSize(AckFrame(s).wire) \in Nat /\ AckSize(AckFrame(s).wire) > 0
         /\ FewRanges => AckSize(AckFrame(s).wire) <= MaxAck
         /\ [kind |-> "ack", of |-> s] \in FrameRecords
<1>. DEFINE q == ackQueue[s]
<1>1. Ascending(q) /\ q # << >> /\ q \in Seq(Ranges)
  BY DEF AckInv, AckTypes, QueueInv
<1>2. Len(q) > 0 /\ Len(q) \in Nat
  <2>. HIDE DEF q
  <2>1. QED
    BY <1>1, LenProperties, EmptySeq
<1>3. AckSize(AckFrame(s).wire) = 6 + 2 * (Len(q) - 1)
  <2>1. AckFrame(s).wire = PushAck(q)
    BY DEF AckFrame
  <2>. HIDE DEF q
  <2>2. Len(PushAck(q).rest) = Len(q) - 1
    BY <1>1, <1>2, PushAckIs
  <2>3. QED
    BY <2>1, <2>2 DEF AckSize
<1>4. FewRanges => Len(q) <= 30
  BY DEF FewRanges
<1>5. [kind |-> "ack", of |-> s] \in FrameRecords
  BY DEF FrameRecords
<1>. HIDE DEF q
<1>6. QED
  BY <1>2, <1>3, <1>4, <1>5 DEF MaxAck

\* An ACK frame in 1-RTT.
LEMMA WriteApplicationAckKeeps == ASSUME WriterInv, AckInv, WriteApplicationAck PROVE Kept
<1>. DEFINE f == [kind |-> "ack", of |-> "oneRtt"]
            size == AckSize(AckFrame("oneRtt").wire)
<1>1. /\ pc = "control" /\ pc' \in {"control", "flush"} /\ todo' = todo /\ ackDue["oneRtt"]
      /\ UNCHANGED <<scene, padAll, padACK, malformed, dueVars, turns, outbox, packetNumber, asked,
                     written>>
  BY DEF WriteApplicationAck, AckIsFirst, Rest, historyVars, choiceVars
<1>2. builder' = IF Fits(builder, Capacity.ack) THEN WithFrame(builder, f, size) ELSE builder
  BY <1>1 DEF WriteApplicationAck, WithAck
<1>3. /\ Running /\ Running' /\ Writing /\ builder.packet # None
      /\ Head(todo) \in {"zeroRtt", "oneRtt"} /\ builder.options.malformed = None
      /\ BuilderInv(builder)
  BY <1>1 DEF Running, Writing, WriterInv, PlaceInv
<1>4. /\ size \in Nat /\ size > 0 /\ (FewRanges => size <= MaxAck) /\ f \in FrameRecords
      /\ f.kind = "ack"
  BY <1>1, AckSizeIs, ThreeSpaces
<1>. HIDE DEF f, size
<1>5. CASE ~Fits(builder, Capacity.ack)
  BY <1>1, <1>2, <1>3, <1>5, OnwardItself, StillKeeps DEF FitInv
<1>6. CASE Fits(builder, Capacity.ack)
  <2>1. builder' = WithFrame(builder, f, size)
    BY <1>2, <1>6
  <2>2. FewRanges => Remaining(builder) >= size
    <3>1. Remaining(builder) \in Int
      BY <1>3, Sizes DEF Remaining, BuilderInv, Shaped, Builders
    <3>2. Remaining(builder) >= 64
      BY <1>6 DEF Fits, Capacity, MaxAck
    <3>3. QED
      BY <1>4, <3>1, <3>2 DEF MaxAck
  <2>3. /\ Onward(builder, builder) /\ Adds(builder, builder', f)
        /\ (FewRanges /\ FitInv => Fitting(builder'))
    BY <1>3, <1>4, <2>1, <2>2, FrameHere
  <2>4. WriterTypes'
    BY <1>1 DEF WriterInv, WriterTypes, dueVars
  <2>5. RequestedIsDueOrSent /\ Frames' = Append(Frames, f) => RequestedIsDueOrSent'
    BY <1>1, <1>4, OwedOther
  <2>6. QED
    BY <1>1, <1>3, <1>4, <2>3, <2>4, <2>5, WritingKeeps
<1>7. QED
  BY <1>5, <1>6

\* A frame of the connection fits the room asked for.
LEMMA SizesOfKinds ==
  ASSUME NEW k \in FrameKinds
  PROVE  Size[k] \in Nat /\ Size[k] > 0 /\ Capacity[k] \in Nat /\ Size[k] <= Capacity[k]
<1>1. k \in {"done", "challenge", "response", "newId", "retire", "blocked", "limit",
             "streamLimit", "ping", "probe"}
  BY FrameKindsAre
<1>2. QED
  BY <1>1 DEF Size, Capacity

\* A frame of the connection, which is then no longer due; or none, without room.
LEMMA WriteControlKeeps == ASSUME WriterInv, WriteControl PROVE Kept
<1>. DEFINE k == NextKinds[Min(DueKinds)]
            f == [kind |-> k]
<1>1. /\ pc = "control" /\ todo' = todo /\ DueKinds # {}
      /\ UNCHANGED <<scene, padAll, padACK, malformed, left, resetDue, stopDue, datagramsDue, turns,
                     outbox, packetNumber, asked, written>>
      /\ IF Fits(builder, Capacity[k])
           THEN /\ builder' = WithFrame(builder, f, Size[k])
                /\ due' = [due EXCEPT ![k] = @ - 1] /\ pc' = pc
           ELSE builder' = builder /\ due' = due /\ pc' = "flush"
      /\ endDue' = endDue
  BY DEF WriteControl, Rest, historyVars, choiceVars
<1>2. k \in FrameKinds /\ due[k] > 0
  <2>1. NextKinds \in Seq(FrameKinds)
    <3>1. EarlyKinds \in Seq(FrameKinds) /\ LateKinds \in Seq(FrameKinds)
      BY FrameKindsAre DEF EarlyKinds, LateKinds
    <3>2. QED
      BY <3>1, ConcatProperties, EmptySeq DEF NextKinds
  <2>2. DueKinds \in SUBSET Nat /\ DueKinds \subseteq DOMAIN NextKinds
    BY <2>1, LenProperties DEF DueKinds
  <2>3. Min(DueKinds) \in DueKinds
    BY <1>1, <2>2, MinIsLeast
  <2>4. QED
    BY <2>1, <2>2, <2>3, ElementOfSeq, LenProperties DEF DueKinds
<1>3. /\ Running /\ Running' /\ Writing /\ builder.packet # None
      /\ Head(todo) \in {"zeroRtt", "oneRtt"} /\ builder.options.malformed = None
      /\ BuilderInv(builder)
  BY <1>1 DEF Running, Writing, WriterInv, PlaceInv
<1>4. Size[k] \in Nat /\ Size[k] > 0 /\ Capacity[k] \in Nat /\ Size[k] <= Capacity[k]
  BY <1>2, SizesOfKinds
<1>5. f \in FrameRecords
  BY <1>2 DEF FrameRecords, AskedKinds
<1>. HIDE DEF k, f
<1>6. CASE ~Fits(builder, Capacity[k])
  <2>1. UNCHANGED dueVars
    BY <1>1, <1>6 DEF dueVars
  <2>2. QED
    BY <1>1, <1>3, <1>6, <2>1, OnwardItself, StillKeeps DEF FitInv
<1>7. CASE Fits(builder, Capacity[k])
  <2>1. builder' = WithFrame(builder, f, Size[k]) /\ due' = [due EXCEPT ![k] = @ - 1]
    BY <1>1, <1>7
  <2>2. Remaining(builder) >= Size[k]
    <3>1. Remaining(builder) \in Int
      BY <1>3, Sizes DEF Remaining, BuilderInv, Shaped, Builders
    <3>2. Remaining(builder) >= Capacity[k]
      BY <1>7 DEF Fits
    <3>3. QED
      BY <1>4, <3>1, <3>2
  <2>3. /\ Onward(builder, builder) /\ Adds(builder, builder', f)
        /\ (FitInv => Fitting(builder'))
    BY <1>3, <1>4, <1>5, <2>1, <2>2, FrameHere
  <2>4. WriterTypes'
    <3>1. due' \in [FrameKinds -> Nat]
      <4>1. due \in [FrameKinds -> Nat] /\ due[k] - 1 \in Nat
        BY <1>2 DEF WriterInv, WriterTypes
      <4>2. QED
        BY <2>1, <4>1
    <3>2. QED
      BY <1>1, <3>1 DEF WriterInv, WriterTypes
  <2>5. RequestedIsDueOrSent /\ Frames' = Append(Frames, f) => RequestedIsDueOrSent'
    BY <1>1, <1>2, <2>1, OwedControl DEF f
  <2>6. QED
    BY <1>1, <1>3, <1>5, <2>3, <2>4, <2>5, WritingKeeps
<1>8. QED
  BY <1>6, <1>7

\* get_frame gives out no more than is left and than fits.
LEMMA FragmentIs ==
  ASSUME NEW b, b.pos \in Nat, NEW x, left[x] \in Nat, NEW overhead \in Nat
  PROVE  LET n == Fragment(b, x, overhead) IN
         n \in Nat /\ n <= left[x] /\ (n > 0 => n + overhead <= Remaining(b))
<1>1. Remaining(b) \in Int
  BY Sizes DEF Remaining
<1>. DEFINE n == Fragment(b, x, overhead)
            l == left[x]
            r == Remaining(b)
            m == IF l < r - overhead THEN l ELSE r - overhead
<1>2. n = IF 0 < m THEN m ELSE 0
  BY DEF Fragment, Larger, Smaller
<1>3. l \in Nat /\ r \in Int
  BY <1>1
<1>. HIDE DEF n, l, r
<1>4. n \in Nat /\ n <= l /\ (n > 0 => n + overhead <= r)
  BY <1>2, <1>3
<1>5. QED
  BY <1>4 DEF n, l, r

\* The offset of a frame takes at least a byte.
LEMMA OffsetSizeIs == \A n : OffsetSize(n) \in Nat /\ OffsetSize(n) > 0
BY DEF OffsetSize

\* CRYPTO data goes into the open packet if there is any and it fits.
LEMMA CryptoKeeps ==
  ASSUME WriterTypes, NEW b, BuilderInv(b), b.packet # None, NEW x \in Epochs
  PROVE  LET n == Fragment(b, x, CryptoOverhead(x))
             c == WithCrypto(b, x)
         IN /\ n \in Nat /\ n <= left[x]
            /\ n = 0 => c = b
            /\ n > 0 => \E f \in FrameRecords :
                 /\ Adds(b, c, f) /\ f.kind = "crypto" /\ f.of = x /\ f.length = n
                 /\ Fitting(b) /\ b.options.malformed = None => Fitting(c)
<1>. DEFINE o == CryptoOverhead(x)
            n == Fragment(b, x, o)
            c == WithCrypto(b, x)
            f == [kind |-> "crypto", of |-> x, length |-> n]
<1>1. x \in Streams /\ left[x] \in Nat /\ b.pos \in Nat
  BY DEF WriterTypes, Streams, BuilderInv, Shaped, Builders
<1>2. o \in Nat
  BY OffsetSizeIs DEF CryptoOverhead
<1>3. c = IF n = 0 THEN b ELSE WithFrame(b, f, o + n)
  BY DEF WithCrypto
<1>. HIDE DEF o, c
<1>4. n \in Nat /\ n <= left[x] /\ (n > 0 => n + o <= Remaining(b))
  BY <1>1, <1>2, FragmentIs
<1>. HIDE DEF n
<1>5. f \in FrameRecords /\ f.kind = "crypto" /\ f.of = x /\ f.length = n
  BY <1>4 DEF FrameRecords
<1>. HIDE DEF f
<1>6. ASSUME n > 0
      PROVE  /\ Adds(b, c, f)
             /\ Fitting(b) /\ b.options.malformed = None => Fitting(c)
  <2>. DEFINE size == o + n
  <2>1. size \in Nat /\ size > 0 /\ c = WithFrame(b, f, size) /\ n + o = size
    BY <1>2, <1>3, <1>4, <1>6
  <2>. HIDE DEF size
  <2>2. Remaining(b) >= size /\ Remaining(b) \in Int
    BY <1>1, <1>4, <1>6, <2>1, Sizes DEF Remaining
  <2>3. /\ Adds(b, c, f)
        /\ (Fitting(b) /\ Remaining(b) >= size + (IF b.options.malformed = None THEN 0 ELSE 2))
              => Fitting(c)
    BY <1>5, <2>1, FrameKeeps DEF Adds
  <2>4. QED
    BY <2>1, <2>2, <2>3
<1>7. QED
  BY <1>3, <1>4, <1>5, <1>6 DEF n, o, c

\* CRYPTO data in 1-RTT.
LEMMA ControlWrittenKeeps == ASSUME WriterInv, ControlWritten PROVE Kept
<1>. DEFINE e == Head(todo)
            n == Fragment(builder, e, CryptoOverhead(e))
<1>1. /\ pc = "control" /\ pc' = "datagrams" /\ todo' = todo
      /\ builder' = WithCrypto(builder, e) /\ left' = [left EXCEPT ![e] = @ - n]
      /\ UNCHANGED <<scene, padAll, padACK, malformed, due, endDue, resetDue, stopDue, datagramsDue,
                     turns, outbox, packetNumber, asked, written>>
  BY DEF ControlWritten, Rest, historyVars, choiceVars
<1>2. /\ Running /\ Running' /\ Writing /\ builder.packet # None
      /\ e \in {"zeroRtt", "oneRtt"} /\ builder.options.malformed = None
      /\ BuilderInv(builder)
  BY <1>1 DEF Running, Writing, WriterInv, PlaceInv
<1>3. e \in Epochs /\ e \in Streams
  BY <1>2 DEF Epochs, Streams
<1>4. /\ n \in Nat /\ n <= left[e]
      /\ n = 0 => builder' = builder
      /\ n > 0 => \E f \in FrameRecords :
           /\ Adds(builder, builder', f) /\ f.kind = "crypto" /\ f.of = e /\ f.length = n
           /\ Fitting(builder) /\ builder.options.malformed = None => Fitting(builder')
  BY <1>1, <1>2, <1>3, CryptoKeeps DEF WriterInv
<1>. HIDE DEF n
<1>5. left \in [Streams -> Nat] /\ left[e] \in Nat
  BY <1>3 DEF WriterInv, WriterTypes
<1>6. CASE n = 0
  <2>1. left' = left
    <3>1. left[e] - n = left[e]
      BY <1>5, <1>6
    <3>2. QED
      BY <1>1, <1>5, <3>1
  <2>2. UNCHANGED dueVars
    BY <1>1, <2>1 DEF dueVars
  <2>3. QED
    BY <1>1, <1>2, <1>4, <1>6, <2>2, OnwardItself, StillKeeps DEF FitInv
<1>7. CASE n # 0
  <2>1. PICK f \in FrameRecords :
           /\ Adds(builder, builder', f) /\ f.kind = "crypto" /\ f.of = e /\ f.length = n
           /\ Fitting(builder) /\ builder.options.malformed = None => Fitting(builder')
    BY <1>4, <1>7
  <2>2. WriterTypes'
    <3>1. left' \in [Streams -> Nat]
      <4>1. left[e] - n \in Nat
        BY <1>4, <1>5
      <4>2. QED
        BY <1>1, <1>5, <4>1
    <3>2. QED
      BY <1>1, <3>1 DEF WriterInv, WriterTypes
  <2>3. RequestedIsDueOrSent /\ Frames' = Append(Frames, f) => RequestedIsDueOrSent'
    BY <1>1, <1>3, <1>4, <2>1, OwedBytes
  <2>4. QED
    BY <1>1, <1>2, <2>1, <2>2, <2>3, OnwardItself, WritingKeeps DEF FitInv
<1>8. QED
  BY <1>6, <1>7

\* A DATAGRAM frame, or the end of them.
LEMMA WriteDatagramKeeps == ASSUME WriterInv, WriteDatagram PROVE Kept
<1>. DEFINE f == [kind |-> "datagram"]
            size == DatagramSize(Head(datagramsDue))
            fits == datagramsDue # << >> /\ Fits(builder, size)
<1>1. /\ pc = "datagrams" /\ pc' \in {"datagrams", "streams"} /\ todo' = todo
      /\ IF fits THEN /\ builder' = WithFrame(builder, f, size)
                      /\ datagramsDue' = Tail(datagramsDue) /\ turns' = turns
         ELSE turns' = StreamOrder /\ UNCHANGED <<builder, datagramsDue>>
      /\ UNCHANGED <<scene, padAll, padACK, malformed, due, left, endDue, resetDue, stopDue,
                     outbox, packetNumber, asked, written>>
  BY DEF WriteDatagram, Rest, historyVars, choiceVars
<1>2. /\ Running /\ Running' /\ Writing /\ builder.packet # None
      /\ Head(todo) \in {"zeroRtt", "oneRtt"} /\ builder.options.malformed = None
      /\ BuilderInv(builder)
  BY <1>1 DEF Running, Writing, WriterInv, PlaceInv
<1>3. f \in FrameRecords
  BY DEF FrameRecords, AskedKinds
<1>. HIDE DEF f
<1>4. StreamOrder \in Seq(Range(StreamOrder))
  <2>1. StreamOrder \in Seq(STRING)
    BY ScenesAssumption
  <2>2. Len(StreamOrder) \in Nat /\ DOMAIN StreamOrder = 1..Len(StreamOrder)
        /\ StreamOrder = [i \in 1..Len(StreamOrder) |-> StreamOrder[i]]
    BY <2>1, LenProperties
  <2>3. \A i \in 1..Len(StreamOrder) : StreamOrder[i] \in Range(StreamOrder)
    BY <2>2 DEF Range
  <2>4. QED
    BY <2>2, <2>3
<1>5. CASE ~fits
  <2>1. /\ turns' \in Seq(Range(StreamOrder)) /\ builder' = builder /\ UNCHANGED dueVars
    BY <1>1, <1>4, <1>5 DEF dueVars
  <2>2. WriterTypes'
    BY <1>1, <2>1 DEF WriterInv, WriterTypes, dueVars
  <2>. HIDE DEF fits
  <2>3. QED
    BY <1>1, <1>2, <2>1, <2>2, StillKeepsTurning, OnwardItself DEF FitInv
<1>6. CASE fits
  <2>1. /\ datagramsDue # << >> /\ Fits(builder, size) /\ builder' = WithFrame(builder, f, size)
        /\ datagramsDue' = Tail(datagramsDue) /\ turns' = turns
    BY <1>1, <1>6
  <2>2. Head(datagramsDue) \in Nat /\ Tail(datagramsDue) \in Seq(Nat)
    BY <2>1, HeadTailProperties DEF WriterInv, WriterTypes
  <2>3. size \in Nat /\ size > 0
    BY <2>2, OffsetSizeIs DEF DatagramSize
  <2>4. Remaining(builder) >= size
    BY <2>1 DEF Fits
  <2>. HIDE DEF size, fits
  <2>5. /\ Onward(builder, builder) /\ Adds(builder, builder', f)
        /\ (FitInv => Fitting(builder'))
    BY <1>2, <1>3, <2>1, <2>3, <2>4, FrameHere
  <2>6. WriterTypes'
    BY <1>1, <2>1, <2>2 DEF WriterInv, WriterTypes
  <2>7. RequestedIsDueOrSent /\ Frames' = Append(Frames, f) => RequestedIsDueOrSent'
    BY <1>1, <2>1, OwedOnce DEF f
  <2>8. QED
    BY <1>1, <1>2, <1>3, <2>5, <2>6, <2>7, WritingKeeps
<1>7. QED
  BY <1>5, <1>6

\* STOP_SENDING and RESET_STREAM alike.
LEMMA AbortFrameKeeps ==
  ASSUME WriterInv, WriteStop \/ WriteReset PROVE Kept
<1>. DEFINE k == IF WriteStop THEN "stop" ELSE "reset"
            f == [kind |-> k]
            size == Size[k]
<1>1. /\ pc = "streams" /\ pc' \in {"streams", "flush"} /\ todo' = todo /\ turns # << >>
      /\ turns' = turns \/ turns' = Tail(turns)
      /\ UNCHANGED <<scene, padAll, padACK, malformed, due, left, endDue, datagramsDue,
                     outbox, packetNumber, asked, written>>
  BY DEF WriteStop, WriteReset, Rest, historyVars, choiceVars
<1>2. \/ builder' = builder /\ UNCHANGED <<resetDue, stopDue>>
      \/ /\ builder' = WithFrame(builder, f, size) /\ Fits(builder, Capacity[k])
         /\ \/ k = "reset" /\ stopDue' = stopDue /\ \E x \in resetDue : resetDue' = resetDue \ {x}
            \/ k = "stop" /\ resetDue' = resetDue /\ \E x \in stopDue : stopDue' = stopDue \ {x}
  <2>1. CASE WriteStop
    <3>1. k = "stop" /\ f = [kind |-> "stop"] /\ size = Size.stop
      BY <2>1
    <3>2. Head(turns) \in stopDue
      BY <2>1 DEF WriteStop
    <3>3. CASE Fits(builder, Capacity.stop)
      BY <2>1, <3>1, <3>2, <3>3 DEF WriteStop
    <3>4. CASE ~Fits(builder, Capacity.stop)
      BY <2>1, <3>4 DEF WriteStop
    <3>5. QED
      BY <3>3, <3>4
  <2>2. CASE ~WriteStop
    <3>1. k = "reset" /\ f = [kind |-> "reset"] /\ size = Size.reset /\ WriteReset
      BY <2>2
    <3>2. Head(turns) \in resetDue
      BY <3>1 DEF WriteReset
    <3>3. CASE Fits(builder, Capacity.reset)
      BY <3>1, <3>2, <3>3 DEF WriteReset
    <3>4. CASE ~Fits(builder, Capacity.reset)
      BY <3>1, <3>4 DEF WriteReset
    <3>5. QED
      BY <3>3, <3>4
  <2>3. QED
    BY <2>1, <2>2
<1>3. /\ Running /\ Running' /\ Writing /\ builder.packet # None
      /\ Head(todo) \in {"zeroRtt", "oneRtt"} /\ builder.options.malformed = None
      /\ BuilderInv(builder)
  BY <1>1 DEF Running, Writing, WriterInv, PlaceInv
<1>4. k \in {"reset", "stop"} /\ f \in FrameRecords /\ size \in Nat /\ size > 0
      /\ Capacity[k] \in Nat /\ size <= Capacity[k]
  BY DEF FrameRecords, AskedKinds, Size, Capacity
<1>5. turns' \in Seq(Range(StreamOrder))
  BY <1>1, HeadTailProperties DEF WriterInv, WriterTypes
<1>6. IsFiniteSet(resetDue') /\ IsFiniteSet(stopDue')
  BY <1>2, FS_RemoveElement DEF WriterInv, WriterTypes
<1>7. WriterTypes'
  BY <1>1, <1>5, <1>6 DEF WriterInv, WriterTypes
<1>. HIDE DEF k, size
<1>8. CASE builder' = builder /\ UNCHANGED <<resetDue, stopDue>>
  <2>1. UNCHANGED dueVars
    BY <1>1, <1>8 DEF dueVars
  <2>2. QED
    BY <1>1, <1>3, <1>7, <1>8, <2>1, StillKeepsTurning, OnwardItself DEF FitInv
<1>9. CASE /\ builder' = WithFrame(builder, f, size) /\ Fits(builder, Capacity[k])
           /\ \/ k = "reset" /\ stopDue' = stopDue /\ \E x \in resetDue : resetDue' = resetDue \ {x}
              \/ k = "stop" /\ resetDue' = resetDue /\ \E x \in stopDue : stopDue' = stopDue \ {x}
  <2>1. Remaining(builder) >= size
    <3>1. Remaining(builder) \in Int
      BY <1>3, Sizes DEF Remaining, BuilderInv, Shaped, Builders
    <3>2. Remaining(builder) >= Capacity[k]
      BY <1>9 DEF Fits
    <3>3. QED
      BY <1>4, <3>1, <3>2
  <2>2. /\ Onward(builder, builder) /\ Adds(builder, builder', f)
        /\ (FitInv => Fitting(builder'))
    <3>. HIDE DEF f
    <3>1. QED
      BY <1>3, <1>4, <1>9, <2>1, FrameHere
  <2>3. RequestedIsDueOrSent /\ Frames' = Append(Frames, f) => RequestedIsDueOrSent'
    <3>1. ASSUME RequestedIsDueOrSent, Frames' = Append(Frames, f) PROVE RequestedIsDueOrSent'
      <4>1. k \in {"reset", "stop", "datagram"} /\ Frames' = Append(Frames, [kind |-> k])
        BY <1>4, <3>1
      <4>2. QED
        BY <1>1, <1>9, <3>1, <4>1, OwedOnce
    <3>2. QED
      BY <3>1
  <2>. HIDE DEF f
  <2>4. QED
    BY <1>1, <1>3, <1>4, <1>7, <2>2, <2>3, WritingKeeps
<1>10. QED
  BY <1>2, <1>8, <1>9

\* A STREAM frame, with or without the FIN bit.
LEMMA StreamFrameIs ==
  ASSUME NEW x \in Streams, NEW n \in Nat, NEW fin \in BOOLEAN, NEW f, f = StreamFrame(x, n, fin)
  PROVE  f \in FrameRecords /\ f.kind = "stream" /\ f.of = x /\ f.length = n
<1>1. f = [kind |-> "stream", of |-> x, length |-> n, fin |-> fin]
  BY DEF StreamFrame
<1>2. QED
  BY <1>1 DEF FrameRecords

\* A STREAM frame, or none; the end of a stream may be taken without one.
LEMMA WriteStreamKeeps == ASSUME WriterInv, WriteStream PROVE Kept
<1>. DEFINE x == Head(turns)
            o == StreamOverhead(x)
            n == Fragment(builder, x, o)
            fin == x \in endDue /\ n = left[x]
            f == StreamFrame(x, n, fin)
            writes == n > 0 \/ (fin /\ Fits(builder, o))
<1>1. /\ pc = "streams" /\ pc' \in {"streams", "flush"} /\ todo' = todo /\ turns # << >>
      /\ turns' = turns \/ turns' = Tail(turns)
      /\ UNCHANGED <<scene, padAll, padACK, malformed, due, resetDue, stopDue, datagramsDue,
                     outbox, packetNumber, asked, written>>
      /\ writes => builder' = WithFrame(builder, f, o + n) /\ left' = [left EXCEPT ![x] = @ - n]
      /\ ~writes => builder' = builder /\ left' = left
  BY DEF WriteStream, Rest, historyVars, choiceVars
<1>2. /\ Running /\ Running' /\ Writing /\ builder.packet # None
      /\ Head(todo) \in {"zeroRtt", "oneRtt"} /\ builder.options.malformed = None
      /\ BuilderInv(builder) /\ builder.pos \in Nat
  BY <1>1 DEF Running, Writing, WriterInv, PlaceInv, BuilderInv, Shaped, Builders
<1>3. x \in Range(StreamOrder) /\ turns' \in Seq(Range(StreamOrder))
  <2>1. turns \in Seq(Range(StreamOrder)) /\ turns # << >>
    BY <1>1 DEF WriterInv, WriterTypes
  <2>2. x \in Range(StreamOrder) /\ Tail(turns) \in Seq(Range(StreamOrder))
    BY <2>1, HeadTailProperties
  <2>3. QED
    BY <1>1, <2>1, <2>2
<1>4. x \in Streams /\ left \in [Streams -> Nat] /\ left[x] \in Nat
  BY <1>3 DEF Streams, WriterInv, WriterTypes
<1>5. o \in Nat /\ o > 0
  BY OffsetSizeIs DEF StreamOverhead
<1>6. n \in Nat /\ n <= left[x] /\ (n > 0 => n + o <= Remaining(builder))
  <2>. HIDE DEF x, o
  <2>1. QED
    BY <1>2, <1>4, <1>5, FragmentIs
<1>7. f \in FrameRecords /\ f.kind = "stream" /\ f.of = x /\ f.length = n
  <2>1. x \in Streams /\ n \in Nat /\ fin \in BOOLEAN
    BY <1>4, <1>6
  <2>2. f = StreamFrame(x, n, fin)
    OBVIOUS
  <2>. HIDE DEF x, n, fin, f
  <2>3. QED
    BY <2>1, <2>2, StreamFrameIs
<1>8. /\ writes => o + n <= Remaining(builder)
  <2>1. ASSUME ~(n > 0), Fits(builder, o) PROVE n = 0 /\ o <= Remaining(builder)
    <3>. HIDE DEF n, o
    <3>1. QED
      BY <1>6, <2>1 DEF Fits
  <2>2. Remaining(builder) \in Int
    BY <1>2, Sizes DEF Remaining
  <2>3. CASE n > 0
    <3>. HIDE DEF n, o
    <3>1. QED
      BY <1>5, <1>6, <2>2, <2>3
  <2>4. CASE ~(n > 0) /\ writes
    <3>1. Fits(builder, o) /\ n = 0 /\ o <= Remaining(builder)
      BY <2>1, <2>4
    <3>. HIDE DEF n, o
    <3>2. o + n <= Remaining(builder)
      BY <1>5, <2>2, <3>1
    <3>3. QED
      BY <3>2
  <2>5. QED
    BY <2>3, <2>4
<1>. HIDE DEF x, o, n, fin, f, writes
<1>9. WriterTypes'
  <2>1. left' \in [Streams -> Nat]
    <3>1. left[x] - n \in Nat
      BY <1>4, <1>6
    <3>2. QED
      BY <1>1, <1>4, <3>1
  <2>2. QED
    BY <1>1, <1>3, <2>1 DEF WriterInv, WriterTypes
<1>10. CASE ~writes
  <2>1. builder' = builder /\ left' = left
    BY <1>1, <1>10
  <2>2. /\ Frames' = Frames /\ BuilderInv(builder') /\ (NumberingInv => NumberingInv')
        /\ \A i \in 1..Len(outbox') : WellMade(outbox'[i])
    BY <1>1, <1>2, <2>1, OnwardItself, Went
  <2>3. WriterInv'
    BY <1>1, <1>2, <1>9, <2>1, <2>2 DEF WriterInv, PlaceInv
  <2>4. RequestedIsDueOrSent => RequestedIsDueOrSent'
    BY <1>1, <2>1, <2>2 DEF RequestedIsDueOrSent
  <2>5. FitInv => FitInv'
    BY <1>1, <2>1 DEF FitInv
  <2>6. QED
    BY <2>2, <2>3, <2>4, <2>5 DEF Kept
<1>11. CASE writes
  <2>. DEFINE size == o + n
  <2>1. size \in Nat /\ size > 0 /\ Remaining(builder) >= size
    <3>1. Remaining(builder) \in Int
      BY <1>2, Sizes DEF Remaining
    <3>2. QED
      BY <1>5, <1>6, <1>8, <1>11, <3>1
  <2>2. builder' = WithFrame(builder, f, size) /\ left' = [left EXCEPT ![x] = @ - n]
    BY <1>1, <1>11
  <2>. HIDE DEF size
  <2>3. /\ Onward(builder, builder) /\ Adds(builder, builder', f)
        /\ (FitInv => Fitting(builder'))
    BY <1>2, <1>7, <2>1, <2>2, FrameHere
  <2>4. RequestedIsDueOrSent /\ Frames' = Append(Frames, f) => RequestedIsDueOrSent'
    BY <1>1, <1>4, <1>6, <1>7, <2>2, OwedBytes
  <2>5. QED
    BY <1>1, <1>2, <1>7, <1>9, <2>3, <2>4, WritingKeeps
<1>12. QED
  BY <1>10, <1>11

----
(***************************************************************************)
(* Packets of the handshake.                                               *)
(***************************************************************************)

\* w has the packets of b with frames more, which carry n bytes of x and nothing else
\* that was asked for.
Carries(past, b, w, x, n) ==
  /\ BuilderInv(w) /\ w.packet # None /\ w.options = b.options
  /\ \A kind \in AskedKinds \ {"probe"} :
       Count(FramesIn(past, w), kind) = Count(FramesIn(past, b), kind)
  /\ \A y : Carried(FramesIn(past, w), y) =
              Carried(FramesIn(past, b), y) + (IF y = x THEN n ELSE 0)
  /\ Numbered(Sealed(past, b), b.number) => Numbered(Sealed(past, w), w.number)

\* A packet that is started carries nothing yet.
LEMMA CarriesNothing ==
  ASSUME NEW past \in Seq(Packets), NEW b, BuilderInv(b), NEW w, Onward(b, w), w.packet # None,
         NEW x
  PROVE  Carries(past, b, w, x, 0)
<1>1. /\ FramesIn(past, w) = FramesIn(past, b) /\ FramesIn(past, b) \in Seq(FrameRecords)
      /\ Numbered(Sealed(past, b), b.number) => Numbered(Sealed(past, w), w.number)
  BY OnwardFrames, FramesInType
<1>2. \A y : Carried(FramesIn(past, b), y) \in Nat
  BY <1>1, CarriedType
<1>3. \A y : Carried(FramesIn(past, w), y)
               = Carried(FramesIn(past, b), y) + (IF y = x THEN 0 ELSE 0)
  BY <1>1, <1>2
<1>4. QED
  BY <1>1, <1>3 DEF Carries, Onward

\* Neither ACK nor PING stand for anything that was asked for.
LEMMA CarriesOther ==
  ASSUME NEW past \in Seq(Packets), NEW b, BuilderInv(b), NEW x, NEW n \in Nat,
         NEW v, Carries(past, b, v, x, n), NEW f \in FrameRecords, NEW w, Adds(v, w, f),
         f.kind \in {"ack", "probe"}
  PROVE  Carries(past, b, w, x, n)
<1>1. BuilderInv(v) /\ FramesIn(past, v) \in Seq(FrameRecords)
  BY FramesInType DEF Carries
<1>2. /\ FramesIn(past, w) = Append(FramesIn(past, v), f)
      /\ Numbered(Sealed(past, v), v.number) => Numbered(Sealed(past, w), w.number)
  BY <1>1, AddedFrames
<1>3. /\ \A kind : f.kind # kind => Count(FramesIn(past, w), kind) = Count(FramesIn(past, v), kind)
      /\ \A y : /\ Carried(FramesIn(past, w), y) = Carried(FramesIn(past, v), y) + Bytes(f, y)
                /\ Carried(FramesIn(past, v), y) \in Nat
  BY <1>1, <1>2, TallyAppend
<1>4. (\A kind \in AskedKinds \ {"probe"} : f.kind # kind) /\ \A y : Bytes(f, y) = 0
  BY KindsAre DEF Bytes
<1>5. \A y : Carried(FramesIn(past, w), y) = Carried(FramesIn(past, v), y)
  BY <1>3, <1>4
<1>6. \A kind \in AskedKinds \ {"probe"} :
         Count(FramesIn(past, w), kind) = Count(FramesIn(past, v), kind)
  BY <1>3, <1>4
<1>7. QED
  BY <1>2, <1>5, <1>6 DEF Carries, Adds

\* A CRYPTO frame carries the bytes that were left.
LEMMA CarriesBytes ==
  ASSUME NEW past \in Seq(Packets), NEW b, BuilderInv(b), NEW x, NEW n \in Nat,
         NEW v, Carries(past, b, v, x, 0), NEW f \in FrameRecords, NEW w, Adds(v, w, f),
         f.kind = "crypto", f.of = x, f.length = n
  PROVE  Carries(past, b, w, x, n)
<1>1. BuilderInv(v) /\ FramesIn(past, v) \in Seq(FrameRecords) /\ FramesIn(past, b) \in Seq(FrameRecords)
  BY FramesInType DEF Carries
<1>2. /\ FramesIn(past, w) = Append(FramesIn(past, v), f)
      /\ Numbered(Sealed(past, v), v.number) => Numbered(Sealed(past, w), w.number)
  BY <1>1, AddedFrames
<1>3. /\ \A kind : f.kind # kind => Count(FramesIn(past, w), kind) = Count(FramesIn(past, v), kind)
      /\ \A y : /\ Carried(FramesIn(past, w), y) = Carried(FramesIn(past, v), y) + Bytes(f, y)
                /\ Carried(FramesIn(past, v), y) \in Nat
  BY <1>1, <1>2, TallyAppend
<1>4. \A y : Bytes(f, y) = IF y = x THEN n ELSE 0
  BY DEF Bytes
<1>5. \A kind \in AskedKinds \ {"probe"} : f.kind # kind
  BY FrameKindsAre DEF AskedKinds
<1>6. \A y : /\ Carried(FramesIn(past, v), y) = Carried(FramesIn(past, b), y) + (IF y = x THEN 0 ELSE 0)
             /\ Carried(FramesIn(past, b), y) \in Nat
  BY <1>1, CarriedType DEF Carries
<1>7. ASSUME NEW y
      PROVE  Carried(FramesIn(past, w), y) = Carried(FramesIn(past, b), y) + (IF y = x THEN n ELSE 0)
  <2>1. /\ Carried(FramesIn(past, v), y) = Carried(FramesIn(past, b), y)
        /\ Carried(FramesIn(past, w), y) = Carried(FramesIn(past, v), y) + Bytes(f, y)
        /\ Bytes(f, y) = IF y = x THEN n ELSE 0
    BY <1>3, <1>4, <1>6
  <2>2. QED
    BY <2>1
<1>8. \A kind \in AskedKinds \ {"probe"} :
         Count(FramesIn(past, w), kind) = Count(FramesIn(past, v), kind)
  BY <1>3, <1>5
<1>9. QED
  BY <1>2, <1>7, <1>8 DEF Carries, Adds

\* The frames of a handshake packet: an ACK frame, CRYPTO data or else a PING.
LEMMA HandshakeFrames ==
  ASSUME WriterInv, AckInv, NEW e \in {"initial", "handshake"}, builder.options \in Options,
         builder.options.malformed = None, NEW pings \in BOOLEAN
  PROVE  LET told == WithAck(StartPacket(builder, e, TRUE), e)
             n == Fragment(told, e, CryptoOverhead(e))
             w == WithPing(WithCrypto(told, e), pings)
         IN /\ n \in Nat /\ n <= left[e] /\ Carries(SentPackets, builder, w, e, n)
            /\ (FewRanges /\ Fitting(builder) /\ (pings => n = 0)) => Fitting(w)
<1>. DEFINE start == StartPacket(builder, e, TRUE)
            size == AckSize(AckFrame(e).wire)
            ack == [kind |-> "ack", of |-> e]
            told == WithAck(start, e)
            n == Fragment(told, e, CryptoOverhead(e))
            wrote == WithCrypto(told, e)
            ping == [kind |-> "probe"]
            w == WithPing(wrote, pings)
<1>1. /\ SentPackets \in Seq(Packets) /\ BuilderInv(builder) /\ WriterTypes
      /\ e \in Types /\ e \in Spaces /\ e \in Epochs
  BY FramesNow, ThreeSpaces DEF WriterInv, Types, LongTypes, Epochs
<1>2. /\ BuilderInv(start) /\ start.packet # None /\ start.options = builder.options
      /\ Carries(SentPackets, builder, start, e, 0)
      /\ Fitting(builder) => Fitting(start) /\ Remaining(start) >= MaxClose + MaxAck
  <2>1. /\ Onward(builder, start) /\ start.packet # None
        /\ Fitting(builder) => Fitting(start) /\ Remaining(start) >= MaxClose + MaxAck
    BY <1>1, StartKeeps
  <2>. HIDE DEF start
  <2>2. QED
    BY <1>1, <2>1, CarriesNothing DEF Onward
<1>3. told = IF ackDue[e] THEN WithFrame(start, ack, size) ELSE start
  BY DEF WithAck
<1>4. ackDue[e] => size \in Nat /\ size > 0 /\ (FewRanges => size <= MaxAck) /\ ack \in FrameRecords
  BY <1>1, AckSizeIs
<1>5. ack.kind = "ack"
  OBVIOUS
<1>. HIDE DEF start, size, ack, told
<1>6. start.pos \in Nat /\ Remaining(start) \in Int /\ PACKET_MAX_SIZE \in Nat /\ TAG_SIZE \in Nat
  BY <1>2, Sizes DEF BuilderInv, Shaped, Builders, Remaining
<1>7. /\ BuilderInv(told) /\ told.packet # None /\ told.options = builder.options
      /\ Carries(SentPackets, builder, told, e, 0)
      /\ FewRanges /\ Fitting(builder) => Fitting(told) /\ Remaining(told) >= MaxClose
  <2>1. CASE ~ackDue[e]
    <3>1. told = start
      BY <1>3, <2>1
    <3>2. QED
      BY <1>2, <1>6, <3>1 DEF MaxClose, MaxAck
  <2>2. CASE ackDue[e]
    <3>1. told = WithFrame(start, ack, size) /\ ack \in FrameRecords
          /\ size \in Nat /\ size > 0 /\ (FewRanges => size <= MaxAck)
      BY <1>3, <1>4, <2>2
    <3>2. /\ Adds(start, told, ack) /\ told.pos = start.pos + size
          /\ (Fitting(start) /\ Remaining(start) >= size + (IF start.options.malformed = None THEN 0 ELSE 2))
               => Fitting(told)
      BY <1>2, <3>1, FrameKeeps DEF Adds
    <3>3. FewRanges /\ Fitting(builder) => Fitting(told) /\ Remaining(told) >= MaxClose
      <4>1. Remaining(told) = Remaining(start) - size
        BY <1>6, <3>1, <3>2 DEF Remaining
      <4>2. QED
        BY <1>2, <1>6, <3>1, <3>2, <4>1 DEF MaxClose, MaxAck
    <3>4. Carries(SentPackets, builder, told, e, 0)
      BY <1>1, <1>2, <1>5, <3>1, <3>2, CarriesOther
    <3>5. QED
      BY <1>2, <3>2, <3>3, <3>4 DEF Adds
  <2>3. QED
    BY <2>1, <2>2
<1>8. /\ n \in Nat /\ n <= left[e]
      /\ n = 0 => wrote = told
      /\ n > 0 => \E f \in FrameRecords :
           /\ Adds(told, wrote, f) /\ f.kind = "crypto" /\ f.of = e /\ f.length = n
           /\ Fitting(told) /\ told.options.malformed = None => Fitting(wrote)
  BY <1>1, <1>7, CryptoKeeps
<1>9. w = IF pings THEN WithFrame(wrote, ping, 1) ELSE wrote
  BY DEF WithPing
<1>10. ping \in FrameRecords /\ ping.kind = "probe"
  BY FrameKindsAre DEF FrameRecords, AskedKinds
<1>. HIDE DEF n, wrote, w, ping
<1>11. /\ BuilderInv(wrote) /\ wrote.packet # None /\ wrote.options = builder.options
       /\ Carries(SentPackets, builder, wrote, e, n)
       /\ FewRanges /\ Fitting(builder) => Fitting(wrote)
  <2>1. CASE n = 0
    BY <1>7, <1>8, <2>1
  <2>2. CASE n # 0
    <3>1. PICK f \in FrameRecords :
            /\ Adds(told, wrote, f) /\ f.kind = "crypto" /\ f.of = e /\ f.length = n
            /\ Fitting(told) /\ told.options.malformed = None => Fitting(wrote)
      BY <1>8, <2>2
    <3>2. Carries(SentPackets, builder, wrote, e, n)
      BY <1>1, <1>7, <1>8, <3>1, CarriesBytes
    <3>3. QED
      BY <1>7, <3>1, <3>2 DEF Adds
  <2>3. QED
    BY <2>1, <2>2
<1>12. /\ Carries(SentPackets, builder, w, e, n)
       /\ FewRanges /\ Fitting(builder) /\ (pings => n = 0) => Fitting(w)
  <2>1. CASE ~pings
    BY <1>9, <1>11, <2>1
  <2>2. CASE pings
    <3>1. w = WithFrame(wrote, ping, 1)
      BY <1>9, <2>2
    <3>2. /\ Adds(wrote, w, ping)
          /\ (Fitting(wrote) /\ Remaining(wrote) >= 1 + (IF wrote.options.malformed = None THEN 0 ELSE 2))
               => Fitting(w)
      <4>1. BuilderInv(wrote) /\ wrote.packet # None /\ ping \in FrameRecords
        BY <1>10, <1>11
      <4>2. 1 \in Nat /\ 1 > 0
        OBVIOUS
      <4>3. LET v == WithFrame(wrote, ping, 1) IN
            /\ BuilderInv(v) /\ v.packet # None /\ v.options = wrote.options
            /\ v.number = wrote.number /\ v.packet.type = wrote.packet.type
            /\ Done(v) = Done(wrote) /\ Open(v) = Append(Open(wrote), ping)
            /\ (Fitting(wrote) /\ Remaining(wrote) >= 1 + (IF wrote.options.malformed = None THEN 0 ELSE 2))
                 => Fitting(v)
        BY <4>1, <4>2, FrameKeeps
      <4>4. QED
        BY <3>1, <4>3 DEF Adds
    <3>3. Carries(SentPackets, builder, w, e, n)
      BY <1>1, <1>8, <1>10, <1>11, <3>2, CarriesOther
    <3>4. ASSUME FewRanges, Fitting(builder), n = 0 PROVE Fitting(w)
      <4>1. Remaining(wrote) >= 25
        BY <1>7, <1>8, <3>4 DEF MaxClose
      <4>2. Remaining(wrote) \in Int
        BY <1>11, Sizes DEF Remaining, BuilderInv, Shaped, Builders
      <4>3. QED
        BY <1>11, <3>2, <3>4, <4>1, <4>2
    <3>5. QED
      BY <2>2, <3>3, <3>4
  <2>3. QED
    BY <2>1, <2>2
<1>13. QED
  BY <1>8, <1>12 DEF n, w, wrote, told, start

\* An INITIAL or HANDSHAKE packet, with all its frames.
LEMMA HandshakePacketKeeps == ASSUME WriterInv, AckInv, HandshakePacket PROVE Kept
<1>. DEFINE e == Head(todo)
            told == WithAck(StartPacket(builder, e, TRUE), e)
            n == Fragment(told, e, CryptoOverhead(e))
            pings == sendEpochType = e /\ due["probe"] > 0 /\ n = 0
            w == WithPing(WithCrypto(told, e), pings)
<1>1. /\ pc = "packet" /\ pc' = "packet" /\ e \in {"initial", "handshake"}
      /\ builder' = w /\ left' = [left EXCEPT ![e] = @ - n]
      /\ due' = IF pings \/ n > 0 THEN [due EXCEPT !["probe"] = 0] ELSE due
      /\ UNCHANGED <<scene, padAll, padACK, malformed, resetDue, stopDue, datagramsDue,
                     turns, outbox, packetNumber, asked, written>>
  BY DEF HandshakePacket, Rest, historyVars
<1>2. /\ Running /\ Running' /\ ~Writing' /\ builder.options \in Options
      /\ builder.options.malformed = None /\ BuilderInv(builder)
  BY <1>1 DEF Running, Writing, WriterInv, PlaceInv
<1>3. pings \in BOOLEAN /\ (pings => n = 0)
  OBVIOUS
<1>4. /\ n \in Nat /\ n <= left[e] /\ Carries(SentPackets, builder, w, e, n)
      /\ FewRanges /\ Fitting(builder) => Fitting(w)
  <2>1. \A p \in BOOLEAN : LET v == WithPing(WithCrypto(told, e), p) IN
          /\ n \in Nat /\ n <= left[e] /\ Carries(SentPackets, builder, v, e, n)
          /\ (FewRanges /\ Fitting(builder) /\ (p => n = 0)) => Fitting(v)
    BY <1>1, <1>2, HandshakeFrames
  <2>. HIDE DEF n, told, pings
  <2>2. QED
    BY <1>3, <2>1, Zenon
<1>5. e \in Streams /\ left[e] \in Nat
  BY <1>1 DEF Streams, Epochs, WriterInv, WriterTypes
<1>. HIDE DEF n, told, pings, w
<1>6. WriterTypes'
  <2>1. left' \in [Streams -> Nat] /\ due' \in [FrameKinds -> Nat]
    <3>1. left[e] - n \in Nat
      BY <1>4, <1>5
    <3>2. QED
      BY <1>1, <1>5, <3>1 DEF WriterInv, WriterTypes
  <2>2. QED
    BY <1>1, <2>1 DEF WriterInv, WriterTypes
<1>7. /\ BuilderInv(builder') /\ builder'.packet # None /\ builder'.options = builder.options
      /\ FitInv /\ FewRanges => FitInv'
  BY <1>1, <1>4 DEF Carries, FitInv
<1>8. WriterInv'
  BY <1>1, <1>2, <1>6, <1>7 DEF WriterInv, PlaceInv
<1>9. SentPackets' = SentPackets
  BY <1>1 DEF SentPackets
<1>10. NumberingInv => NumberingInv'
  BY <1>1, <1>2, <1>4, <1>9 DEF NumberingInv, Carries
<1>11. ASSUME RequestedIsDueOrSent PROVE RequestedIsDueOrSent'
  <2>1. Frames = FramesIn(SentPackets, builder) /\ Frames \in Seq(FrameRecords)
    BY FramesNow
  <2>2. Frames' = FramesIn(SentPackets, w)
    <3>1. Frames' = FramesIn(SentPackets', builder')
      BY <1>6, <1>7, FramesNow DEF WriterTypes
    <3>2. QED
      BY <1>1, <1>9, <3>1
  <2>3. /\ \A kind \in AskedKinds \ {"probe"} : Count(Frames', kind) = Count(Frames, kind)
        /\ \A y : Carried(Frames', y) = Carried(Frames, y) + (IF y = e THEN n ELSE 0)
    BY <1>4, <2>1, <2>2 DEF Carries
  <2>4. ASSUME NEW kind \in FrameKinds \ {"probe"} PROVE due'[kind] = due[kind]
    BY <1>1 DEF WriterInv, WriterTypes
  <2>5. ASSUME NEW y \in Streams PROVE written'[y] = left'[y] + Carried(Frames', y)
    <3>1. written[y] = left[y] + Carried(Frames, y) /\ left[y] \in Nat /\ Carried(Frames, y) \in Nat
      BY <1>11, <2>1, CarriedType DEF RequestedIsDueOrSent, WriterInv, WriterTypes
    <3>2. CASE y = e
      <4>1. left'[y] = left[y] - n /\ Carried(Frames', y) = Carried(Frames, y) + n
        BY <1>1, <2>3, <3>2 DEF WriterInv, WriterTypes
      <4>2. QED
        BY <1>1, <1>4, <3>1, <4>1
    <3>3. CASE y # e
      <4>1. left'[y] = left[y] /\ Carried(Frames', y) = Carried(Frames, y) + 0
        BY <1>1, <2>3, <3>3 DEF WriterInv, WriterTypes
      <4>2. QED
        BY <1>1, <3>1, <4>1
    <3>4. QED
      BY <3>2, <3>3
  <2>6. /\ {"reset", "stop", "datagram"} \subseteq AskedKinds \ {"probe"}
        /\ FrameKinds \ {"probe"} \subseteq AskedKinds \ {"probe"}
    BY DEF AskedKinds
  <2>7. \A kind \in FrameKinds \ {"probe"} : asked'[kind] = due'[kind] + Count(Frames', kind)
    BY <1>1, <1>11, <2>3, <2>4, <2>6 DEF RequestedIsDueOrSent
  <2>8. /\ asked'["reset"] = Cardinality(resetDue') + Count(Frames', "reset")
        /\ asked'["stop"] = Cardinality(stopDue') + Count(Frames', "stop")
        /\ asked'["datagram"] = Len(datagramsDue') + Count(Frames', "datagram")
    BY <1>1, <1>11, <2>3, <2>6 DEF RequestedIsDueOrSent
  <2>9. QED
    BY <2>5, <2>7, <2>8 DEF RequestedIsDueOrSent
<1>12. QED
  BY <1>7, <1>8, <1>10, <1>11 DEF Kept

----
(***************************************************************************)
(* All steps.                                                              *)
(***************************************************************************)

\* The inductive invariant of datagrams_to_send: one lemma for each action.
LEMMA WriterStep == WriterInv /\ AckInv /\ [Next]_vars => Kept
<1>. SUFFICES ASSUME WriterInv, AckInv, [Next]_vars PROVE Kept
  OBVIOUS
<1>1. CASE UNCHANGED vars
  BY <1>1, UnchangedKeeps
<1>2. CASE Requests
  BY <1>2, RequestsKeep
<1>3. CASE Step
  <2>1. CASE DatagramsToSend \/ FlushBuilder
    BY <2>1, DatagramsToSendKeeps, FlushBuilderKeeps
  <2>2. CASE ClosePacket \/ MalformedPacket \/ StartApplication
    BY <2>2, ClosePacketKeeps, MalformedPacketKeeps, StartApplicationKeeps
  <2>3. CASE CloseWritten \/ NoKeys \/ PacketsWritten \/ StreamsWritten
    BY <2>3, TurningKeeps
  <2>4. CASE HandshakePacket
    BY <2>4, HandshakePacketKeeps
  <2>5. CASE WriteZeroRttAck \/ WriteApplicationAck \/ WriteControl
    BY <2>5, WriteZeroRttAckKeeps, WriteApplicationAckKeeps, WriteControlKeeps
  <2>6. CASE ControlWritten \/ WriteDatagram
    BY <2>6, ControlWrittenKeeps, WriteDatagramKeeps
  <2>7. CASE WriteStop \/ WriteReset
    BY <2>7, AbortFrameKeeps
  <2>8. CASE WriteStream
    BY <2>8, WriteStreamKeeps
  <2>9. QED
    BY <1>3, <2>1, <2>2, <2>3, <2>4, <2>5, <2>6, <2>7, <2>8 DEF Step
<1>4. QED
  BY <1>1, <1>2, <1>3 DEF Next

\* Nothing is asked for, written or sent yet.
LEMMA WriterStart == Init => WriterInv /\ RequestedIsDueOrSent /\ NumberingInv /\ FitInv
<1>. SUFFICES ASSUME Init PROVE WriterInv /\ RequestedIsDueOrSent /\ NumberingInv /\ FitInv
  OBVIOUS
<1>1. /\ scene \in Scenes /\ padAll = TRUE /\ padACK = TRUE /\ malformed = None /\ pc = "idle"
      /\ due = Zero(FrameKinds) /\ asked = Zero(AskedKinds)
      /\ left = Zero(Streams) /\ written = Zero(Streams)
      /\ resetDue = {} /\ stopDue = {} /\ datagramsDue = << >> /\ turns = << >> /\ outbox = << >>
      /\ packetNumber = 0 /\ builder = NewBuilder(0, None)
  BY DEF Init
<1>2. /\ BuilderInv(builder) /\ Done(builder) = << >> /\ Open(builder) = << >>
      /\ Fitting(builder) /\ builder.packet = None
  BY <1>1, NewIsMade
<1>3. /\ << >> \in Seq(Nat) /\ << >> \in Seq(Range(StreamOrder)) /\ << >> \in Seq(Datagrams)
      /\ << >> \in Seq(Packets) /\ << >> \o << >> = << >> /\ Len(<< >>) = 0 /\ ~(0 > 0)
  BY EmptySeq
<1>4. ~Running /\ ~Writing /\ pc # "packet"
  BY <1>1 DEF Running, Writing
<1>5. WriterInv
  <2>1. IsFiniteSet({})
    BY FS_EmptySet
  <2>2. WriterTypes
    BY <1>1, <1>3, <2>1 DEF WriterTypes, Zero
  <2>3. \A i \in 1..Len(outbox) : WellMade(outbox[i])
    BY <1>1, <1>3
  <2>4. QED
    BY <1>1, <1>2, <1>4, <2>2, <2>3 DEF WriterInv, PlaceInv
<1>6. SentPackets = << >>
  BY <1>1, PacketsOfNone DEF SentPackets
<1>7. NumberingInv
  BY <1>1, <1>3, <1>4, <1>6 DEF NumberingInv, Numbered
<1>8. FitInv
  BY <1>1, <1>2, <1>3 DEF FitInv
<1>9. Frames = << >>
  <2>1. Frames = FramesIn(<< >>, builder)
    BY <1>5, <1>6, FramesNow
  <2>2. FramesOf(<< >>) = << >>
    <3>1. [i \in DOMAIN << >> |-> << >>[i].frames] = << >>
      OBVIOUS
    <3>2. QED
      BY <3>1, FlattenIs, EmptySeq DEF FramesOf
  <2>3. QED
    BY <1>2, <1>3, <2>1, <2>2 DEF FramesIn, Sealed
<1>10. RequestedIsDueOrSent
  <2>1. /\ \A kind : Count(Frames, kind) = 0
        /\ \A x : Carried(Frames, x) = 0
    BY <1>9, CountNone, CarriedNone
  <2>2. Cardinality({}) = 0
    BY FS_EmptySet
  <2>3. /\ \A kind \in AskedKinds : asked[kind] = 0
        /\ \A kind \in FrameKinds : due[kind] = 0
        /\ \A x \in Streams : left[x] = 0 /\ written[x] = 0
        /\ {"reset", "stop", "datagram"} \cup FrameKinds \subseteq AskedKinds
    BY <1>1 DEF Zero, AskedKinds
  <2>4. QED
    BY <1>1, <1>3, <2>1, <2>2, <2>3 DEF RequestedIsDueOrSent
<1>11. QED
  BY <1>5, <1>7, <1>8, <1>10

\* Packets are well made and numbered, and nothing is forgotten, at every step.
LEMMA WriterAlways == Spec => [](WriterInv /\ RequestedIsDueOrSent /\ NumberingInv)
<1>. DEFINE Inv == WriterInv /\ RequestedIsDueOrSent /\ NumberingInv
<1>1. Init => Inv
  BY WriterStart
<1>2. Inv /\ AckInv /\ [Next]_vars => Inv'
  BY WriterStep DEF Kept
<1>3. QED
  BY <1>1, <1>2, AckAlways, PTL DEF Spec

\* However a call of datagrams_to_send is interrupted, for want of room, by a close or by
\* a malformed packet: whatever was asked for is still due, or in a packet, exactly once.
THEOREM RequestsAreDueOrSent == Spec => []RequestedIsDueOrSent
  BY WriterAlways, PTL

\* Packet numbers.
PacketNumbers ==
  /\ \A i \in DOMAIN SentPackets : SentPackets[i].number = i - 1
  /\ packetNumber = Len(SentPackets)

\* The numbers of the packets sent, when no builder is looked at.
LEMMA NumberingAddsUp == WriterInv /\ NumberingInv => PacketNumbers
<1>. SUFFICES ASSUME WriterInv, NumberingInv PROVE PacketNumbers
  OBVIOUS
<1>1. SentPackets \in Seq(Packets)
  BY FramesNow
<1>2. DOMAIN SentPackets = 1..Len(SentPackets)
  BY <1>1, LenProperties
<1>3. QED
  BY <1>2 DEF NumberingInv, Numbered, PacketNumbers

\* Packet numbers go up by one from packet to packet over all calls: none is used twice,
\* none is left out, although empty packets are dropped and calls end early.
THEOREM PacketNumbersAddUp == Spec => []PacketNumbers
  BY WriterAlways, NumberingAddsUp, PTL

\* Besides, packets lie in their datagrams one after the other, none after a short header,
\* and no datagram is longer than PACKET_MAX_SIZE; as long as no ACK frame has more ranges
\* than the 64 bytes asked for it hold.
THEOREM PacketsAlwaysAddUp == Spec /\ []FewRanges => []PacketsAddUp
<1>1. Init => FitInv
  BY WriterStart
<1>2. FitInv /\ FewRanges /\ WriterInv /\ AckInv /\ [Next]_vars => FitInv'
  BY WriterStep DEF Kept
<1>3. WriterInv /\ NumberingInv /\ FitInv => PacketsAddUp
  <2>. SUFFICES ASSUME WriterInv, NumberingInv, FitInv PROVE PacketsAddUp
    OBVIOUS
  <2>1. outbox \in Seq(Datagrams) /\ DOMAIN outbox = 1..Len(outbox)
    BY LenProperties DEF WriterInv, WriterTypes
  <2>2. ASSUME NEW i \in DOMAIN outbox
        PROVE  LET packets == outbox[i].packets IN
               /\ outbox[i].size <= PACKET_MAX_SIZE
               /\ packets # << >>
               /\ \A j \in DOMAIN packets :
                    /\ packets[j].start + packets[j].size =
                         IF j = Len(packets) THEN outbox[i].size ELSE packets[j + 1].start
                    /\ packets[j].type = "oneRtt" => j = Len(packets)
    <3>. DEFINE packets == outbox[i].packets
    <3>1. WellMade(outbox[i]) /\ outbox[i].size <= PACKET_MAX_SIZE
      BY <2>1 DEF WriterInv, FitInv
    <3>2. packets \in Seq(Packets)
      <4>1. outbox[i] \in Datagrams
        BY <2>1, ElementOfSeq
      <4>2. QED
        BY <4>1 DEF Datagrams
    <3>3. DOMAIN packets = 1..Len(packets)
      BY <3>2, LenProperties
    <3>4. QED
      BY <3>1, <3>3 DEF WellMade, Chained
  <2>3. QED
    BY <2>2, NumberingAddsUp DEF PacketsAddUp, PacketNumbers
<1>4. QED
  BY <1>1, <1>2, <1>3, AckAlways, WriterAlways, PTL DEF Spec

----
(***************************************************************************)
(* Padding.  PadInv: each sealed packet is padded as it should be, given   *)
(* the packets before it; and as long as a call has written none but       *)
(* INITIAL packets, what the builder remembers of ACK frames is said of    *)
(* these.                                                                  *)
(***************************************************************************)

AckIn(frames) == \E i \in DOMAIN frames : frames[i].kind = "ack"
Told(packets, from, to) ==
  \E j \in from + 1..to : packets[j].type = "initial" /\ HasAck(packets[j])
Choice(packet, told) == IF told THEN packet.options.padACK ELSE packet.options.padAll
Right(packets, i) ==
  PaddingChosen(packets[i]) =>
    PaddedAs(packets[i], Choice(packets[i], Told(packets, packets[i].options.from, i)))

AllRight(packets) == \A i \in 1..Len(packets) : Right(packets, i)
Early(b) == b.packet = None \/ b.packet.type = "initial"
Knows(past, b) ==
  b.ackSeen <=> \/ Told(Sealed(past, b), b.options.from, Len(Sealed(past, b)))
                \/ AckIn(Open(b))
Padded(past, b) ==
  /\ AllRight(Sealed(past, b))
  /\ b.packet # None /\ b.packet.type = "initial" => Knows(past, b)

Rows == todo \in Seq(Epochs) /\ \A i \in 2..Len(todo) : todo[i] # "initial"
InitialNext == pc \in {"close", "packet", "malformed"} /\ todo # << >> /\ Head(todo) = "initial"
PadInv ==
  /\ Padded(SentPackets, builder)
  /\ Running => builder.options.from = Len(SentPackets)
  /\ pc \in {"close", "packet"} \/ Writing => Rows
  /\ InitialNext => Early(builder) /\ Knows(SentPackets, builder)
  /\ pc = "malformed" => todo # << >>
  /\ Writing => todo # << >> /\ builder.packet.type # "initial"

\* One packet more leaves those before it as they are, and is told of with them.
LEMMA PacketsGoOn ==
  ASSUME NEW ps \in Seq(Packets), NEW p \in Packets
  PROVE  /\ \A i \in 1..Len(ps) : Right(ps, i) => Right(Append(ps, p), i)
         /\ \A from \in 0..Len(ps) :
              Told(Append(ps, p), from, Len(ps) + 1)
                <=> Told(ps, from, Len(ps)) \/ (p.type = "initial" /\ HasAck(p))
<1>. DEFINE qs == Append(ps, p)
            n == Len(ps)
<1>1. /\ n \in Nat /\ Len(qs) = n + 1 /\ qs[n + 1] = p /\ \A i \in 1..n : qs[i] = ps[i]
      /\ \A i \in 1..n : ps[i] \in Packets
  BY AppendProperties, LenProperties, ElementOfSeq
<1>. HIDE DEF qs, n
<1>2. ASSUME NEW from \in Nat, NEW i \in 1..n PROVE Told(qs, from, i) <=> Told(ps, from, i)
  <2>1. \A j \in from + 1..i : j \in 1..n
    BY <1>1
  <2>2. QED
    BY <1>1, <2>1 DEF Told
<1>3. ASSUME NEW i \in 1..n, Right(ps, i) PROVE Right(qs, i)
  <2>1. ps[i].options.from \in Nat /\ qs[i] = ps[i]
    BY <1>1 DEF Packets, Options
  <2>2. Told(qs, ps[i].options.from, i) <=> Told(ps, ps[i].options.from, i)
    BY <1>2, <2>1
  <2>3. Choice(ps[i], Told(qs, ps[i].options.from, i)) = Choice(ps[i], Told(ps, ps[i].options.from, i))
    BY <2>2 DEF Choice
  <2>4. QED
    BY <1>3, <2>1, <2>3 DEF Right
<1>4. ASSUME NEW from \in 0..n
      PROVE  Told(qs, from, n + 1) <=> Told(ps, from, n) \/ (p.type = "initial" /\ HasAck(p))
  <2>1. \A j \in from + 1..n + 1 : (j \in from + 1..n /\ j \in 1..n) \/ j = n + 1
    BY <1>1
  <2>2. n + 1 \in from + 1..n + 1 /\ \A j \in from + 1..n : j \in from + 1..n + 1 /\ j \in 1..n
    BY <1>1
  <2>3. QED
    BY <1>1, <2>1, <2>2 DEF Told
<1>5. QED
  BY <1>1, <1>3, <1>4 DEF qs, n

\* _end_packet pads a packet as its options say for what the builder remembers.
LEMMA SealedRight ==
  ASSUME NEW b, BuilderInv(b), Fitting(b), NEW ps \in Seq(Packets), NEW p \in Packets,
         Seals(b, p), b.options.from \in 0..Len(ps),
         b.packet.type = "initial" =>
           (b.ackSeen <=> Told(ps, b.options.from, Len(ps)) \/ HasAck(p))
  PROVE  Right(Append(ps, p), Len(ps) + 1)
<1>. DEFINE qs == Append(ps, p)
            n == Len(ps)
<1>1. qs[n + 1] = p
  BY AppendProperties
<1>2. /\ b.packet # None /\ p.type = b.packet.type /\ p.options = b.options /\ b.options \in Options
      /\ p.start + p.size = b.pos + Filling(b) + TAG_SIZE /\ p.padding = Filling(b)
      /\ b.pos \in Nat /\ PACKET_MAX_SIZE \in Nat /\ TAG_SIZE \in Nat
  BY Sizes DEF Seals, BuilderInv, Shaped, Builders
<1>3. \A from \in 0..n : Told(qs, from, n + 1) <=> Told(ps, from, n) \/ (p.type = "initial" /\ HasAck(p))
  BY PacketsGoOn
<1>. HIDE DEF qs, n
<1>. SUFFICES ASSUME PaddingChosen(p)
              PROVE  PaddedAs(p, Choice(p, Told(qs, p.options.from, n + 1)))
  BY <1>1 DEF Right, qs, n
<1>4. p.type = "initial" /\ b.options.isClient /\ b.options.malformed = None
  BY <1>2 DEF PaddingChosen
<1>5. Told(qs, p.options.from, n + 1) <=> b.ackSeen
  BY <1>2, <1>3, <1>4 DEF n
<1>6. Choice(p, Told(qs, p.options.from, n + 1))
        = IF b.ackSeen THEN b.options.padACK ELSE b.options.padAll
  BY <1>2, <1>5 DEF Choice
<1>7. Filling(b) = Padding(b)
  BY <1>4, NoneAssumption DEF Filling
<1>8. Remaining(b) \in Int /\ Remaining(b) >= 0 /\ b.pos + Remaining(b) + TAG_SIZE = PACKET_MAX_SIZE
  BY <1>2, <1>4 DEF Remaining, Fitting
<1>9. CASE IF b.ackSeen THEN b.options.padACK ELSE b.options.padAll
  <2>1. Padding(b) = Remaining(b)
    BY <1>2, <1>4, <1>8, <1>9 DEF Padding
  <2>2. QED
    BY <1>2, <1>6, <1>7, <1>8, <1>9, <2>1 DEF PaddedAs, FillsDatagram
<1>10. CASE ~(IF b.ackSeen THEN b.options.padACK ELSE b.options.padAll)
  <2>1. Padding(b) = 0
    BY <1>10 DEF Padding
  <2>2. QED
    BY <1>2, <1>6, <1>7, <1>10, <2>1 DEF PaddedAs
<1>11. QED
  BY <1>9, <1>10

\* Ending and starting packets and flushing datagrams.
LEMMA OnwardPads ==
  ASSUME NEW past \in Seq(Packets), NEW b, BuilderInv(b), Fitting(b), Padded(past, b),
         b.options.from \in 0..Len(past), NEW c, Onward(b, c)
  PROVE  /\ AllRight(Sealed(past, c))
         /\ Early(b) /\ Knows(past, b) => Knows(past, c)
<1>. DEFINE ps == Sealed(past, b)
<1>1. Done(b) \in Seq(Packets) /\ Open(b) \in Seq(FrameRecords)
  BY DoneType DEF BuilderInv, Shaped
<1>2. ps \in Seq(Packets) /\ Len(ps) \in Nat /\ Len(past) \in Nat /\ Len(past) <= Len(ps)
  BY <1>1, ConcatProperties, LenProperties DEF Sealed
<1>3. CASE Done(c) = Done(b) /\ Open(c) = Open(b)
  BY <1>3 DEF Onward, Padded, Sealed, Knows
<1>4. CASE \E p \in Packets : /\ Done(c) = Append(Done(b), p) /\ p.frames = Open(b)
                              /\ Open(c) = << >> /\ Seals(b, p)
  <2>1. PICK p \in Packets : /\ Done(c) = Append(Done(b), p) /\ p.frames = Open(b)
                             /\ Open(c) = << >> /\ Seals(b, p)
    BY <1>4
  <2>2. Sealed(past, c) = Append(ps, p)
    <3>1. Append(Done(b), p) = Done(b) \o <<p>> /\ <<p>> \in Seq(Packets)
      BY <1>1, AppendIsConcat
    <3>2. past \o (Done(b) \o <<p>>) = (past \o Done(b)) \o <<p>>
      BY <1>1, <3>1, ConcatAssociative
    <3>3. Append(ps, p) = ps \o <<p>>
      BY <1>2, AppendIsConcat
    <3>4. QED
      BY <2>1, <3>1, <3>2, <3>3 DEF Sealed
  <2>3. HasAck(p) <=> AckIn(Open(b))
    BY <2>1 DEF HasAck, AckIn
  <2>4. b.options.from \in 0..Len(ps) /\ AllRight(ps)
    BY <1>2 DEF Padded
  <2>5. /\ b.packet # None /\ p.type = b.packet.type
        /\ c.ackSeen = b.ackSeen /\ c.options = b.options
    BY <2>1 DEF Seals, Onward
  <2>. HIDE DEF ps
  <2>6. \/ b.packet.type # "initial"
        \/ b.ackSeen <=> Told(ps, b.options.from, Len(ps)) \/ HasAck(p)
    BY <2>3, <2>5 DEF Padded, Knows, ps
  <2>7. Right(Append(ps, p), Len(ps) + 1)
    BY <1>2, <2>1, <2>4, <2>6, SealedRight
  <2>8. \A i \in 1..Len(ps) : Right(Append(ps, p), i)
    BY <1>2, <2>4, PacketsGoOn DEF AllRight
  <2>9. AllRight(Append(ps, p))
    <3>1. Len(Append(ps, p)) = Len(ps) + 1
      BY <1>2, AppendProperties
    <3>2. \A i \in 1..Len(ps) + 1 : i \in 1..Len(ps) \/ i = Len(ps) + 1
      BY <1>2
    <3>3. QED
      BY <2>7, <2>8, <3>1, <3>2 DEF AllRight
  <2>10. ASSUME Early(b), Knows(past, b) PROVE Knows(past, c)
    <3>1. Told(Append(ps, p), b.options.from, Len(ps) + 1)
            <=> Told(ps, b.options.from, Len(ps)) \/ (p.type = "initial" /\ HasAck(p))
      BY <1>2, <2>4, PacketsGoOn
    <3>2. p.type = "initial"
      BY <2>5, <2>10 DEF Early
    <3>3. ~AckIn(<< >>) /\ Len(Append(ps, p)) = Len(ps) + 1
      BY <1>2, AppendProperties DEF AckIn
    <3>4. b.ackSeen <=> Told(ps, b.options.from, Len(ps)) \/ HasAck(p)
      BY <2>6, <2>5, <3>2
    <3>5. QED
      BY <2>1, <2>2, <2>5, <3>1, <3>2, <3>3, <3>4 DEF Knows
  <2>11. QED
    BY <2>2, <2>9, <2>10
<1>5. QED
  BY <1>3, <1>4 DEF Onward

\* A frame in the open packet.
LEMMA FramePads ==
  ASSUME NEW past \in Seq(Packets), NEW b, BuilderInv(b), b.packet # None,
         NEW frame \in FrameRecords, frame.kind # "zeroRttAck", NEW size \in Nat, size > 0
  PROVE  LET w == WithFrame(b, frame, size) IN
         /\ BuilderInv(w) /\ w.packet # None /\ w.packet.type = b.packet.type
         /\ w.options = b.options /\ Sealed(past, w) = Sealed(past, b)
         /\ Knows(past, b) => Knows(past, w)
<1>. DEFINE w == WithFrame(b, frame, size)
            fs == Open(b)
            gs == Append(fs, frame)
            n == Len(fs)
<1>1. /\ BuilderInv(w) /\ w.packet # None /\ w.packet.type = b.packet.type
      /\ w.options = b.options /\ Done(w) = Done(b) /\ Open(w) = gs
      /\ w.ackSeen = (b.ackSeen \/ frame.kind \in {"ack", "zeroRttAck"})
  BY FrameKeeps
<1>2. fs \in Seq(FrameRecords)
  BY DoneType DEF BuilderInv, Shaped
<1>3. /\ n \in Nat /\ DOMAIN fs = 1..n /\ DOMAIN gs = 1..(n + 1)
      /\ gs[n + 1] = frame /\ \A i \in 1..n : gs[i] = fs[i]
  BY <1>2, AppendProperties, LenProperties
<1>. HIDE DEF w, fs, gs, n
<1>4. AckIn(gs) <=> AckIn(fs) \/ frame.kind = "ack"
  <2>1. \A i \in 1..(n + 1) : i \in 1..n \/ i = n + 1
    BY <1>3
  <2>2. n + 1 \in 1..(n + 1) /\ \A i \in 1..n : i \in 1..(n + 1)
    BY <1>3
  <2>3. QED
    BY <1>3, <2>1, <2>2 DEF AckIn
<1>5. Sealed(past, w) = Sealed(past, b)
  BY <1>1 DEF Sealed
<1>6. ASSUME Knows(past, b) PROVE Knows(past, w)
  BY <1>1, <1>4, <1>5, <1>6 DEF Knows, fs
<1>7. QED
  BY <1>1, <1>5, <1>6 DEF w

\* The epochs after the first.
LEMMA RowsGoOn ==
  ASSUME Rows, todo # << >>
  PROVE  /\ Tail(todo) \in Seq(Epochs)
         /\ \A i \in 2..Len(Tail(todo)) : Tail(todo)[i] # "initial"
         /\ Tail(todo) # << >> => Head(Tail(todo)) # "initial"
<1>1. /\ Len(todo) \in Nat /\ Len(todo) > 0 /\ Tail(todo) \in Seq(Epochs)
      /\ Len(Tail(todo)) = Len(todo) - 1
      /\ \A i \in 1..Len(Tail(todo)) : Tail(todo)[i] = todo[i + 1]
  BY HeadTailProperties, LenProperties, EmptySeq DEF Rows
<1>2. \A i \in 1..Len(Tail(todo)) : i + 1 \in 2..Len(todo)
  BY <1>1
<1>3. \A i \in 1..Len(Tail(todo)) : Tail(todo)[i] # "initial"
  BY <1>1, <1>2 DEF Rows
<1>4. ASSUME Tail(todo) # << >> PROVE Head(Tail(todo)) # "initial"
  <2>1. Head(Tail(todo)) = Tail(todo)[1] /\ Len(Tail(todo)) >= 1
    BY <1>1, <1>4, HeadTailProperties, LenProperties, EmptySeq
  <2>2. 1 \in 1..Len(Tail(todo))
    BY <1>1, <2>1
  <2>3. QED
    BY <1>3, <2>1, <2>2
<1>5. \A i \in 2..Len(Tail(todo)) : i \in 1..Len(Tail(todo))
  BY <1>1
<1>6. QED
  BY <1>1, <1>3, <1>4, <1>5

\* The order of the epochs when a call begins.
LEMMA EpochsInOrder ==
  \A q \in {PacketEpochs, CloseEpochs} : q \in Seq(Epochs) /\ \A i \in 2..Len(q) : q[i] # "initial"
<1>. DEFINE one == <<"oneRtt">>
            zero == <<"zeroRtt">>
            long == <<"initial", "handshake">>
            ok(q) == q \in Seq(Epochs) /\ \A i \in 2..Len(q) : q[i] # "initial"
<1>1. \A q \in Seq(Epochs), p \in {one, zero} : ok(q) => ok(q \o p)
  <2>. SUFFICES ASSUME NEW q \in Seq(Epochs), NEW p \in {one, zero}, ok(q) PROVE ok(q \o p)
    OBVIOUS
  <2>1. p \in Seq(Epochs) /\ Len(p) = 1 /\ p[1] # "initial"
    <3>1. \A e \in {"oneRtt", "zeroRtt"} :
            <<e>> \in Seq(Epochs) /\ Len(<<e>>) = 1 /\ <<e>>[1] # "initial"
      BY DEF Epochs
    <3>2. QED
      BY <3>1
  <2>2. /\ q \o p \in Seq(Epochs) /\ Len(q) \in Nat /\ Len(q \o p) = Len(q) + 1
        /\ \A i \in 1..Len(q) + 1 : (q \o p)[i] = IF i <= Len(q) THEN q[i] ELSE p[i - Len(q)]
    BY <2>1, ConcatProperties, LenProperties
  <2>3. ASSUME NEW i \in 2..(Len(q) + 1) PROVE (q \o p)[i] # "initial"
    <3>1. i \in 2..Len(q) \/ i = Len(q) + 1
      BY <2>2
    <3>2. i = Len(q) + 1 => i - Len(q) = 1
      BY <2>2
    <3>3. QED
      BY <2>1, <2>2, <3>1, <3>2
  <2>4. QED
    BY <2>2, <2>3
<1>2. ok(<< >>) /\ ok(zero)
  BY DEF Epochs
<1>3. ok(long)
  <2>1. long \in Seq(Epochs) /\ Len(long) = 2 /\ long[2] = "handshake"
    BY DEF Epochs
  <2>2. \A i \in 2..2 : i = 2
    OBVIOUS
  <2>3. QED
    BY <2>1, <2>2
<1>4. LongEpochs \in {long, << >>}
  BY DEF LongEpochs
<1>5. ok(LongEpochs)
  BY <1>2, <1>3, <1>4
<1>6. PacketEpochs \in {(LongEpochs \o zero) \o one, (LongEpochs \o << >>) \o one}
  BY DEF PacketEpochs
<1>7. CloseEpochs \in {zero, LongEpochs \o one}
  BY DEF CloseEpochs
<1>. DEFINE L == LongEpochs
<1>8. ok(L) /\ PacketEpochs \in {(L \o zero) \o one, (L \o << >>) \o one} /\ CloseEpochs \in {zero, L \o one}
  BY <1>5, <1>6, <1>7
<1>. HIDE DEF one, zero, long, L
<1>9. ok(L \o zero) /\ ok(L \o << >>) /\ ok(L \o one)
  <2>1. L \o << >> = L
    BY <1>8, ConcatEmptySeq
  <2>2. QED
    BY <1>1, <1>8, <2>1
<1>10. ok((L \o zero) \o one) /\ ok((L \o << >>) \o one)
  BY <1>1, <1>9
<1>. HIDE DEF ok
<1>11. \A q \in {PacketEpochs, CloseEpochs} : ok(q)
  BY <1>2, <1>8, <1>9, <1>10
<1>12. QED
  BY <1>11 DEF ok

\* Where datagrams_to_send is at work.
LEMMA PadNow ==
  ASSUME WriterInv, PadInv, FitInv, Running
  PROVE  /\ SentPackets \in Seq(Packets) /\ BuilderInv(builder) /\ builder.options \in Options
         /\ builder.options.from \in 0..Len(SentPackets)
         /\ Padded(SentPackets, builder) /\ Fitting(builder)
<1>1. SentPackets \in Seq(Packets) /\ Len(SentPackets) \in Nat
  BY FramesNow, LenProperties
<1>2. builder.options.from = Len(SentPackets)
  BY DEF PadInv
<1>3. QED
  BY <1>1, <1>2 DEF WriterInv, PlaceInv, PadInv, FitInv

\* Requests leave the builder alone.
LEMMA RequestsPad == ASSUME PadInv, Requests \/ UNCHANGED vars PROVE PadInv'
<1>1. CASE UNCHANGED vars
  <2>1. UNCHANGED <<builder, outbox, pc, todo>>
    <3>1. UNCHANGED <<callVars, outbox>>
      BY <1>1 DEF vars
    <3>2. QED
      BY <3>1 DEF callVars
  <2>2. SentPackets' = SentPackets
    BY <2>1 DEF SentPackets
  <2>3. QED
    BY <2>1, <2>2 DEF PadInv, Rows, InitialNext, Running, Writing
<1>2. CASE Requests
  <2>1. pc' \in {"idle", "begin"} /\ UNCHANGED <<builder, outbox>>
    <3>1. CASE \/ \E kind \in FrameKinds : Want(kind)
               \/ \E x \in Range(StreamOrder), n \in scene.sizes, end \in BOOLEAN : SendStream(x, n, end)
               \/ \E x \in Range(StreamOrder), kind \in {"reset", "stop"} : AbortStream(x, kind)
               \/ \E n \in scene.datagrams : SendDatagram(n)
               \/ ConfigurePadding \/ ResetPadInitialACK
      BY <3>1 DEF Want, SendStream, AbortStream, SendDatagram, ConfigurePadding, ResetPadInitialACK,
                  Request, Quiet
    <3>2. CASE \/ \E pad \in BOOLEAN : ClientHello(pad)
               \/ \E n \in scene.messages : HandshakeMessage(n)
               \/ \E epoch \in Epochs : Probe(epoch)
               \/ \E epoch \in LongTypes, kind \in {"empty", "unexpected"} : Malformed(epoch, kind)
      BY <3>2 DEF ClientHello, HandshakeMessage, Probe, Malformed, Letter, Request, Begin, Idle
    <3>3. CASE \/ \E epoch \in Epochs \cup {None} : Close(epoch)
               \/ AckInZeroRtt \/ Transmit \/ Peer
               \/ \E s \in Spaces : \E packet \in flying[s] :
                    DatagramReceived(s, packet) \/ DatagramMisread(s, packet)
      BY <3>3 DEF Close, AckInZeroRtt, Transmit, Peer, DatagramReceived, DatagramMisread,
                  Letter, Request, Begin, Idle, callVars
    <3>4. QED
      BY <1>2, <3>1, <3>2, <3>3 DEF Requests
  <2>2. SentPackets' = SentPackets
    BY <2>1 DEF SentPackets
  <2>3. QED
    BY <2>1, <2>2 DEF PadInv, InitialNext, Running, Writing
<1>3. QED
  BY <1>1, <1>2

\* A new builder: nothing is sealed but what was sent before.
LEMMA NewPads ==
  ASSUME NEW past \in Seq(Packets), AllRight(past), NEW number, NEW options,
         NEW b, b = NewBuilder(number, options), Done(b) = << >>
  PROVE  Padded(past, b) /\ Early(b) /\ (b.options.from = Len(past) => Knows(past, b))
<1>1. b.packet = None /\ b.ackSeen = FALSE /\ Open(b) = << >>
  BY DEF NewBuilder, Open
<1>2. Sealed(past, b) = past
  BY ConcatEmptySeq DEF Sealed
<1>3. Padded(past, b) /\ Early(b)
  BY <1>1, <1>2 DEF Padded, Early
<1>4. ASSUME b.options.from = Len(past) PROVE Knows(past, b)
  <2>1. Len(past) \in Nat
    BY LenProperties
  <2>2. \A j \in Len(past) + 1..Len(past) : FALSE
    BY <2>1
  <2>3. ~Told(past, Len(past), Len(past))
    BY <2>2 DEF Told
  <2>4. ~AckIn(<< >>)
    BY DEF AckIn
  <2>5. QED
    BY <1>1, <1>2, <1>4, <2>3, <2>4 DEF Knows
<1>5. QED
  BY <1>3, <1>4

\* The call begins: nothing has been written.
LEMMA DatagramsToSendPads == ASSUME WriterInv, PadInv, NumberingInv, DatagramsToSend PROVE PadInv'
<1>. DEFINE options == [isClient |-> scene.isClient, padAll |-> padAll, padACK |-> padACK,
                        malformed |-> malformed, from |-> packetNumber]
<1>1. /\ pc = "begin" /\ builder' = NewBuilder(packetNumber, options) /\ outbox' = outbox
      /\ pc' \in {"close", "malformed", "packet"}
      /\ pc' = "close" => todo' = CloseEpochs
      /\ pc' = "packet" => todo' = PacketEpochs
      /\ pc' = "malformed" => todo' # << >>
  BY DEF DatagramsToSend
<1>2. options \in Options /\ options.from = packetNumber
  BY ScenesAssumption DEF WriterInv, WriterTypes, Options
<1>3. packetNumber = Len(SentPackets) /\ SentPackets' = SentPackets
  BY <1>1 DEF NumberingInv, Numbered, SentPackets
<1>4. builder = NewBuilder(0, None) /\ Done(builder) = << >>
  <2>1. builder = NewBuilder(0, None)
    BY <1>1 DEF WriterInv, PlaceInv, Running
  <2>2. QED
    BY <2>1, NewIsMade
<1>5. SentPackets \in Seq(Packets) /\ AllRight(SentPackets)
  <2>1. SentPackets \in Seq(Packets)
    BY FramesNow
  <2>2. Sealed(SentPackets, builder) = SentPackets
    BY <1>4, <2>1, ConcatEmptySeq DEF Sealed
  <2>3. QED
    BY <2>1, <2>2 DEF PadInv, Padded
<1>. HIDE DEF options
<1>6. Done(builder') = << >> /\ builder'.options = options
  BY <1>1, <1>2, NewIsMade DEF WriterInv, WriterTypes
<1>7. Padded(SentPackets, builder') /\ Early(builder') /\ Knows(SentPackets, builder')
  BY <1>1, <1>2, <1>3, <1>5, <1>6, NewPads
<1>8. pc' \in {"close", "packet"} => Rows'
  BY <1>1, EpochsInOrder DEF Rows
<1>9. QED
  BY <1>1, <1>2, <1>3, <1>6, <1>7, <1>8 DEF PadInv, Writing

\* The datagrams go out as they are.
LEMMA FlushBuilderPads == ASSUME WriterInv, PadInv, FitInv, FlushBuilder PROVE PadInv'
<1>. DEFINE f == Flush(builder)
<1>1. pc = "flush" /\ pc' = "idle" /\ outbox' = outbox \o f.datagrams /\ builder' = NewBuilder(0, None)
  BY DEF FlushBuilder
<1>2. Onward(builder, f) /\ f.current = << >> /\ BuilderInv(f)
  BY FlushIsOnward DEF WriterInv, Onward
<1>3. /\ SentPackets \in Seq(Packets) /\ BuilderInv(builder) /\ Padded(SentPackets, builder)
      /\ builder.options.from \in 0..Len(SentPackets) /\ Fitting(builder)
  BY <1>1, PadNow DEF Running
<1>. HIDE DEF f
<1>4. AllRight(Sealed(SentPackets, f))
  BY <1>2, <1>3, OnwardPads
<1>5. SentPackets' = Sealed(SentPackets, f) /\ SentPackets' \in Seq(Packets)
  <2>1. /\ f.datagrams \in Seq(Datagrams) /\ outbox \in Seq(Datagrams)
        /\ PacketsOf(f.datagrams) \in Seq(Packets)
    BY <1>2, PacketsOfType DEF BuilderInv, Shaped, Builders, WriterInv, WriterTypes
  <2>2. Done(f) = PacketsOf(f.datagrams)
    BY <1>2, <2>1, ConcatEmptySeq DEF Done
  <2>3. SentPackets' = SentPackets \o PacketsOf(f.datagrams)
    BY <1>1, <2>1, PacketsOfConcat DEF SentPackets
  <2>4. QED
    BY <1>3, <2>1, <2>2, <2>3, ConcatProperties DEF Sealed
<1>6. Done(builder') = << >>
  BY <1>1, NewIsMade
<1>7. Padded(SentPackets', builder')
  BY <1>1, <1>4, <1>5, <1>6, NewPads
<1>8. QED
  BY <1>1, <1>7 DEF PadInv, Running, Writing, InitialNext

\* A packet is started: what the builder knows is said of it if it is an INITIAL one.
LEMMA StartPads ==
  ASSUME WriterInv, PadInv, FitInv, Running, NEW type \in Types, NEW newPacket \in BOOLEAN,
         type = "initial" => Early(builder) /\ Knows(SentPackets, builder)
  PROVE  LET s == StartPacket(builder, type, newPacket) IN
         /\ BuilderInv(s) /\ s.packet # None /\ s.packet.type = type
         /\ s.options = builder.options /\ AllRight(Sealed(SentPackets, s))
         /\ type = "initial" => Knows(SentPackets, s)
<1>. DEFINE s == StartPacket(builder, type, newPacket)
<1>1. /\ SentPackets \in Seq(Packets) /\ BuilderInv(builder) /\ builder.options \in Options
      /\ builder.options.from \in 0..Len(SentPackets)
      /\ Padded(SentPackets, builder) /\ Fitting(builder)
  BY PadNow
<1>2. Onward(builder, s) /\ s.packet # None /\ s.packet.type = type
  BY <1>1, StartKeeps
<1>. HIDE DEF s
<1>3. /\ AllRight(Sealed(SentPackets, s))
      /\ Early(builder) /\ Knows(SentPackets, builder) => Knows(SentPackets, s)
  BY <1>1, <1>2, OnwardPads
<1>4. QED
  BY <1>2, <1>3 DEF s, Onward

\* CONNECTION_CLOSE, in a packet of its own.
LEMMA ClosePacketPads == ASSUME WriterInv, PadInv, FitInv, ClosePacket PROVE PadInv'
<1>. DEFINE b == StartPacket(builder, Head(todo), FALSE)
            f == [kind |-> "close"]
<1>1. /\ pc = "close" /\ pc' = "close" /\ todo # << >> /\ todo' = Tail(todo) /\ outbox' = outbox
      /\ builder' = IF ~CloseHere THEN builder ELSE WithFrame(b, f, 4)
  BY DEF ClosePacket, Rest, Size
<1>2. Running /\ Running' /\ ~Writing' /\ Rows /\ SentPackets' = SentPackets
  BY <1>1 DEF Running, Writing, PadInv, SentPackets
<1>3. Padded(SentPackets, builder') /\ builder'.options = builder.options
  <2>1. CASE ~CloseHere
    BY <1>1, <2>1 DEF PadInv
  <2>2. CASE CloseHere
    <3>1. Head(todo) \in Types
      BY <2>2, KeysAreTypes DEF WriterInv, CloseHere
    <3>2. Head(todo) = "initial" => Early(builder) /\ Knows(SentPackets, builder)
      BY <1>1 DEF PadInv, InitialNext
    <3>3. /\ BuilderInv(b) /\ b.packet # None /\ b.packet.type = Head(todo)
          /\ b.options = builder.options /\ AllRight(Sealed(SentPackets, b))
          /\ Head(todo) = "initial" => Knows(SentPackets, b)
      BY <1>2, <3>1, <3>2, StartPads
    <3>4. builder' = WithFrame(b, f, 4) /\ f \in FrameRecords /\ f.kind # "zeroRttAck"
          /\ 4 \in Nat /\ 4 > 0 /\ SentPackets \in Seq(Packets)
      BY <1>1, <1>2, <2>2, PadNow DEF FrameRecords
    <3>. HIDE DEF b, f
    <3>5. /\ builder'.packet.type = b.packet.type /\ builder'.options = b.options
          /\ Sealed(SentPackets, builder') = Sealed(SentPackets, b)
          /\ Knows(SentPackets, b) => Knows(SentPackets, builder')
      BY <3>3, <3>4, FramePads
    <3>6. QED
      BY <3>3, <3>5 DEF Padded
  <2>3. QED
    BY <2>1, <2>2
<1>4. /\ Tail(todo) \in Seq(Epochs) /\ \A i \in 2..Len(Tail(todo)) : Tail(todo)[i] # "initial"
      /\ Tail(todo) # << >> => Head(Tail(todo)) # "initial"
  BY <1>1, <1>2, RowsGoOn
<1>5. Rows' /\ ~InitialNext'
  BY <1>1, <1>4 DEF Rows, InitialNext
<1>6. QED
  BY <1>1, <1>2, <1>3, <1>5 DEF PadInv

\* Steps that write no frame.
LEMMA TurningPads ==
  ASSUME WriterInv, PadInv, FitInv,
         CloseWritten \/ NoKeys \/ PacketsWritten \/ StreamsWritten \/ MalformedPacket
  PROVE  PadInv'
<1>1. outbox' = outbox /\ SentPackets' = SentPackets
  BY DEF CloseWritten, NoKeys, PacketsWritten, StreamsWritten, MalformedPacket, Rest, SentPackets
<1>2. CASE CloseWritten \/ PacketsWritten
  <2>1. pc \in {"close", "packet"} /\ pc' = "flush" /\ builder' = builder
    BY <1>2 DEF CloseWritten, PacketsWritten
  <2>2. QED
    BY <1>1, <2>1 DEF PadInv, Writing, Running, InitialNext
<1>3. CASE NoKeys
  <2>1. pc = "packet" /\ pc' = pc /\ todo # << >> /\ todo' = Tail(todo) /\ builder' = builder
    BY <1>3 DEF NoKeys
  <2>2. Rows
    BY <2>1 DEF PadInv
  <2>3. /\ Tail(todo) \in Seq(Epochs) /\ \A i \in 2..Len(Tail(todo)) : Tail(todo)[i] # "initial"
        /\ Tail(todo) # << >> => Head(Tail(todo)) # "initial"
    BY <2>1, <2>2, RowsGoOn
  <2>4. Rows' /\ ~InitialNext' /\ Running /\ ~Writing'
    BY <2>1, <2>3 DEF Rows, InitialNext, Running, Writing
  <2>5. QED
    BY <1>1, <2>1, <2>4 DEF PadInv
<1>4. CASE StreamsWritten
  <2>1. pc = "streams" /\ pc' = "packet" /\ todo' \in {todo, Tail(todo)} /\ builder' = builder
    BY <1>4 DEF StreamsWritten
  <2>2. Rows /\ Head(todo) \in {"zeroRtt", "oneRtt"} /\ todo # << >> /\ Running /\ ~Writing'
    BY <2>1 DEF Writing, Running, WriterInv, PlaceInv, PadInv
  <2>3. todo' \in Seq(Epochs) /\ (\A i \in 2..Len(todo') : todo'[i] # "initial")
        /\ (todo' # << >> => Head(todo') # "initial")
    BY <2>1, <2>2, RowsGoOn DEF Rows
  <2>4. Rows' /\ ~InitialNext'
    BY <2>3 DEF Rows, InitialNext
  <2>5. QED
    BY <1>1, <2>1, <2>2, <2>4 DEF PadInv
<1>5. CASE MalformedPacket
  <2>1. /\ pc = "malformed" /\ pc' = "flush"
        /\ builder' = IF Head(todo) \in scene.keys THEN StartPacket(builder, Head(todo), FALSE)
                      ELSE builder
    BY <1>5 DEF MalformedPacket
  <2>2. Running /\ Running' /\ ~Writing' /\ ~InitialNext'
    BY <2>1 DEF Running, Writing, InitialNext
  <2>3. Padded(SentPackets, builder') /\ builder'.options = builder.options
    <3>1. CASE Head(todo) \notin scene.keys
      BY <2>1, <3>1 DEF PadInv
    <3>2. CASE Head(todo) \in scene.keys
      <4>1. Head(todo) \in Types
        BY <3>2, KeysAreTypes DEF WriterInv
      <4>2. Head(todo) = "initial" => Early(builder) /\ Knows(SentPackets, builder)
        BY <2>1 DEF PadInv, InitialNext
      <4>3. QED
        BY <2>1, <2>2, <3>2, <4>1, <4>2, StartPads DEF Padded
    <3>3. QED
      BY <3>1, <3>2
  <2>4. QED
    BY <1>1, <2>1, <2>2, <2>3 DEF PadInv
<1>6. QED
  BY <1>2, <1>3, <1>4, <1>5

\* A packet of 0-RTT or 1-RTT is started.
LEMMA StartApplicationPads == ASSUME WriterInv, PadInv, FitInv, StartApplication PROVE PadInv'
<1>1. /\ pc = "packet" /\ pc' = "control" /\ Head(todo) \in {"zeroRtt", "oneRtt"} /\ todo' = todo
      /\ todo # << >> /\ outbox' = outbox
      /\ builder' = StartPacket(builder, Head(todo), FALSE)
  BY DEF StartApplication, Rest
<1>2. Running /\ Head(todo) \in Types /\ Head(todo) # "initial" /\ Rows
  BY <1>1 DEF Running, Types, LongTypes, PadInv
<1>3. /\ builder'.packet.type = Head(todo) /\ builder'.options = builder.options
      /\ AllRight(Sealed(SentPackets, builder'))
  BY <1>1, <1>2, StartPads
<1>4. Padded(SentPackets, builder') /\ SentPackets' = SentPackets
  BY <1>1, <1>2, <1>3 DEF Padded, SentPackets
<1>5. Rows' /\ ~InitialNext'
  BY <1>1, <1>2 DEF Rows, InitialNext
<1>6. QED
  BY <1>1, <1>2, <1>3, <1>4, <1>5 DEF PadInv

\* Its frames: no packet is sealed, and it is no INITIAL one.
WritesOrNot(b, c) == c = b \/ \E frame, size : c = WithFrame(b, frame, size)

LEMMA WritingPads ==
  ASSUME WriterInv, PadInv, Writing, pc' \in {"control", "datagrams", "streams", "flush"},
         todo' = todo, outbox' = outbox, WritesOrNot(builder, builder')
  PROVE  PadInv'
<1>1. /\ builder \in Builders /\ builder.packet \in Packets /\ Padded(SentPackets, builder)
      /\ todo # << >> /\ builder.packet.type # "initial" /\ Rows /\ Running
      /\ builder.options.from = Len(SentPackets)
  BY DEF WriterInv, PlaceInv, BuilderInv, Shaped, Builders, PadInv, Running, Writing
<1>2. /\ builder'.packet.type = builder.packet.type /\ builder'.options = builder.options
      /\ Done(builder') = Done(builder)
  <2>1. ASSUME NEW frame, NEW size
        PROVE  LET w == WithFrame(builder, frame, size) IN
               /\ w.packet.type = builder.packet.type /\ w.options = builder.options
               /\ w.current = builder.current /\ w.datagrams = builder.datagrams
    BY <1>1 DEF WithFrame, Builders, Packets
  <2>2. QED
    BY <2>1 DEF WritesOrNot, Done
<1>3. Padded(SentPackets, builder') /\ SentPackets' = SentPackets
  BY <1>1, <1>2 DEF Padded, Sealed, SentPackets
<1>4. Rows' /\ ~InitialNext' /\ pc' # "malformed"
  BY <1>1 DEF Rows, InitialNext
<1>5. QED
  BY <1>1, <1>2, <1>3, <1>4 DEF PadInv

LEMMA FramesPad ==
  ASSUME WriterInv, PadInv,
         \/ WriteZeroRttAck \/ WriteApplicationAck \/ WriteControl \/ ControlWritten
         \/ WriteDatagram \/ WriteStop \/ WriteReset \/ WriteStream
  PROVE  PadInv'
<1>1. CASE WriteZeroRttAck
  <2>1. /\ Writing /\ pc' = pc /\ pc = "control" /\ todo' = todo /\ outbox' = outbox
        /\ WritesOrNot(builder, builder')
    BY <1>1 DEF WriteZeroRttAck, Rest, Writing, WritesOrNot
  <2>2. QED
    BY <2>1, WritingPads
<1>2. CASE WriteApplicationAck
  <2>1. /\ Writing /\ pc' \in {"control", "flush"} /\ todo' = todo /\ outbox' = outbox
        /\ WritesOrNot(builder, builder')
    BY <1>2 DEF WriteApplicationAck, Rest, Writing, WritesOrNot, WithAck
  <2>2. QED
    BY <2>1, WritingPads
<1>3. CASE WriteControl
  <2>1. /\ Writing /\ pc' \in {"control", "flush"} /\ todo' = todo /\ outbox' = outbox
        /\ WritesOrNot(builder, builder')
    BY <1>3 DEF WriteControl, Rest, Writing, WritesOrNot
  <2>2. QED
    BY <2>1, WritingPads
<1>4. CASE ControlWritten
  <2>1. /\ Writing /\ pc' = "datagrams" /\ todo' = todo /\ outbox' = outbox
        /\ WritesOrNot(builder, builder')
    BY <1>4 DEF ControlWritten, Rest, Writing, WritesOrNot, WithCrypto
  <2>2. QED
    BY <2>1, WritingPads
<1>5. CASE WriteDatagram
  <2>1. /\ Writing /\ pc' \in {"datagrams", "streams"} /\ todo' = todo /\ outbox' = outbox
        /\ WritesOrNot(builder, builder')
    BY <1>5 DEF WriteDatagram, Rest, Writing, WritesOrNot
  <2>2. QED
    BY <2>1, WritingPads
<1>6. CASE WriteStop \/ WriteReset \/ WriteStream
  <2>1. /\ Writing /\ pc' \in {"streams", "flush"} /\ todo' = todo /\ outbox' = outbox
        /\ WritesOrNot(builder, builder')
    BY <1>6 DEF WriteStop, WriteReset, WriteStream, Rest, Writing, WritesOrNot
  <2>2. QED
    BY <2>1, WritingPads
<1>7. QED
  BY <1>1, <1>2, <1>3, <1>4, <1>5, <1>6

\* A frame, or none, in a packet of the handshake.
StillSaid(past, b, c) ==
  /\ BuilderInv(c) /\ c.packet # None /\ c.packet.type = b.packet.type
  /\ c.options = b.options /\ Sealed(past, c) = Sealed(past, b)
  /\ Knows(past, b) => Knows(past, c)

LEMMA StageSaid ==
  ASSUME NEW past \in Seq(Packets), NEW b, BuilderInv(b), b.packet # None, NEW frame, NEW size,
         NEW there \in BOOLEAN, NEW c, c = IF there THEN WithFrame(b, frame, size) ELSE b,
         there => /\ frame \in FrameRecords /\ frame.kind # "zeroRttAck"
                  /\ size \in Nat /\ size > 0
  PROVE  StillSaid(past, b, c)
<1>1. CASE ~there
  BY <1>1 DEF StillSaid
<1>2. CASE there
  BY <1>2, FramePads DEF StillSaid
<1>3. QED
  BY <1>1, <1>2

LEMMA StagesSaid ==
  ASSUME NEW past \in Seq(Packets), AckInv, WriterTypes, NEW e \in {"initial", "handshake"},
         NEW b, BuilderInv(b), b.packet # None, NEW pings \in BOOLEAN
  PROVE  StillSaid(past, b, WithPing(WithCrypto(WithAck(b, e), e), pings))
<1>. DEFINE size == AckSize(AckFrame(e).wire)
            ack == [kind |-> "ack", of |-> e]
            told == WithAck(b, e)
            o == CryptoOverhead(e)
            n == Fragment(told, e, o)
            data == [kind |-> "crypto", of |-> e, length |-> n]
            wrote == WithCrypto(told, e)
            ping == [kind |-> "probe"]
            w == WithPing(wrote, pings)
<1>1. e \in Spaces /\ e \in Epochs /\ e \in Streams /\ left[e] \in Nat /\ ackDue[e] \in BOOLEAN
  BY ThreeSpaces DEF Epochs, Streams, WriterTypes, AckInv, AckTypes
<1>2. told = IF ackDue[e] THEN WithFrame(b, ack, size) ELSE b
  BY DEF WithAck
<1>3. ackDue[e] => size \in Nat /\ size > 0 /\ ack \in FrameRecords
  BY <1>1, AckSizeIs
<1>4. wrote = IF n # 0 THEN WithFrame(told, data, o + n) ELSE told
  BY DEF WithCrypto
<1>5. w = IF pings THEN WithFrame(wrote, ping, 1) ELSE wrote
  BY DEF WithPing
<1>6. o \in Nat
  BY OffsetSizeIs DEF CryptoOverhead
<1>7. ack.kind = "ack" /\ data.kind = "crypto" /\ ping.kind = "probe"
  OBVIOUS
<1>. HIDE DEF size, ack, told, o, wrote, w
<1>8. StillSaid(past, b, told)
  <2>1. ackDue[e] => ack.kind # "zeroRttAck"
    BY <1>7
  <2>. DEFINE there == ackDue[e]
  <2>2. there \in BOOLEAN /\ told = (IF there THEN WithFrame(b, ack, size) ELSE b)
        /\ (there => ack \in FrameRecords /\ ack.kind # "zeroRttAck" /\ size \in Nat /\ size > 0)
    BY <1>1, <1>2, <1>3, <2>1
  <2>. HIDE DEF there
  <2>3. QED
    BY <2>2, StageSaid
<1>9. BuilderInv(told) /\ told.packet # None /\ told.pos \in Nat
  BY <1>8 DEF StillSaid, BuilderInv, Shaped, Builders
<1>10. n \in Nat
  BY <1>1, <1>6, <1>9, FragmentIs
<1>11. data \in FrameRecords /\ ping \in FrameRecords
  BY <1>1, <1>10, FrameKindsAre DEF FrameRecords, AskedKinds
<1>. HIDE DEF n, data, ping
<1>12. StillSaid(past, told, wrote)
  <2>. DEFINE there == n # 0
  <2>1. there \in BOOLEAN /\ wrote = (IF there THEN WithFrame(told, data, o + n) ELSE told)
        /\ (there => data \in FrameRecords /\ data.kind # "zeroRttAck" /\ o + n \in Nat /\ o + n > 0)
    BY <1>4, <1>6, <1>7, <1>10, <1>11
  <2>. HIDE DEF there
  <2>2. QED
    BY <1>9, <2>1, StageSaid
<1>13. BuilderInv(wrote) /\ wrote.packet # None
  BY <1>12 DEF StillSaid
<1>14. StillSaid(past, wrote, w)
  <2>1. ping \in FrameRecords /\ ping.kind # "zeroRttAck" /\ 1 \in Nat /\ 1 > 0
    BY <1>7, <1>11
  <2>2. QED
    BY <1>5, <1>13, <2>1, StageSaid
<1>15. StillSaid(past, b, w)
  BY <1>8, <1>12, <1>14 DEF StillSaid
<1>16. QED
  BY <1>15 DEF w, wrote, told

\* Packets of the handshake: an INITIAL one follows none but INITIAL ones.
LEMMA HandshakePacketPads ==
  ASSUME WriterInv, AckInv, PadInv, FitInv, HandshakePacket PROVE PadInv'
<1>. DEFINE e == Head(todo)
            start == StartPacket(builder, e, TRUE)
            told == WithAck(start, e)
            n == Fragment(told, e, CryptoOverhead(e))
            pings == sendEpochType = e /\ due["probe"] > 0 /\ n = 0
            w == WithPing(WithCrypto(told, e), pings)
<1>1. /\ pc = "packet" /\ pc' = "packet" /\ e \in {"initial", "handshake"} /\ todo # << >>
      /\ builder' = w /\ todo' \in {todo, Tail(todo)} /\ outbox' = outbox
  BY DEF HandshakePacket, Rest
<1>2. Running /\ Running' /\ ~Writing' /\ Rows /\ SentPackets' = SentPackets
      /\ SentPackets \in Seq(Packets) /\ e \in Types /\ pc' # "malformed" /\ WriterTypes
  BY <1>1, FramesNow DEF Running, Writing, PadInv, SentPackets, Types, LongTypes, WriterInv
<1>3. e = "initial" => Early(builder) /\ Knows(SentPackets, builder)
  BY <1>1 DEF PadInv, InitialNext
<1>4. /\ BuilderInv(start) /\ start.packet # None /\ start.packet.type = e
      /\ start.options = builder.options /\ AllRight(Sealed(SentPackets, start))
      /\ e = "initial" => Knows(SentPackets, start)
  BY <1>2, <1>3, StartPads
<1>5. StillSaid(SentPackets, start, w)
  <2>1. pings \in BOOLEAN
    OBVIOUS
  <2>. HIDE DEF pings, start
  <2>2. QED
    BY <1>1, <1>2, <1>4, <2>1, StagesSaid
<1>. HIDE DEF w, start
<1>6. /\ builder'.packet # None /\ builder'.packet.type = e /\ builder'.options = builder.options
      /\ AllRight(Sealed(SentPackets, builder'))
      /\ e = "initial" => Knows(SentPackets, builder')
  BY <1>1, <1>4, <1>5 DEF StillSaid
<1>7. Padded(SentPackets, builder')
  BY <1>6 DEF Padded
<1>8. /\ todo' \in Seq(Epochs) /\ \A i \in 2..Len(todo') : todo'[i] # "initial"
      /\ todo' # << >> /\ Head(todo') = "initial" => e = "initial"
  BY <1>1, <1>2, RowsGoOn DEF Rows
<1>9. Rows' /\ (InitialNext' => Early(builder') /\ Knows(SentPackets, builder'))
  BY <1>6, <1>8 DEF Rows, InitialNext, Early
<1>10. QED
  BY <1>2, <1>6, <1>7, <1>9 DEF PadInv

\* All steps.
LEMMA PadStep ==
  ASSUME WriterInv, AckInv, NumberingInv, FitInv, PadInv, [Next]_vars PROVE PadInv'
<1>1. CASE UNCHANGED vars \/ Requests
  BY <1>1, RequestsPad
<1>2. CASE Step
  <2>1. CASE DatagramsToSend \/ FlushBuilder \/ ClosePacket \/ HandshakePacket \/ StartApplication
    BY <2>1, DatagramsToSendPads, FlushBuilderPads, ClosePacketPads, HandshakePacketPads,
       StartApplicationPads
  <2>2. CASE CloseWritten \/ NoKeys \/ PacketsWritten \/ StreamsWritten \/ MalformedPacket
    BY <2>2, TurningPads
  <2>3. CASE \/ WriteZeroRttAck \/ WriteApplicationAck \/ WriteControl \/ ControlWritten
             \/ WriteDatagram \/ WriteStop \/ WriteReset \/ WriteStream
    BY <2>3, FramesPad
  <2>4. QED
    BY <1>2, <2>1, <2>2, <2>3 DEF Step
<1>3. QED
  BY <1>1, <1>2 DEF Next

\* Each INITIAL packet the client has sent is padded by the option that applies to it,
\* whatever packets came before it, in its call or earlier, and however their calls ended;
\* as long as no ACK frame has more ranges than fit the room asked for.
THEOREM PaddingIsAsConfigured == Spec /\ []FewRanges => []PaddingAsConfigured
<1>. DEFINE Inv == PadInv /\ FitInv
<1>1. Init => Inv
  <2>. SUFFICES ASSUME Init PROVE PadInv /\ FitInv
    OBVIOUS
  <2>1. builder = NewBuilder(0, None) /\ outbox = << >> /\ pc = "idle"
    BY DEF Init
  <2>2. SentPackets = << >> /\ << >> \in Seq(Packets) /\ Done(builder) = << >>
    BY <2>1, PacketsOfNone, NewIsMade, EmptySeq DEF SentPackets
  <2>3. AllRight(<< >>)
    BY DEF AllRight
  <2>4. Padded(SentPackets, builder)
    BY <2>1, <2>2, <2>3, NewPads
  <2>5. QED
    BY <2>1, <2>4, WriterStart DEF PadInv, Writing, Running, InitialNext
<1>2. Inv /\ FewRanges /\ WriterInv /\ NumberingInv /\ AckInv /\ [Next]_vars => Inv'
  BY PadStep, WriterStep DEF Kept
<1>3. WriterInv /\ PadInv => PaddingAsConfigured
  <2>. SUFFICES ASSUME WriterInv, PadInv, NEW i \in DOMAIN SentPackets, PaddingChosen(SentPackets[i])
                PROVE  PaddedAs(SentPackets[i], IF AckInCall(SentPackets, i)
                                                  THEN SentPackets[i].options.padACK
                                                  ELSE SentPackets[i].options.padAll)
    BY DEF PaddingAsConfigured
  <2>1. SentPackets \in Seq(Packets) /\ DOMAIN SentPackets = 1..Len(SentPackets)
    BY FramesNow, LenProperties
  <2>2. AllRight(SentPackets)
    <3>. DEFINE ps == Sealed(SentPackets, builder)
    <3>1. /\ Done(builder) \in Seq(Packets) /\ ps \in Seq(Packets) /\ Len(SentPackets) \in Nat
          /\ Len(ps) \in Nat /\ Len(SentPackets) <= Len(ps)
          /\ \A j \in 1..Len(SentPackets) : ps[j] = SentPackets[j]
      <4>1. Done(builder) \in Seq(Packets)
        BY DoneType DEF WriterInv, BuilderInv, Shaped
      <4>2. QED
        BY <2>1, <4>1, ConcatProperties, LenProperties DEF Sealed
    <3>. HIDE DEF ps
    <3>2. AllRight(ps)
      BY DEF PadInv, Padded, ps
    <3>3. ASSUME NEW j \in 1..Len(SentPackets) PROVE Right(SentPackets, j)
      <4>1. j \in 1..Len(ps) /\ ps[j] = SentPackets[j] /\ SentPackets[j].options.from \in Nat
        <5>1. SentPackets[j] \in Packets
          BY <2>1, ElementOfSeq
        <5>2. j \in 1..Len(ps) /\ ps[j] = SentPackets[j]
          BY <3>1
        <5>3. \A p \in Packets : p.options.from \in Nat
          BY DEF Packets, Options
        <5>4. QED
          BY <5>1, <5>2, <5>3
      <4>. DEFINE from == SentPackets[j].options.from
      <4>2. \A k \in from + 1..j : ps[k] = SentPackets[k]
        BY <3>1, <4>1
      <4>. HIDE DEF from
      <4>3. Told(ps, from, j) <=> Told(SentPackets, from, j)
        BY <4>2 DEF Told
      <4>4. Choice(ps[j], Told(ps, from, j)) = Choice(SentPackets[j], Told(SentPackets, from, j))
        BY <4>1, <4>3 DEF Choice
      <4>5. Right(ps, j)
        BY <3>2, <4>1 DEF AllRight
      <4>6. QED
        BY <4>1, <4>4, <4>5 DEF Right, from
    <3>4. QED
      BY <3>3 DEF AllRight
  <2>3. Right(SentPackets, i)
    BY <2>1, <2>2 DEF AllRight
  <2>4. AckInCall(SentPackets, i) <=> Told(SentPackets, SentPackets[i].options.from, i)
    BY DEF AckInCall, Told
  <2>5. QED
    BY <2>3, <2>4 DEF Right, Choice
<1>4. QED
  BY <1>1, <1>2, <1>3, AckAlways, WriterAlways, PTL DEF Spec
====
