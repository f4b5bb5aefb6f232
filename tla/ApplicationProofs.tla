---- MODULE ApplicationProofs ----
(***************************************************************************)
(* Proofs about the 1-RTT packets of a connection, for any number of       *)
(* packets, streams and losses: no connection ID and no limit is           *)
(* forgotten, no retired ID is in use, and a server that keeps to what it  *)
(* was told is never refused a frame.                                      *)
(***************************************************************************)
EXTENDS Application, FiniteSetTheorems, SequenceTheorems, WellFoundedInduction, TLAPS

----------------------------------------------------------------------------
\* The inductive invariant.

\* The record of the connection IDs; those of the client are numbered in order.
IdsOK(i) ==
  /\ i \in IdRecords /\ IsFiniteSet(i.host)
  /\ i.unsent \subseteq i.host /\ \A n \in i.host : n < i.next
  /\ i.available \subseteq Known(i)

\* What the record of the flow is known to hold; out and used are left open.
Limits == [value : Nat, used : Nat, sent : Nat]
Incoming == [highest : Nat, final : Nat, limit : Nat, sent : Nat, open : BOOLEAN]
FlowOK(f) ==
  /\ DOMAIN f = {"data", "count", "in", "out", "open", "queue", "tell", "max", "used", "streams"}
  /\ f.data \in Limits /\ f.count \in Limits /\ f.in \in [Remote -> Incoming]

\* The packets of the client, all the frames it ever sent, and those that still
\* count on their way.
PacketsOK(s) ==
  /\ s \in Seq({s[n] : n \in DOMAIN s})
  /\ \A n \in DOMAIN s :
       s[n] = [frames |-> s[n].frames, fate |-> s[n].fate, arrived |-> s[n].arrived]
EverSent(s) == UNION {s[n].frames : n \in DOMAIN s}
Carries(s, fr) == \E n \in DOMAIN s : fr \in s[n].frames /\ s[n].fate # "lost"

NewIdFrame(n) == [kind |-> "newId", value |-> n]
RetireFrame(n) == [kind |-> "retire", value |-> n]
DataFrame(v) == [kind |-> "maxData", value |-> v]
StreamsFrame(v) == [kind |-> "maxStreams", value |-> v]
StreamDataFrame(s, v) == [kind |-> "maxStreamData", stream |-> s, value |-> v]

\* No frame says more than the client has come to.
FramesOK(s, i, f) ==
  \A fr \in EverSent(s) :
    /\ fr.kind = "retire" => fr.value \in Nat /\ fr = RetireFrame(fr.value)
    /\ fr.kind = "newId" => fr.value \in Nat /\ fr.value < i.next
    /\ fr.kind = "maxData" => fr.value \in 0..f.data.value
    /\ fr.kind = "maxStreams" => fr.value \in 0..f.count.value
    /\ fr.kind = "maxStreamData" => fr.stream \in Remote /\ fr.value \in 0..f.in[fr.stream].limit

\* IDs are used in the order of their numbers: whatever was to be retired, at any
\* time, lies below the one in use.
Retiring(i, s) == i.retire \cup Values(EverSent(s), "retire")
Announced(i, s) == \A n \in i.host \ ({0} \cup i.unsent) : Carries(s, NewIdFrame(n))
Remembered(i, s) ==
  \A n \in Known(i) : \/ n \in {i.dst} \cup i.available \cup i.retire
                      \/ Carries(s, RetireFrame(n))
IdsInv(i, s) ==
  /\ Announced(i, s)
  /\ ~i.orig => (\A n \in Retiring(i, s) : n < i.dst) /\ Remembered(i, s)

\* A limit and what the server is told of it.
Covered(v, said, first, s, fr) ==
  first <= v /\ said <= v /\ (said = v /\ v # first => Carries(s, fr))
LimitsInv(f, s) ==
  /\ Covered(f.data.value, f.data.sent, LocalData, s, DataFrame(f.data.value))
  /\ Covered(f.count.value, f.count.sent, LocalStreams, s, StreamsFrame(f.count.value))
  /\ \A r \in Remote : Covered(f.in[r].limit, f.in[r].sent, LocalStreamData, s,
                               StreamDataFrame(r, f.in[r].limit))

\* The frames of the server.
NetOK ==
  \A p \in net :
    LET fr == p.frame IN
    /\ fr.kind \in {"newId", "retire", "maxData", "maxStreams", "maxStreamData",
                    "data", "reset", "ack"}
    /\ fr.kind = "newId" => fr.value \in Nat /\ fr.prior \in Nat /\ fr.prior <= fr.value
    /\ fr.kind = "retire" => fr.value \in Nat /\ fr.value < ids.next /\ fr.value # p.to
    /\ fr.kind \in {"data", "reset"} =>
         fr.stream \in Remote /\ fr.value \in 1..server.out[fr.stream]

\* The server keeps to what it was told, and was told nothing the client does
\* not know of.
ServerOK ==
  /\ DOMAIN server = {"max", "count", "limit", "out", "reset", "grant", "grantCount",
                      "grantLimit", "next", "prior", "dropped", "hosts", "retired"}
  /\ server.next \in Nat /\ server.prior \in Nat /\ server.prior <= server.next
  /\ server.hosts \subseteq Nat /\ \A h \in server.hosts : h < ids.next
  /\ server.max \in 0..flow.data.value /\ server.count \in 0..flow.count.value
  /\ server.limit \in [Remote -> Nat] /\ server.out \in [Remote -> Nat]
  /\ \A s \in Remote :
       /\ server.limit[s] <= flow.in[s].limit /\ server.out[s] <= server.limit[s]
       /\ server.out[s] > 0 => s < server.count
  /\ Total(server.out) <= server.max

\* What counts against the client's limit, by streams: as long as no frame came
\* after the reset of its stream.
Reached(f) == [s \in Remote |-> Larger(f.in[s].highest, f.in[s].final)]
Counted ==
  ~repeated => /\ ~refused
               /\ \A s \in Remote : Reached(flow)[s] <= server.out[s]
               /\ flow.data.used = Total(Reached(flow))

\* The client with the packets s, before or after a transmit.
ClientOK(i, f, s) ==
  /\ IdsOK(i) /\ FlowOK(f) /\ PacketsOK(s) /\ FramesOK(s, i, f)
  /\ IdsInv(i, s) /\ LimitsInv(f, s)

ApplicationInv ==
  /\ complete \in BOOLEAN
  /\ ClientOK(ids, flow, sent)
  /\ NetOK /\ ServerOK /\ Counted

----------------------------------------------------------------------------

(***************************************************************************)
(* Numbers and sums.                                                       *)
(***************************************************************************)
\* A set of numbers that is not empty has a least one.
LEMMA HasLeast ==
  ASSUME NEW S \in SUBSET Nat, S # {}
  PROVE  \E x \in S : \A y \in S : x <= y
<1>1. PICK x \in S : \A y \in S : ~ (<<y, x>> \in OpToRel(<, Nat))
  BY NatLessThanWellFounded, WFMin
<1>2. ASSUME NEW y \in S PROVE x <= y
  <2>1. y \in Nat /\ x \in Nat /\ <<y, x>> \in Nat \X Nat
    OBVIOUS
  <2>2. ~ (y < x)
    BY <1>1, <2>1 DEF OpToRel
  <2>3. QED
    BY <2>1, <2>2
<1>3. QED
  BY <1>2

\* A bounded one has a largest.
LEMMA MaxIsLargest ==
  ASSUME NEW b \in Nat, NEW S \in SUBSET (0..b), S # {}
  PROVE  Max(S) \in S /\ \A y \in S : y <= Max(S)
<1>. DEFINE Above == {n \in Nat : \A y \in S : y <= n}
<1>1. b \in Above
  OBVIOUS
<1>2. PICK m \in Above : \A n \in Above : m <= n
  <2>1. Above \in SUBSET Nat /\ Above # {}
    BY <1>1
  <2>2. QED
    BY <2>1, HasLeast
<1>3. m \in S
  <2>1. SUFFICES ASSUME m \notin S PROVE FALSE
    OBVIOUS
  <2>2. m # 0
    <3>1. PICK y \in S : TRUE
      OBVIOUS
    <3>2. y \in Nat /\ y <= m /\ y # m
      BY <1>2, <2>1
    <3>3. QED
      BY <3>2
  <2>3. m - 1 \in Above
    <3>1. ASSUME NEW y \in S PROVE y <= m - 1
      <4>1. y \in Nat /\ y <= m /\ y # m
        BY <1>2, <2>1
      <4>2. QED
        BY <4>1, <1>2
    <3>2. m - 1 \in Nat
      BY <1>2, <2>2
    <3>3. QED
      BY <3>1, <3>2
  <2>4. QED
    BY <1>2, <2>3
<1>4. \E x \in S : \A y \in S : x >= y
  <2>1. \A y \in S : m >= y
    BY <1>2, <1>3
  <2>2. QED
    BY <1>3, <2>1
<1>5. Max(S) \in S /\ \A y \in S : Max(S) >= y
  <2>1. Max(S) = CHOOSE x \in S : \A y \in S : x >= y
    BY DEF Max
  <2>2. QED
    BY <1>4, <2>1
<1>6. QED
  BY <1>5

\* A first part of the function of the partial sums.
SumsUpTo(f, n, g) ==
  g = [m \in 0..n |-> IF m = 0 THEN 0 ELSE g[m - 1] + ValueAt(f, m - 1)]

LEMMA SumsUpToExist ==
  ASSUME NEW f
  PROVE  \A n \in Nat : \E g : SumsUpTo(f, n, g)
<1>. DEFINE Bad == {n \in Nat : ~ \E g : SumsUpTo(f, n, g)}
<1>1. SUFFICES ASSUME Bad # {} PROVE FALSE
  OBVIOUS
<1>2. PICK b \in Bad : \A y \in Bad : b <= y
  BY <1>1, HasLeast
<1>3. b # 0
  <2>1. SumsUpTo(f, 0, [m \in 0..0 |-> 0])
    BY DEF SumsUpTo
  <2>2. QED
    BY <2>1
<1>4. b - 1 \in Nat /\ b - 1 \notin Bad
  BY <1>2, <1>3
<1>5. PICK g : SumsUpTo(f, b - 1, g)
  BY <1>4
<1>. DEFINE h == [m \in 0..b |-> IF m = b THEN g[b - 1] + ValueAt(f, b - 1) ELSE g[m]]
<1>6. \A m \in 0..(b - 1) : g[m] = IF m = 0 THEN 0 ELSE g[m - 1] + ValueAt(f, m - 1)
  BY <1>5, <1>4 DEF SumsUpTo
<1>7. \A m \in 0..b : h[m] = IF m = 0 THEN 0 ELSE h[m - 1] + ValueAt(f, m - 1)
  BY <1>3, <1>6
<1>8. SumsUpTo(f, b, h)
  <2>. HIDE DEF h
  <2>1. h = [m \in 0..b |-> h[m]]
    BY DEF h
  <2>2. QED
    BY <1>7, <2>1 DEF SumsUpTo
<1>9. QED
  BY <1>8

LEMMA SumsUpToAgree ==
  ASSUME NEW f, NEW n \in Nat, NEW m \in Nat, n <= m,
         NEW g, SumsUpTo(f, n, g), NEW h, SumsUpTo(f, m, h)
  PROVE  \A k \in 0..n : g[k] = h[k]
<1>. DEFINE Bad == {k \in 0..n : g[k] # h[k]}
<1>1. SUFFICES ASSUME Bad # {} PROVE FALSE
  OBVIOUS
<1>2. PICK b \in Bad : \A y \in Bad : b <= y
  <2>1. Bad \in SUBSET Nat
    OBVIOUS
  <2>2. QED
    BY <1>1, <2>1, HasLeast
<1>3. /\ g[b] = IF b = 0 THEN 0 ELSE g[b - 1] + ValueAt(f, b - 1)
      /\ h[b] = IF b = 0 THEN 0 ELSE h[b - 1] + ValueAt(f, b - 1)
  BY <1>2 DEF SumsUpTo
<1>4. b # 0
  BY <1>2, <1>3
<1>5. b - 1 \in 0..n /\ b - 1 \notin Bad
  BY <1>2, <1>4
<1>6. QED
  BY <1>2, <1>3, <1>4, <1>5

\* What the partial sums are.
LEMMA SumToSteps ==
  ASSUME NEW f
  PROVE  /\ SumTo(f)[0] = 0
         /\ \A n \in Nat : SumTo(f)[n + 1] = SumTo(f)[n] + ValueAt(f, n)
<1>. DEFINE G(n) == CHOOSE g : SumsUpTo(f, n, g)
            S == [n \in Nat |-> G(n)[n]]
            Step(s) == [n \in Nat |-> IF n = 0 THEN 0 ELSE s[n - 1] + ValueAt(f, n - 1)]
<1>1. \A n \in Nat : SumsUpTo(f, n, G(n))
  BY SumsUpToExist
<1>. HIDE DEF G
<1>2. ASSUME NEW n \in Nat PROVE S[n] = IF n = 0 THEN 0 ELSE S[n - 1] + ValueAt(f, n - 1)
  <2>1. G(n)[n] = IF n = 0 THEN 0 ELSE G(n)[n - 1] + ValueAt(f, n - 1)
    BY <1>1 DEF SumsUpTo
  <2>2. CASE n = 0
    BY <2>1, <2>2
  <2>3. CASE n # 0
    <3>1. n - 1 \in Nat /\ n - 1 <= n /\ n - 1 \in 0..(n - 1)
      BY <2>3
    <3>2. G(n - 1)[n - 1] = G(n)[n - 1]
      BY <1>1, <3>1, SumsUpToAgree
    <3>3. QED
      BY <2>1, <2>3, <3>1, <3>2
  <2>4. QED
    BY <2>2, <2>3
<1>3. S = Step(S)
  BY <1>2
<1>4. SumTo(f) = CHOOSE s : s = Step(s)
  BY Zenon DEF SumTo
<1>5. SumTo(f) = Step(SumTo(f))
  <2>. HIDE DEF S, Step
  <2>1. QED
    BY <1>3, <1>4
<1>6. \A n \in Nat : SumTo(f)[n] = IF n = 0 THEN 0 ELSE SumTo(f)[n - 1] + ValueAt(f, n - 1)
  BY <1>5
<1>7. QED
  BY <1>6

LEMMA SumToType ==
  ASSUME NEW D \in SUBSET Nat, NEW f \in [D -> Nat]
  PROVE  \A n \in Nat : SumTo(f)[n] \in Nat
<1>. DEFINE Bad == {n \in Nat : SumTo(f)[n] \notin Nat}
<1>1. SUFFICES ASSUME Bad # {} PROVE FALSE
  OBVIOUS
<1>2. PICK b \in Bad : \A y \in Bad : b <= y
  BY <1>1, HasLeast
<1>3. b # 0
  BY <1>2, SumToSteps
<1>4. b - 1 \in Nat /\ b - 1 \notin Bad
  BY <1>2, <1>3
<1>5. ValueAt(f, b - 1) \in Nat
  BY DEF ValueAt
<1>6. SumTo(f)[b] = SumTo(f)[b - 1] + ValueAt(f, b - 1)
  <2>1. (b - 1) + 1 = b
    BY <1>4
  <2>2. QED
    BY <1>4, <2>1, SumToSteps
<1>7. QED
  BY <1>4, <1>5, <1>6

\* The sum of a larger function is larger.
LEMMA SumToMonotone ==
  ASSUME NEW D \in SUBSET Nat, NEW f \in [D -> Nat], NEW g \in [D -> Nat],
         \A s \in D : f[s] <= g[s]
  PROVE  \A n \in Nat : SumTo(f)[n] <= SumTo(g)[n]
<1>. DEFINE Bad == {n \in Nat : ~(SumTo(f)[n] <= SumTo(g)[n])}
<1>1. SUFFICES ASSUME Bad # {} PROVE FALSE
  OBVIOUS
<1>2. PICK b \in Bad : \A y \in Bad : b <= y
  BY <1>1, HasLeast
<1>3. b # 0
  BY <1>2, SumToSteps
<1>4. b - 1 \in Nat /\ b - 1 \notin Bad /\ (b - 1) + 1 = b
  BY <1>2, <1>3
<1>5. ValueAt(f, b - 1) \in Nat /\ ValueAt(g, b - 1) \in Nat /\ ValueAt(f, b - 1) <= ValueAt(g, b - 1)
  BY DEF ValueAt
<1>6. /\ SumTo(f)[b] = SumTo(f)[b - 1] + ValueAt(f, b - 1)
      /\ SumTo(g)[b] = SumTo(g)[b - 1] + ValueAt(g, b - 1)
  BY <1>4, SumToSteps
<1>7. SumTo(f)[b - 1] \in Nat /\ SumTo(g)[b - 1] \in Nat
  BY <1>4, SumToType
<1>8. QED
  BY <1>2, <1>4, <1>5, <1>6, <1>7

\* One value that grows makes the sum grow by as much.
LEMMA SumToGrows ==
  ASSUME NEW D \in SUBSET Nat, NEW f \in [D -> Nat], NEW s \in D, NEW d \in Nat
  PROVE  \A n \in Nat : SumTo([f EXCEPT ![s] = @ + d])[n]
                          = SumTo(f)[n] + (IF s < n THEN d ELSE 0)
<1>. DEFINE g == [f EXCEPT ![s] = @ + d]
            Bad == {n \in Nat : SumTo(g)[n] # SumTo(f)[n] + (IF s < n THEN d ELSE 0)}
<1>1. SUFFICES ASSUME Bad # {} PROVE FALSE
  OBVIOUS
<1>2. \A k \in Nat : ValueAt(g, k) = ValueAt(f, k) + (IF k = s THEN d ELSE 0)
  BY DEF ValueAt
<1>. HIDE DEF g
<1>3. PICK b \in Bad : \A y \in Bad : b <= y
  BY <1>1, HasLeast
<1>4. b # 0
  BY <1>3, SumToSteps
<1>5. b - 1 \in Nat /\ b - 1 \notin Bad /\ (b - 1) + 1 = b
  BY <1>3, <1>4
<1>6. ValueAt(f, b - 1) \in Nat
  BY DEF ValueAt
<1>7. /\ SumTo(f)[b] = SumTo(f)[b - 1] + ValueAt(f, b - 1)
      /\ SumTo(g)[b] = SumTo(g)[b - 1] + ValueAt(g, b - 1)
  BY <1>5, SumToSteps
<1>8. SumTo(f)[b - 1] \in Nat
  BY <1>5, SumToType
<1>9. QED
  BY <1>2, <1>3, <1>5, <1>6, <1>7, <1>8

\* Nothing sums up to nothing.
LEMMA SumToZero ==
  ASSUME NEW D \in SUBSET Nat
  PROVE  \A n \in Nat : SumTo([s \in D |-> 0])[n] = 0
<1>. DEFINE f == [s \in D |-> 0]
            Bad == {n \in Nat : SumTo(f)[n] # 0}
<1>1. SUFFICES ASSUME Bad # {} PROVE FALSE
  OBVIOUS
<1>2. \A n \in Nat : ValueAt(f, n) = 0
  BY DEF ValueAt
<1>. HIDE DEF f
<1>3. PICK b \in Bad : \A y \in Bad : b <= y
  BY <1>1, HasLeast
<1>4. b # 0
  BY <1>3, SumToSteps
<1>5. b - 1 \in Nat /\ b - 1 \notin Bad /\ (b - 1) + 1 = b
  BY <1>3, <1>4
<1>6. SumTo(f)[b] = SumTo(f)[b - 1] + ValueAt(f, b - 1)
  BY <1>5, SumToSteps
<1>7. QED
  BY <1>2, <1>3, <1>5, <1>6

\* The same of the total of a function of the server's streams.
LEMMA TotalFacts ==
  ASSUME NEW f \in [Remote -> Nat]
  PROVE  /\ Total(f) \in Nat
         /\ \A g \in [Remote -> Nat] : (\A s \in Remote : f[s] <= g[s]) => Total(f) <= Total(g)
         /\ \A s \in Remote, d \in Nat : Total([f EXCEPT ![s] = @ + d]) = Total(f) + d
         /\ Total([s \in Remote |-> 0]) = 0
<1>. DEFINE n == Cardinality(Remote)
<1>1. n \in Nat
  BY FS_CardinalityType, FlowAssumption
<1>2. Remote \in SUBSET Nat
  BY <1>1, FlowAssumption
<1>3. \A g \in [Remote -> Nat] : Total(g) = SumTo(g)[n]
  BY DEF Total
<1>4. Total(f) \in Nat
  BY <1>1, <1>2, <1>3, SumToType
<1>5. ASSUME NEW g \in [Remote -> Nat], \A s \in Remote : f[s] <= g[s]
      PROVE  Total(f) <= Total(g)
  BY <1>1, <1>2, <1>3, <1>5, SumToMonotone
<1>6. ASSUME NEW s \in Remote, NEW d \in Nat
      PROVE  Total([f EXCEPT ![s] = @ + d]) = Total(f) + d
  <2>1. [f EXCEPT ![s] = @ + d] \in [Remote -> Nat]
    OBVIOUS
  <2>2. s < n
    <3>1. s \in 0..(n - 1)
      BY FlowAssumption
    <3>2. QED
      BY <1>1, <3>1
  <2>3. SumTo([f EXCEPT ![s] = @ + d])[n] = SumTo(f)[n] + (IF s < n THEN d ELSE 0)
    <3>1. \A k \in Nat : SumTo([f EXCEPT ![s] = @ + d])[k]
                           = SumTo(f)[k] + (IF s < k THEN d ELSE 0)
      BY <1>2, SumToGrows, Zenon
    <3>2. QED
      BY <1>1, <3>1
  <2>4. QED
    BY <1>3, <2>1, <2>2, <2>3
<1>7. Total([s \in Remote |-> 0]) = 0
  BY <1>1, <1>2, SumToZero DEF Total
<1>8. QED
  BY <1>4, <1>5, <1>6, <1>7

----------------------------------------------------------------------------
(***************************************************************************)
(* The packets of the client.                                              *)
(***************************************************************************)
LEMMA NoPackets == PacketsOK(<<>>) /\ EverSent(<<>>) = {} /\ \A fr : ~Carries(<<>>, fr)
<1>1. <<>> \in Seq({}) /\ DOMAIN <<>> = {}
  BY EmptySeq
<1>2. {<<>>[n] : n \in DOMAIN <<>>} = {}
  BY <1>1
<1>3. QED
  BY <1>1, <1>2 DEF PacketsOK, EverSent, Carries

\* A sequence of packets, as a function on their numbers.
LEMMA PacketsAreFunction ==
  ASSUME NEW s, NEW l \in Nat, DOMAIN s = 1..l, s = [n \in DOMAIN s |-> s[n]]
  PROVE  s \in Seq({s[n] : n \in DOMAIN s})
<1>. DEFINE R == {s[n] : n \in DOMAIN s}
<1>1. s \in [1..l -> R]
  OBVIOUS
<1>2. QED
  BY <1>1, SeqDef

LEMMA PacketsShape ==
  ASSUME NEW s, PacketsOK(s)
  PROVE  Len(s) \in Nat /\ DOMAIN s = 1..Len(s) /\ s = [n \in DOMAIN s |-> s[n]]
<1>. DEFINE R == {s[n] : n \in DOMAIN s}
<1>1. s \in Seq(R)
  BY DEF PacketsOK
<1>2. QED
  BY <1>1, LenProperties

\* One more packet.
Packet(frames) == [frames |-> frames, fate |-> "out", arrived |-> FALSE]
LEMMA PacketAppended ==
  ASSUME NEW s, PacketsOK(s), NEW frames
  PROVE  LET t == Append(s, Packet(frames)) IN
         /\ PacketsOK(t)
         /\ EverSent(t) = EverSent(s) \cup frames
         /\ \A fr : Carries(s, fr) \/ fr \in frames => Carries(t, fr)
<1>. DEFINE p == Packet(frames)
            t == Append(s, p)
            R == {s[n] : n \in DOMAIN s} \cup {p}
            l == Len(s)
<1>1. l \in Nat /\ DOMAIN s = 1..l /\ s = [n \in DOMAIN s |-> s[n]]
  BY PacketsShape
<1>2. s \in Seq(R)
  <2>1. s \in [1..l -> R]
    BY <1>1
  <2>2. QED
    BY <1>1, <2>1, SeqDef
<1>3. /\ t \in Seq(R) /\ Len(t) = l + 1
      /\ \A i \in 1..l : t[i] = s[i]
      /\ t[l + 1] = p
  <2>. HIDE DEF R
  <2>1. p \in R
    BY DEF R
  <2>2. QED
    BY <1>1, <1>2, <2>1, AppendProperties
<1>4. DOMAIN t = 1..(l + 1) /\ t = [n \in DOMAIN t |-> t[n]]
  <2>. HIDE DEF R, t
  <2>1. QED
    BY <1>3, LenProperties
<1>5. p.frames = frames /\ p.fate = "out" /\ p.arrived = FALSE
  BY DEF Packet
<1>6. p = [frames |-> p.frames, fate |-> p.fate, arrived |-> p.arrived]
  BY DEF Packet
<1>. HIDE DEF t, p, R
<1>7. PacketsOK(t)
  <2>1. t \in Seq({t[n] : n \in DOMAIN t})
    BY <1>1, <1>4, PacketsAreFunction
  <2>2. ASSUME NEW n \in DOMAIN t
        PROVE  t[n] = [frames |-> t[n].frames, fate |-> t[n].fate, arrived |-> t[n].arrived]
    <3>1. CASE n \in 1..l
      BY <1>1, <1>3, <3>1 DEF PacketsOK
    <3>2. CASE n = l + 1
      BY <1>3, <1>6, <3>2
    <3>3. QED
      BY <1>1, <1>4, <2>2, <3>1, <3>2
  <2>3. QED
    BY <2>1, <2>2 DEF PacketsOK
<1>8. EverSent(t) = EverSent(s) \cup frames
  <2>1. ASSUME NEW fr PROVE fr \in EverSent(t) <=> fr \in EverSent(s) \cup frames
    <3>1. fr \in EverSent(t) <=> \E n \in 1..(l + 1) : fr \in t[n].frames
      BY <1>4 DEF EverSent
    <3>2. fr \in EverSent(s) <=> \E n \in 1..l : fr \in s[n].frames
      BY <1>1 DEF EverSent
    <3>3. \A n \in 1..(l + 1) : n \in 1..l \/ n = l + 1
      BY <1>1
    <3>4. 1..l \subseteq 1..(l + 1) /\ l + 1 \in 1..(l + 1)
      BY <1>1
    <3>5. QED
      BY <1>3, <1>5, <3>1, <3>2, <3>3, <3>4
  <2>2. QED
    BY <2>1
<1>9. ASSUME NEW fr, Carries(s, fr) \/ fr \in frames PROVE Carries(t, fr)
  <2>1. CASE fr \in frames
    <3>1. l + 1 \in DOMAIN t
      BY <1>1, <1>4
    <3>2. QED
      BY <1>3, <1>5, <2>1, <3>1 DEF Carries
  <2>2. CASE Carries(s, fr)
    <3>1. PICK n \in DOMAIN s : fr \in s[n].frames /\ s[n].fate # "lost"
      BY <2>2 DEF Carries
    <3>2. n \in DOMAIN t /\ t[n] = s[n]
      BY <1>1, <1>3, <1>4, <3>1
    <3>3. QED
      BY <3>1, <3>2 DEF Carries
  <2>3. QED
    BY <1>9, <2>1, <2>2
<1>10. QED
  BY <1>7, <1>8, <1>9 DEF t, p

\* Packets whose fates or arrivals change.
LEMMA PacketsMarked ==
  ASSUME NEW s, PacketsOK(s), NEW t, DOMAIN t = DOMAIN s, t = [n \in DOMAIN t |-> t[n]],
         \A n \in DOMAIN s :
           /\ t[n] = [frames |-> t[n].frames, fate |-> t[n].fate, arrived |-> t[n].arrived]
           /\ t[n].frames = s[n].frames
  PROVE  PacketsOK(t) /\ EverSent(t) = EverSent(s)
<1>1. PacketsOK(t)
  BY PacketsShape, PacketsAreFunction DEF PacketsOK
<1>2. EverSent(t) = EverSent(s)
  BY DEF EverSent
<1>3. QED
  BY <1>1, <1>2

\* An acknowledgement: what no packet reported lost has carried is carried still.
Marked(s, S, L) ==
  [n \in DOMAIN s |->
    [s[n] EXCEPT !.fate = IF n \in S THEN "acked" ELSE IF n \in L THEN "lost" ELSE @]]
LEMMA PacketsAcknowledged ==
  ASSUME NEW s, PacketsOK(s), NEW S, NEW L
  PROVE  /\ PacketsOK(Marked(s, S, L))
         /\ EverSent(Marked(s, S, L)) = EverSent(s)
         /\ \A fr : Carries(s, fr) /\ fr \notin UNION {s[n].frames : n \in L}
                      => Carries(Marked(s, S, L), fr)
<1>. DEFINE t == Marked(s, S, L)
<1>1. DOMAIN t = DOMAIN s /\ t = [n \in DOMAIN t |-> t[n]]
  BY DEF Marked
<1>2. ASSUME NEW n \in DOMAIN s
      PROVE  /\ t[n] = [frames |-> t[n].frames, fate |-> t[n].fate, arrived |-> t[n].arrived]
             /\ t[n].frames = s[n].frames
             /\ t[n].fate = IF n \in S THEN "acked" ELSE IF n \in L THEN "lost" ELSE s[n].fate
  <2>. DEFINE r == s[n]
  <2>1. r = [frames |-> r.frames, fate |-> r.fate, arrived |-> r.arrived]
    BY DEF PacketsOK
  <2>2. t[n] = [r EXCEPT !.fate = IF n \in S THEN "acked" ELSE IF n \in L THEN "lost" ELSE @]
    BY DEF Marked
  <2>. HIDE DEF r, t
  <2>3. t[n] = [frames |-> r.frames,
                fate |-> IF n \in S THEN "acked" ELSE IF n \in L THEN "lost" ELSE r.fate,
                arrived |-> r.arrived]
    BY <2>1, <2>2
  <2>4. QED
    BY <2>3 DEF r
<1>. HIDE DEF t
<1>3. PacketsOK(t) /\ EverSent(t) = EverSent(s)
  BY <1>1, <1>2, PacketsMarked
<1>4. ASSUME NEW fr, Carries(s, fr), fr \notin UNION {s[n].frames : n \in L} PROVE Carries(t, fr)
  <2>1. PICK n \in DOMAIN s : fr \in s[n].frames /\ s[n].fate # "lost"
    BY <1>4 DEF Carries
  <2>2. n \notin L
    BY <1>4, <2>1
  <2>3. QED
    BY <1>1, <1>2, <2>1, <2>2 DEF Carries
<1>5. QED
  BY <1>3, <1>4 DEF t

\* The arrival of a packet.
LEMMA PacketArrives ==
  ASSUME NEW s, PacketsOK(s), NEW k \in DOMAIN s
  PROVE  LET t == [s EXCEPT ![k].arrived = TRUE] IN
         /\ PacketsOK(t) /\ EverSent(t) = EverSent(s)
         /\ \A fr : Carries(s, fr) => Carries(t, fr)
<1>. DEFINE t == [s EXCEPT ![k].arrived = TRUE]
<1>1. DOMAIN t = DOMAIN s /\ t = [n \in DOMAIN t |-> t[n]]
  BY PacketsShape
<1>2. ASSUME NEW n \in DOMAIN s
      PROVE  /\ t[n] = [frames |-> t[n].frames, fate |-> t[n].fate, arrived |-> t[n].arrived]
             /\ t[n].frames = s[n].frames /\ t[n].fate = s[n].fate
  <2>1. s[n] = [frames |-> s[n].frames, fate |-> s[n].fate, arrived |-> s[n].arrived]
    BY DEF PacketsOK
  <2>2. t[n] = IF n = k THEN [s[n] EXCEPT !.arrived = TRUE] ELSE s[n]
    BY PacketsShape
  <2>. HIDE DEF t
  <2>3. QED
    BY <2>1, <2>2
<1>. HIDE DEF t
<1>3. PacketsOK(t) /\ EverSent(t) = EverSent(s)
  BY <1>1, <1>2, PacketsMarked
<1>4. \A fr : Carries(s, fr) => Carries(t, fr)
  BY <1>1, <1>2 DEF Carries
<1>5. QED
  BY <1>3, <1>4 DEF t

----------------------------------------------------------------------------
(***************************************************************************)
(* A transmit.                                                             *)
(***************************************************************************)
LEMMA Transmits ==
  ASSUME NEW i, NEW f, NEW a, NEW done \in BOOLEAN, NEW fates, PacketsOK(fates),
         Transmit(i, f, a, done, fates)
  PROVE  /\ ids' = IF done THEN IdsWritten(i) ELSE i
         /\ flow' = Flow(f, done)
         /\ PacketsOK(sent')
         /\ EverSent(sent') = EverSent(fates) \cup AllFrames(i, f, a, done)
         /\ \A fr : Carries(fates, fr) \/ fr \in AllFrames(i, f, a, done) => Carries(sent', fr)
<1>. DEFINE frames == AllFrames(i, f, a, done)
<1>1. /\ ids' = IF done THEN IdsWritten(i) ELSE i
      /\ flow' = Flow(f, done)
      /\ sent' = IF frames = {} THEN fates ELSE Append(fates, Packet(frames))
  BY DEF Transmit, Packet
<1>. HIDE DEF frames
<1>2. CASE frames = {}
  <2>1. sent' = fates
    BY <1>1, <1>2
  <2>2. QED
    BY <1>1, <1>2, <2>1 DEF frames
<1>3. CASE frames # {}
  <2>1. sent' = Append(fates, Packet(frames))
    BY <1>1, <1>3
  <2>2. QED
    BY <1>1, <2>1, PacketAppended DEF frames
<1>4. QED
  BY <1>2, <1>3

\* The flow after one pass of _write_application.
ToldLimit(l) == [value |-> Raise(l).value, used |-> l.used, sent |-> Raise(l).value]
ToldStream(r) ==
  [highest |-> r.highest, final |-> r.final, limit |-> RaiseStream(r).limit,
   sent |-> RaiseStream(r).limit, open |-> r.open]

LEMMA RaiseFacts ==
  ASSUME NEW l \in Limits
  PROVE  /\ Raise(l) \in Limits /\ Raise(l).used = l.used /\ Raise(l).sent = l.sent
         /\ l.value <= Raise(l).value
         /\ Told(Raise(l)) = ToldLimit(l)
         /\ ToldLimit(l) \in Limits
<1>1. /\ Raise(l) = [value |-> IF l.used * 2 > l.value THEN l.value * 2 ELSE l.value,
                     used |-> l.used, sent |-> l.sent]
  BY DEF Raise, Limits
<1>2. l.value \in Nat /\ l.used \in Nat /\ l.sent \in Nat
  BY DEF Limits
<1>3. Raise(l).value \in Nat /\ l.value <= Raise(l).value
  BY <1>1, <1>2
<1>4. Raise(l).used = l.used /\ Raise(l).sent = l.sent /\ Raise(l) \in Limits
  BY <1>1, <1>2, <1>3 DEF Limits
<1>5. QED
  BY <1>1, <1>2, <1>3, <1>4 DEF Told, ToldLimit, Limits

LEMMA RaiseStreamFacts ==
  ASSUME NEW r \in Incoming
  PROVE  /\ RaiseStream(r) \in Incoming /\ RaiseStream(r).sent = r.sent
         /\ r.limit <= RaiseStream(r).limit
         /\ [RaiseStream(r) EXCEPT !.sent = RaiseStream(r).limit] = ToldStream(r)
         /\ ToldStream(r) \in Incoming
<1>1. RaiseStream(r) = [highest |-> r.highest, final |-> r.final,
                        limit |-> IF r.highest * 2 > r.limit THEN r.limit * 2 ELSE r.limit,
                        sent |-> r.sent, open |-> r.open]
  BY DEF RaiseStream, Incoming
<1>2. r.highest \in Nat /\ r.final \in Nat /\ r.limit \in Nat /\ r.sent \in Nat
  BY DEF Incoming
<1>3. r.open \in BOOLEAN
  BY DEF Incoming
<1>4. RaiseStream(r).limit \in Nat /\ r.limit <= RaiseStream(r).limit
  BY <1>1, <1>2
<1>5. RaiseStream(r).sent = r.sent /\ RaiseStream(r) \in Incoming
  BY <1>1, <1>2, <1>3, <1>4 DEF Incoming
<1>6. [RaiseStream(r) EXCEPT !.sent = RaiseStream(r).limit] = ToldStream(r)
  BY <1>1 DEF ToldStream
<1>7. ToldStream(r) \in Incoming
  BY <1>2, <1>3, <1>4 DEF ToldStream, Incoming
<1>8. QED
  BY <1>4, <1>5, <1>6, <1>7

LEMMA FlowRaised ==
  ASSUME NEW f, FlowOK(f), NEW done \in BOOLEAN
  PROVE  /\ DOMAIN Raised(f, done) = DOMAIN f
         /\ Raised(f, done).data = IF done THEN Raise(f.data) ELSE f.data
         /\ Raised(f, done).count = IF done THEN Raise(f.count) ELSE f.count
         /\ Raised(f, done).in \in [Remote -> Incoming]
         /\ \A s \in Remote : Raised(f, done).in[s]
                                = IF f.in[s].open THEN RaiseStream(f.in[s]) ELSE f.in[s]
<1>. DEFINE in == [s \in Remote |-> IF f.in[s].open THEN RaiseStream(f.in[s]) ELSE f.in[s]]
<1>1. /\ DOMAIN Raised(f, done) = DOMAIN f
      /\ Raised(f, done).data = IF done THEN Raise(f.data) ELSE f.data
      /\ Raised(f, done).count = IF done THEN Raise(f.count) ELSE f.count
      /\ Raised(f, done).in = in
  BY DEF Raised, FlowOK
<1>2. in \in [Remote -> Incoming]
  <2>1. \A s \in Remote : RaiseStream(f.in[s]) \in Incoming
    BY RaiseStreamFacts DEF FlowOK
  <2>2. QED
    BY <2>1 DEF FlowOK
<1>3. QED
  BY <1>1, <1>2

LEMMA FlowWritten ==
  ASSUME NEW f, FlowOK(f), NEW done \in BOOLEAN
  PROVE  /\ FlowOK(Flow(f, done))
         /\ Flow(f, done).data = IF done THEN ToldLimit(f.data) ELSE f.data
         /\ Flow(f, done).count = IF done THEN ToldLimit(f.count) ELSE f.count
         /\ \A s \in Remote : Flow(f, done).in[s]
                                = IF f.in[s].open THEN ToldStream(f.in[s]) ELSE f.in[s]
<1>. DEFINE r == Raised(f, done)
            in == [s \in Remote |->
                    IF f.in[s].open THEN [r.in[s] EXCEPT !.sent = r.in[s].limit] ELSE r.in[s]]
            t == [r EXCEPT !.data = IF done THEN Told(@) ELSE @,
                           !.count = IF done THEN Told(@) ELSE @,
                           !.tell = @ /\ ~done,
                           !.in = in]
            w == FoldLeft(WriteStream, t, f.open)
<1>1. Flow(f, done) = [t EXCEPT !.out = w.out, !.used = w.used]
  BY DEF Flow
<1>. HIDE DEF w, in
<1>2. /\ DOMAIN t = DOMAIN r
      /\ t.data = IF done THEN Told(r.data) ELSE r.data
      /\ t.count = IF done THEN Told(r.count) ELSE r.count
      /\ t.in = in
  <2>1. DOMAIN r = DOMAIN f
    BY FlowRaised
  <2>. HIDE DEF r
  <2>2. QED
    BY <2>1 DEF FlowOK
<1>. HIDE DEF t
<1>3. /\ DOMAIN Flow(f, done) = DOMAIN f
      /\ Flow(f, done).data = t.data
      /\ Flow(f, done).count = t.count
      /\ Flow(f, done).in = in
  <2>1. DOMAIN t = DOMAIN f
    BY <1>2, FlowRaised
  <2>2. QED
    BY <1>1, <1>2, <2>1 DEF FlowOK
<1>4. t.data = IF done THEN ToldLimit(f.data) ELSE f.data
  BY <1>2, FlowRaised, RaiseFacts DEF FlowOK
<1>5. t.count = IF done THEN ToldLimit(f.count) ELSE f.count
  BY <1>2, FlowRaised, RaiseFacts DEF FlowOK
<1>6. ASSUME NEW s \in Remote
      PROVE  /\ in[s] = IF f.in[s].open THEN ToldStream(f.in[s]) ELSE f.in[s]
             /\ in[s] \in Incoming
  <2>1. f.in[s] \in Incoming
    BY DEF FlowOK
  <2>2. in[s] = IF f.in[s].open THEN [r.in[s] EXCEPT !.sent = r.in[s].limit] ELSE r.in[s]
    BY DEF in
  <2>3. r.in[s] = IF f.in[s].open THEN RaiseStream(f.in[s]) ELSE f.in[s]
    BY FlowRaised
  <2>. HIDE DEF r
  <2>4. CASE f.in[s].open
    <3>1. in[s] = [RaiseStream(f.in[s]) EXCEPT !.sent = RaiseStream(f.in[s]).limit]
      BY <2>2, <2>3, <2>4
    <3>2. QED
      BY <2>1, <2>4, <3>1, RaiseStreamFacts
  <2>5. CASE ~f.in[s].open
    BY <2>1, <2>2, <2>3, <2>5
  <2>6. QED
    BY <2>4, <2>5
<1>7. in \in [Remote -> Incoming]
  <2>1. in = [s \in Remote |-> in[s]]
    BY DEF in
  <2>2. QED
    BY <1>6, <2>1
<1>8. FlowOK(Flow(f, done))
  <2>1. t.data \in Limits
    BY <1>4, RaiseFacts DEF FlowOK
  <2>2. t.count \in Limits
    BY <1>5, RaiseFacts DEF FlowOK
  <2>3. QED
    BY <1>3, <1>7, <2>1, <2>2 DEF FlowOK
<1>9. QED
  BY <1>3, <1>4, <1>5, <1>6, <1>8

\* The same, limit by limit.
LEMMA DataWritten ==
  ASSUME NEW f, FlowOK(f), NEW done \in BOOLEAN
  PROVE  LET l == f.data
             r == Raised(f, done).data
             g == Flow(f, done).data
         IN /\ {l.value, l.sent, l.used, r.value} \subseteq Nat
            /\ l.value <= r.value /\ r.sent = l.sent
            /\ g.value = r.value /\ g.used = l.used
            /\ done => g.sent = g.value
            /\ ~done => g = l
<1>1. f.data \in Limits
  BY DEF FlowOK
<1>2. CASE done
  <2>1. Raised(f, done).data = Raise(f.data) /\ Flow(f, done).data = ToldLimit(f.data)
    BY <1>2, FlowRaised, FlowWritten
  <2>2. /\ Raise(f.data) \in Limits /\ Raise(f.data).sent = f.data.sent
        /\ f.data.value <= Raise(f.data).value
    BY <1>1, RaiseFacts
  <2>3. /\ ToldLimit(f.data).value = Raise(f.data).value
        /\ ToldLimit(f.data).sent = Raise(f.data).value
        /\ ToldLimit(f.data).used = f.data.used
    BY DEF ToldLimit
  <2>4. QED
    BY <1>1, <1>2, <2>1, <2>2, <2>3 DEF Limits
<1>3. CASE ~done
  <2>1. Raised(f, done).data = f.data /\ Flow(f, done).data = f.data
    BY <1>3, FlowRaised, FlowWritten
  <2>2. QED
    BY <1>1, <1>3, <2>1 DEF Limits
<1>4. QED
  BY <1>2, <1>3

LEMMA CountWritten ==
  ASSUME NEW f, FlowOK(f), NEW done \in BOOLEAN
  PROVE  LET l == f.count
             r == Raised(f, done).count
             g == Flow(f, done).count
         IN /\ {l.value, l.sent, r.value} \subseteq Nat
            /\ l.value <= r.value /\ r.sent = l.sent
            /\ g.value = r.value
            /\ done => g.sent = g.value
            /\ ~done => g = l
<1>1. f.count \in Limits
  BY DEF FlowOK
<1>2. CASE done
  <2>1. Raised(f, done).count = Raise(f.count) /\ Flow(f, done).count = ToldLimit(f.count)
    BY <1>2, FlowRaised, FlowWritten
  <2>2. /\ Raise(f.count) \in Limits /\ Raise(f.count).sent = f.count.sent
        /\ f.count.value <= Raise(f.count).value
    BY <1>1, RaiseFacts
  <2>3. /\ ToldLimit(f.count).value = Raise(f.count).value
        /\ ToldLimit(f.count).sent = Raise(f.count).value
    BY DEF ToldLimit
  <2>4. QED
    BY <1>1, <1>2, <2>1, <2>2, <2>3 DEF Limits
<1>3. CASE ~done
  <2>1. Raised(f, done).count = f.count /\ Flow(f, done).count = f.count
    BY <1>3, FlowRaised, FlowWritten
  <2>2. QED
    BY <1>1, <1>3, <2>1 DEF Limits
<1>4. QED
  BY <1>2, <1>3

LEMMA StreamWritten ==
  ASSUME NEW f, FlowOK(f), NEW done \in BOOLEAN, NEW s \in Remote
  PROVE  LET l == f.in[s]
             r == Raised(f, done).in[s]
             g == Flow(f, done).in[s]
         IN /\ {l.limit, l.sent, r.limit} \subseteq Nat
            /\ l.limit <= r.limit /\ r.sent = l.sent /\ r.open = l.open
            /\ g.limit = r.limit /\ g.highest = l.highest /\ g.final = l.final
            /\ l.open => g.sent = g.limit
            /\ ~l.open => g = l
<1>1. f.in[s] \in Incoming
  BY DEF FlowOK
<1>2. CASE f.in[s].open
  <2>1. Raised(f, done).in[s] = RaiseStream(f.in[s]) /\ Flow(f, done).in[s] = ToldStream(f.in[s])
    BY <1>2, FlowRaised, FlowWritten
  <2>2. /\ RaiseStream(f.in[s]) \in Incoming /\ RaiseStream(f.in[s]).sent = f.in[s].sent
        /\ f.in[s].limit <= RaiseStream(f.in[s]).limit
    BY <1>1, RaiseStreamFacts
  <2>3. /\ ToldStream(f.in[s]).limit = RaiseStream(f.in[s]).limit
        /\ ToldStream(f.in[s]).sent = RaiseStream(f.in[s]).limit
        /\ ToldStream(f.in[s]).highest = f.in[s].highest
        /\ ToldStream(f.in[s]).final = f.in[s].final
    BY DEF ToldStream
  <2>4. RaiseStream(f.in[s]).open = f.in[s].open
    BY <1>1 DEF RaiseStream, Incoming
  <2>5. f.in[s].limit \in Nat /\ f.in[s].sent \in Nat /\ RaiseStream(f.in[s]).limit \in Nat
    BY <1>1, <2>2 DEF Incoming
  <2>6. QED
    BY <1>2, <2>1, <2>2, <2>3, <2>4, <2>5
<1>3. CASE ~f.in[s].open
  <2>1. Raised(f, done).in[s] = f.in[s] /\ Flow(f, done).in[s] = f.in[s]
    BY <1>3, FlowRaised, FlowWritten
  <2>2. f.in[s].limit \in Nat /\ f.in[s].sent \in Nat
    BY <1>1 DEF Incoming
  <2>3. QED
    BY <1>3, <2>1, <2>2
<1>4. QED
  BY <1>2, <1>3

\* Limits grow, and what counts against them stays.
Grows(f, g) ==
  /\ f.data.value <= g.data.value /\ f.count.value <= g.count.value
  /\ \A s \in Remote : f.in[s].limit <= g.in[s].limit
SameUse(f, g) ==
  /\ g.data.used = f.data.used
  /\ \A s \in Remote : g.in[s].highest = f.in[s].highest /\ g.in[s].final = f.in[s].final

LEMMA FlowGrows ==
  ASSUME NEW f, FlowOK(f), NEW done \in BOOLEAN
  PROVE  Grows(f, Flow(f, done)) /\ SameUse(f, Flow(f, done))
<1>1. f.data.value <= Flow(f, done).data.value /\ Flow(f, done).data.used = f.data.used
  BY DataWritten
<1>2. f.count.value <= Flow(f, done).count.value
  BY CountWritten
<1>3. ASSUME NEW s \in Remote
      PROVE  LET r == Flow(f, done).in[s] IN
             f.in[s].limit <= r.limit /\ r.highest = f.in[s].highest /\ r.final = f.in[s].final
  BY StreamWritten
<1>4. QED
  BY <1>1, <1>2, <1>3 DEF Grows, SameUse

\* What the frames of a transmit say.
LEMMA FramesOfTransmit ==
  ASSUME NEW i \in IdRecords, NEW f, FlowOK(f), NEW a, NEW done \in BOOLEAN
  PROVE  LET g == Flow(f, done) IN
         \A fr \in AllFrames(i, f, a, done) :
           /\ fr.kind = "retire" =>
                done /\ fr.value \in i.retire /\ fr = RetireFrame(fr.value)
           /\ fr.kind = "newId" => fr.value \in i.unsent
           /\ fr.kind = "maxData" => fr.value = g.data.value
           /\ fr.kind = "maxStreams" => fr.value = g.count.value
           /\ fr.kind = "maxStreamData" => fr.stream \in Remote /\ fr.value = g.in[fr.stream].limit
<1>. DEFINE r == Raised(f, done)
            g == Flow(f, done)
<1>1. SUFFICES ASSUME NEW fr \in AllFrames(i, f, a, done)
      PROVE  /\ fr.kind = "retire" =>
                  done /\ fr.value \in i.retire /\ fr = RetireFrame(fr.value)
             /\ fr.kind = "newId" => fr.value \in i.unsent
             /\ fr.kind = "maxData" => fr.value = g.data.value
             /\ fr.kind = "maxStreams" => fr.value = g.count.value
             /\ fr.kind = "maxStreamData" => fr.stream \in Remote /\ fr.value = g.in[fr.stream].limit
  OBVIOUS
<1>2. CASE fr \in AckFrames(a, done)
  <2>1. fr.kind = "ack"
    BY <1>2 DEF AckFrames
  <2>2. QED
    BY <2>1
<1>3. CASE done /\ fr \in IdFrames(i)
  <2>1. \/ \E n \in i.unsent : fr = NewIdFrame(n)
        \/ \E n \in i.retire : fr = RetireFrame(n)
    BY <1>3 DEF IdFrames, NewIdFrame, RetireFrame
  <2>2. CASE \E n \in i.unsent : fr = NewIdFrame(n)
    BY <2>2 DEF NewIdFrame
  <2>3. ASSUME NEW n \in i.retire, fr = RetireFrame(n)
        PROVE  fr.kind = "retire" /\ fr.value = n
    BY <2>3 DEF RetireFrame
  <2>4. done
    BY <1>3
  <2>5. QED
    BY <2>1, <2>2, <2>3, <2>4
<1>4. CASE fr \in FlowFrames(f, done)
  <2>1. CASE fr \in LimitFrames(r, done)
    <3>1. \/ fr = DataFrame(r.data.value)
          \/ fr = StreamsFrame(r.count.value)
          \/ \E s \in Remote : fr = StreamDataFrame(s, r.in[s].limit)
      <4>. HIDE DEF r
      <4>. QED BY <2>1 DEF LimitFrames, DataFrame, StreamsFrame, StreamDataFrame
    <3>2. CASE fr = DataFrame(r.data.value)
      <4>1. g.data.value = r.data.value
        BY DataWritten
      <4>2. fr.kind = "maxData" /\ fr.value = r.data.value
        BY <3>2 DEF DataFrame
      <4>3. QED
        BY <4>1, <4>2
    <3>3. CASE fr = StreamsFrame(r.count.value)
      <4>1. g.count.value = r.count.value
        BY CountWritten
      <4>2. fr.kind = "maxStreams" /\ fr.value = r.count.value
        BY <3>3 DEF StreamsFrame
      <4>3. QED
        BY <4>1, <4>2
    <3>4. ASSUME NEW s \in Remote, fr = StreamDataFrame(s, r.in[s].limit)
          PROVE  fr.kind = "maxStreamData" /\ fr.stream = s /\ fr.value = g.in[s].limit
      <4>1. g.in[s].limit = r.in[s].limit
        BY StreamWritten
      <4>2. QED
        BY <3>4, <4>1 DEF StreamDataFrame
    <3>5. QED
      BY <3>1, <3>2, <3>3, <3>4
  <2>2. CASE fr \in (IF done /\ f.tell THEN {[kind |-> "streamsBlocked", value |-> f.streams]} ELSE {})
    <3>1. fr.kind = "streamsBlocked"
      BY <2>2
    <3>2. QED
      BY <3>1
  <2>3. CASE fr \in StreamFrames(f, g)
    <3>1. fr.kind = "data"
      BY <2>3 DEF StreamFrames
    <3>2. QED
      BY <3>1
  <2>4. QED
    BY <1>4, <2>1, <2>2, <2>3 DEF FlowFrames
<1>5. QED
  BY <1>1, <1>2, <1>3, <1>4 DEF AllFrames

\* What is said of the limits stays within them.
LEMMA FramesGrow ==
  ASSUME NEW s, NEW i, NEW f, FlowOK(f), FramesOK(s, i, f), i.next \in Nat,
         NEW t, EverSent(t) = EverSent(s),
         NEW j, j.next \in Nat, i.next <= j.next, NEW g, FlowOK(g), Grows(f, g)
  PROVE  FramesOK(t, j, g)
<1>1. /\ f.data.value \in Nat /\ f.count.value \in Nat
      /\ g.data.value \in Nat /\ g.count.value \in Nat
      /\ \A r \in Remote : f.in[r].limit \in Nat /\ g.in[r].limit \in Nat
  BY DEF FlowOK, Limits, Incoming
<1>2. QED
  BY <1>1 DEF FramesOK, Grows

LEMMA FramesTransmitted ==
  ASSUME NEW i \in IdRecords, NEW f, FlowOK(f), NEW a, NEW done \in BOOLEAN, NEW s, NEW t,
         \A n \in i.unsent : n < i.next,
         FramesOK(s, i, f), EverSent(t) = EverSent(s) \cup AllFrames(i, f, a, done),
         NEW j, j.next = i.next
  PROVE  FramesOK(t, j, Flow(f, done))
<1>. DEFINE g == Flow(f, done)
<1>1. FlowOK(g) /\ Grows(f, g)
  BY FlowWritten, FlowGrows
<1>2. i.next \in Nat /\ i.unsent \subseteq Nat /\ i.retire \subseteq Nat
  BY DEF IdRecords
<1>3. FramesOK(s, j, g)
  <2>. HIDE DEF g
  <2>. QED BY <1>1, <1>2, FramesGrow
<1>4. /\ g.data.value \in Nat /\ g.count.value \in Nat
      /\ \A r \in Remote : g.in[r].limit \in Nat
  BY <1>1 DEF FlowOK, Limits, Incoming
<1>5. ASSUME NEW fr \in AllFrames(i, f, a, done)
      PROVE  /\ fr.kind = "retire" => fr.value \in Nat /\ fr = RetireFrame(fr.value)
             /\ fr.kind = "newId" => fr.value \in Nat /\ fr.value < j.next
             /\ fr.kind = "maxData" => fr.value \in 0..g.data.value
             /\ fr.kind = "maxStreams" => fr.value \in 0..g.count.value
             /\ fr.kind = "maxStreamData" =>
                  fr.stream \in Remote /\ fr.value \in 0..g.in[fr.stream].limit
  <2>1. /\ fr.kind = "retire" => fr.value \in i.retire /\ fr = RetireFrame(fr.value)
        /\ fr.kind = "newId" => fr.value \in i.unsent
        /\ fr.kind = "maxData" => fr.value = g.data.value
        /\ fr.kind = "maxStreams" => fr.value = g.count.value
        /\ fr.kind = "maxStreamData" => fr.stream \in Remote /\ fr.value = g.in[fr.stream].limit
    BY FramesOfTransmit
  <2>. HIDE DEF g
  <2>2. QED
    BY <1>2, <1>4, <2>1
<1>6. QED
  BY <1>3, <1>5 DEF FramesOK

\* Every limit is told, or was and is on its way still.
LEMMA LimitsTransmitted ==
  ASSUME NEW f, FlowOK(f), NEW done \in BOOLEAN, NEW s, NEW t, LimitsInv(f, s),
         \A fr : Carries(s, fr) \/ fr \in FlowFrames(f, done) => Carries(t, fr)
  PROVE  LimitsInv(Flow(f, done), t)
<1>. DEFINE r == Raised(f, done)
            g == Flow(f, done)
<1>0. {LocalData, LocalStreams, LocalStreamData} \subseteq Nat
  BY FlowAssumption
<1>1. \A fr \in LimitFrames(r, done) : Carries(t, fr)
  BY DEF FlowFrames
<1>2. Covered(g.data.value, g.data.sent, LocalData, t, DataFrame(g.data.value))
  <2>1. Covered(f.data.value, f.data.sent, LocalData, s, DataFrame(f.data.value))
    BY DEF LimitsInv
  <2>2. CASE ~done
    <3>1. g.data = f.data
      BY <2>2, DataWritten
    <3>2. QED
      BY <2>1, <3>1 DEF Covered
  <2>3. CASE done
    <3>1. /\ r.data.sent = f.data.sent
          /\ g.data.value = r.data.value /\ g.data.sent = g.data.value
          /\ f.data.value <= r.data.value /\ r.data.value \in Nat
          /\ f.data.value \in Nat /\ f.data.sent \in Nat
      BY <2>3, DataWritten
    <3>2. r.data.value # r.data.sent => Carries(t, DataFrame(r.data.value))
      <4>1. r.data.value # r.data.sent => DataFrame(r.data.value) \in LimitFrames(r, done)
        BY <2>3 DEF LimitFrames, DataFrame
      <4>2. QED
        BY <1>1, <4>1
    <3>3. /\ Carries(s, DataFrame(f.data.value)) => Carries(t, DataFrame(f.data.value))
          /\ r.data.value = f.data.value => DataFrame(r.data.value) = DataFrame(f.data.value)
      OBVIOUS
    <3>. HIDE DEF r, g
    <3>4. Covered(r.data.value, r.data.value, LocalData, t, DataFrame(r.data.value))
      BY <1>0, <2>1, <3>1, <3>2, <3>3 DEF Covered
    <3>5. QED
      BY <3>1, <3>4
  <2>4. QED
    BY <2>2, <2>3
<1>3. Covered(g.count.value, g.count.sent, LocalStreams, t, StreamsFrame(g.count.value))
  <2>1. Covered(f.count.value, f.count.sent, LocalStreams, s, StreamsFrame(f.count.value))
    BY DEF LimitsInv
  <2>2. CASE ~done
    <3>1. g.count = f.count
      BY <2>2, CountWritten
    <3>2. QED
      BY <2>1, <3>1 DEF Covered
  <2>3. CASE done
    <3>1. /\ r.count.sent = f.count.sent
          /\ g.count.value = r.count.value /\ g.count.sent = g.count.value
          /\ f.count.value <= r.count.value /\ r.count.value \in Nat
          /\ f.count.value \in Nat /\ f.count.sent \in Nat
      BY <2>3, CountWritten
    <3>2. r.count.value # r.count.sent => Carries(t, StreamsFrame(r.count.value))
      <4>1. r.count.value # r.count.sent => StreamsFrame(r.count.value) \in LimitFrames(r, done)
        BY <2>3 DEF LimitFrames, StreamsFrame
      <4>2. QED
        BY <1>1, <4>1
    <3>3. /\ Carries(s, StreamsFrame(f.count.value)) => Carries(t, StreamsFrame(f.count.value))
          /\ r.count.value = f.count.value => StreamsFrame(r.count.value) = StreamsFrame(f.count.value)
      OBVIOUS
    <3>. HIDE DEF r, g
    <3>4. Covered(r.count.value, r.count.value, LocalStreams, t, StreamsFrame(r.count.value))
      BY <1>0, <2>1, <3>1, <3>2, <3>3 DEF Covered
    <3>5. QED
      BY <3>1, <3>4
  <2>4. QED
    BY <2>2, <2>3
<1>4. ASSUME NEW x \in Remote
      PROVE  Covered(g.in[x].limit, g.in[x].sent, LocalStreamData, t, StreamDataFrame(x, g.in[x].limit))
  <2>1. Covered(f.in[x].limit, f.in[x].sent, LocalStreamData, s, StreamDataFrame(x, f.in[x].limit))
    BY DEF LimitsInv
  <2>2. CASE ~f.in[x].open
    <3>1. g.in[x] = f.in[x]
      BY <2>2, StreamWritten
    <3>2. QED
      BY <2>1, <3>1 DEF Covered
  <2>3. CASE f.in[x].open
    <3>1. /\ r.in[x].sent = f.in[x].sent /\ r.in[x].open
          /\ g.in[x].limit = r.in[x].limit /\ g.in[x].sent = g.in[x].limit
          /\ f.in[x].limit <= r.in[x].limit /\ r.in[x].limit \in Nat
          /\ f.in[x].limit \in Nat /\ f.in[x].sent \in Nat
      BY <2>3, StreamWritten
    <3>2. r.in[x].limit # r.in[x].sent => Carries(t, StreamDataFrame(x, r.in[x].limit))
      <4>1. r.in[x].limit # r.in[x].sent => StreamDataFrame(x, r.in[x].limit) \in LimitFrames(r, done)
        BY <3>1 DEF LimitFrames, StreamDataFrame
      <4>2. QED
        BY <1>1, <4>1
    <3>3. /\ Carries(s, StreamDataFrame(x, f.in[x].limit)) => Carries(t, StreamDataFrame(x, f.in[x].limit))
          /\ r.in[x].limit = f.in[x].limit =>
               StreamDataFrame(x, r.in[x].limit) = StreamDataFrame(x, f.in[x].limit)
      OBVIOUS
    <3>. HIDE DEF r, g
    <3>4. Covered(r.in[x].limit, r.in[x].limit, LocalStreamData, t, StreamDataFrame(x, r.in[x].limit))
      BY <1>0, <2>1, <3>1, <3>2, <3>3 DEF Covered
    <3>5. QED
      BY <3>1, <3>4
  <2>4. QED
    BY <2>2, <2>3
<1>5. QED
  BY <1>2, <1>3, <1>4 DEF LimitsInv

----------------------------------------------------------------------------
(***************************************************************************)
(* The handlers and the limits.                                            *)
(***************************************************************************)
\* Nothing about the limits has changed.
SameLimits(f, g) ==
  /\ g.data.value = f.data.value /\ g.data.sent = f.data.sent
  /\ g.count.value = f.count.value /\ g.count.sent = f.count.sent
  /\ \A s \in Remote : g.in[s].limit = f.in[s].limit /\ g.in[s].sent = f.in[s].sent

LEMMA SameLimitsKeep ==
  ASSUME NEW f, FlowOK(f), NEW g, SameLimits(f, g), NEW s, LimitsInv(f, s)
  PROVE  Grows(f, g) /\ LimitsInv(g, s)
<1>1. Grows(f, g)
  BY DEF SameLimits, Grows, FlowOK, Limits, Incoming
<1>2. LimitsInv(g, s)
  BY DEF SameLimits, LimitsInv
<1>3. QED
  BY <1>1, <1>2

\* What is on its way stays covered.
LEMMA LimitsCarried ==
  ASSUME NEW f, NEW s, LimitsInv(f, s), NEW t, \A fr : Carries(s, fr) => Carries(t, fr)
  PROVE  LimitsInv(f, t)
BY DEF LimitsInv, Covered

LEMMA LimitsAfterLoss ==
  ASSUME NEW f, FlowOK(f), NEW back, NEW s, LimitsInv(f, s),
         NEW t, \A fr : Carries(s, fr) /\ fr \notin back => Carries(t, fr)
  PROVE  LET g == LimitsLost(f, back) IN
         FlowOK(g) /\ Grows(f, g) /\ SameUse(f, g) /\ LimitsInv(g, t)
<1>. DEFINE g == LimitsLost(f, back)
            Forgot(r) == \E fr \in back : fr.kind = "maxStreamData" /\ fr.stream = r
            in == [r \in Remote |-> IF Forgot(r) THEN [f.in[r] EXCEPT !.sent = 0] ELSE f.in[r]]
<1>1. /\ f.data.value \in Nat /\ f.data.used \in Nat /\ f.data.sent \in Nat
      /\ f.count.value \in Nat /\ f.count.used \in Nat /\ f.count.sent \in Nat
      /\ f.data \in Limits /\ f.count \in Limits /\ f.in \in [Remote -> Incoming]
  BY DEF FlowOK, Limits
<1>2. DOMAIN g = DOMAIN f /\ g.in = in
      /\ g.data = [f.data EXCEPT !.sent = IF Lost(back, "maxData") THEN 0 ELSE @]
      /\ g.count = [f.count EXCEPT !.sent = IF Lost(back, "maxStreams") THEN 0 ELSE @]
  BY DEF LimitsLost, FlowOK
<1>. HIDE DEF g
<1>3. /\ g.data \in Limits /\ g.data.value = f.data.value /\ g.data.used = f.data.used
      /\ g.data.sent = IF Lost(back, "maxData") THEN 0 ELSE f.data.sent
  BY <1>1, <1>2 DEF Limits
<1>4. /\ g.count \in Limits /\ g.count.value = f.count.value
      /\ g.count.sent = IF Lost(back, "maxStreams") THEN 0 ELSE f.count.sent
  BY <1>1, <1>2 DEF Limits
<1>5. ASSUME NEW r \in Remote
      PROVE  /\ in[r] \in Incoming
             /\ in[r].highest = f.in[r].highest /\ in[r].final = f.in[r].final
             /\ in[r].limit = f.in[r].limit
             /\ in[r].sent = IF Forgot(r) THEN 0 ELSE f.in[r].sent
  <2>1. f.in[r] \in Incoming
    BY <1>1
  <2>2. in[r] = IF Forgot(r) THEN [f.in[r] EXCEPT !.sent = 0] ELSE f.in[r]
    OBVIOUS
  <2>. HIDE DEF in, Forgot
  <2>3. QED
    BY <2>1, <2>2 DEF Incoming
<1>6. in \in [Remote -> Incoming]
  <2>1. in = [r \in Remote |-> in[r]]
    OBVIOUS
  <2>. HIDE DEF in
  <2>2. QED
    BY <1>5, <2>1
<1>. HIDE DEF in
<1>7. FlowOK(g)
  BY <1>2, <1>3, <1>4, <1>6 DEF FlowOK
<1>8. Grows(f, g) /\ SameUse(f, g)
  <2>1. \A r \in Remote : f.in[r].limit \in Nat
    BY <1>1 DEF Incoming
  <2>2. QED
    BY <1>1, <1>2, <1>3, <1>4, <1>5, <2>1 DEF Grows, SameUse
<1>9. {LocalData, LocalStreams, LocalStreamData} \subseteq Nat
  BY FlowAssumption
<1>10. Covered(g.data.value, g.data.sent, LocalData, t, DataFrame(g.data.value))
  <2>1. Covered(f.data.value, f.data.sent, LocalData, s, DataFrame(f.data.value))
    BY DEF LimitsInv
  <2>2. CASE Lost(back, "maxData")
    BY <1>1, <1>3, <1>9, <2>1, <2>2 DEF Covered
  <2>3. CASE ~Lost(back, "maxData")
    <3>1. DataFrame(f.data.value) \notin back
      BY <2>3 DEF Lost, DataFrame
    <3>2. QED
      BY <1>3, <2>1, <2>3, <3>1 DEF Covered
  <2>4. QED
    BY <2>2, <2>3
<1>11. Covered(g.count.value, g.count.sent, LocalStreams, t, StreamsFrame(g.count.value))
  <2>1. Covered(f.count.value, f.count.sent, LocalStreams, s, StreamsFrame(f.count.value))
    BY DEF LimitsInv
  <2>2. CASE Lost(back, "maxStreams")
    BY <1>1, <1>4, <1>9, <2>1, <2>2 DEF Covered
  <2>3. CASE ~Lost(back, "maxStreams")
    <3>1. StreamsFrame(f.count.value) \notin back
      BY <2>3 DEF Lost, StreamsFrame
    <3>2. QED
      BY <1>4, <2>1, <2>3, <3>1 DEF Covered
  <2>4. QED
    BY <2>2, <2>3
<1>12. ASSUME NEW r \in Remote
       PROVE  Covered(g.in[r].limit, g.in[r].sent, LocalStreamData, t,
                      StreamDataFrame(r, g.in[r].limit))
  <2>1. Covered(f.in[r].limit, f.in[r].sent, LocalStreamData, s, StreamDataFrame(r, f.in[r].limit))
    BY DEF LimitsInv
  <2>2. f.in[r].limit \in Nat
    BY <1>1 DEF Incoming
  <2>3. CASE Forgot(r)
    <3>1. g.in[r].limit = f.in[r].limit /\ g.in[r].sent = 0
      BY <1>2, <1>5, <2>3
    <3>2. QED
      BY <1>9, <2>1, <2>2, <3>1 DEF Covered
  <2>4. CASE ~Forgot(r)
    <3>1. StreamDataFrame(r, f.in[r].limit) \notin back
      BY <2>4 DEF StreamDataFrame
    <3>2. g.in[r].limit = f.in[r].limit /\ g.in[r].sent = f.in[r].sent
      BY <1>2, <1>5, <2>4
    <3>3. QED
      BY <2>1, <3>1, <3>2 DEF Covered
  <2>5. QED
    BY <2>3, <2>4
<1>13. LimitsInv(g, t)
  BY <1>10, <1>11, <1>12 DEF LimitsInv
<1>14. QED
  BY <1>7, <1>8, <1>13 DEF g

\* The frames of the server that grant, and the letters that write.
LEMMA GrantsKeep ==
  ASSUME NEW f, FlowOK(f), NEW g, DOMAIN g = DOMAIN f,
         g.data = f.data, g.count = f.count, g.in = f.in
  PROVE  FlowOK(g) /\ SameLimits(f, g) /\ SameUse(f, g)
BY DEF FlowOK, SameLimits, SameUse

LEMMA GrantFacts ==
  ASSUME NEW f, FlowOK(f), NEW s, NEW v
  PROVE  /\ FlowOK(MaxData(f, v)) /\ SameLimits(f, MaxData(f, v)) /\ SameUse(f, MaxData(f, v))
         /\ FlowOK(MaxStreams(f, v)) /\ SameLimits(f, MaxStreams(f, v)) /\ SameUse(f, MaxStreams(f, v))
         /\ FlowOK(MaxStreamData(f, s, v)) /\ SameLimits(f, MaxStreamData(f, s, v))
         /\ SameUse(f, MaxStreamData(f, s, v))
         /\ FlowOK(Write(f, s, v)) /\ SameLimits(f, Write(f, s, v)) /\ SameUse(f, Write(f, s, v))
<1>1. ASSUME NEW g, g \in {MaxData(f, v), MaxStreamData(f, s, v), Write(f, s, v)}
      PROVE  DOMAIN g = DOMAIN f /\ g.data = f.data /\ g.count = f.count /\ g.in = f.in
  <2>1. CASE g = MaxData(f, v)
    BY <2>1 DEF MaxData, FlowOK
  <2>2. CASE g = MaxStreamData(f, s, v)
    <3>. DEFINE out == [f.out EXCEPT ![s].limit = Larger(@, v)]
    <3>1. g = [f EXCEPT !.out = out]
      BY <2>2 DEF MaxStreamData
    <3>. HIDE DEF out
    <3>2. QED
      BY <3>1 DEF FlowOK
  <2>3. CASE g = Write(f, s, v)
    BY <2>3 DEF Write, FlowOK
  <2>4. QED
    BY <1>1, <2>1, <2>2, <2>3
<1>2. /\ DOMAIN MaxStreams(f, v) = DOMAIN f /\ MaxStreams(f, v).data = f.data
      /\ MaxStreams(f, v).count = f.count /\ MaxStreams(f, v).in = f.in
  <2>. DEFINE n == Unblocked(f.queue, v)
              free == {f.queue[k] : k \in 1..n}
              out == [r \in Local |-> IF r \in free THEN [f.out[r] EXCEPT !.blocked = FALSE,
                                                                          !.limit = RemoteStreamData]
                                      ELSE f.out[r]]
              g == [f EXCEPT !.streams = v, !.queue = SubSeq(@, n + 1, Len(@)),
                             !.tell = @ /\ n < Len(f.queue), !.out = out]
  <2>1. MaxStreams(f, v) = IF v <= f.streams THEN f ELSE g
    BY DEF MaxStreams
  <2>2. DOMAIN g = DOMAIN f /\ g.data = f.data /\ g.count = f.count /\ g.in = f.in
    <3>. HIDE DEF n, out
    <3>. QED BY DEF FlowOK
  <2>. HIDE DEF g
  <2>3. QED
    BY <2>1, <2>2
<1>3. QED
  BY <1>1, <1>2, GrantsKeep

\* Frames of a stream of the server.  Only those within the limits count.
Advanced(f, g, s, end) ==
  /\ g.data.used = f.data.used + Newly(f, s, end)
  /\ Reached(g)[s] = Larger(Reached(f)[s], end)
  /\ \A r \in Remote \ {s} : Reached(g)[r] = Reached(f)[r]

LEMMA OpenedFacts ==
  ASSUME NEW f, FlowOK(f), NEW s \in Remote
  PROVE  LET g == Opened(f, s) IN
         /\ FlowOK(g) /\ SameLimits(f, g) /\ SameUse(f, g) /\ g.data = f.data
<1>. DEFINE in == [f.in EXCEPT ![s].open = TRUE]
            count == [f.count EXCEPT !.used = IF f.in[s].open THEN @ ELSE Larger(@, s + 1)]
            g == [f EXCEPT !.in = in, !.count = count]
<1>1. Opened(f, s) = g
  BY DEF Opened, FlowOK
<1>2. in \in [Remote -> Incoming]
      /\ \A r \in Remote : /\ in[r].limit = f.in[r].limit /\ in[r].sent = f.in[r].sent
                           /\ in[r].highest = f.in[r].highest /\ in[r].final = f.in[r].final
  BY DEF FlowOK, Incoming
<1>3. s \in Nat
  BY FS_CardinalityType, FlowAssumption
<1>4. count \in Limits /\ count.value = f.count.value /\ count.sent = f.count.sent
  BY <1>3 DEF FlowOK, Limits, Larger
<1>. HIDE DEF in, count
<1>5. DOMAIN g = DOMAIN f /\ g.in = in /\ g.count = count /\ g.data = f.data
  BY DEF FlowOK
<1>. HIDE DEF g
<1>6. QED
  BY <1>1, <1>2, <1>4, <1>5 DEF FlowOK, SameLimits, SameUse

\* The frame that is handled counts against the limit of the connection.
LEMMA StreamFacts ==
  ASSUME NEW f, FlowOK(f), NEW s \in Remote, NEW end \in Nat
  PROVE  /\ FlowOK(StreamData(f, s, end)) /\ SameLimits(f, StreamData(f, s, end))
         /\ FlowOK(StreamReset(f, s, end)) /\ SameLimits(f, StreamReset(f, s, end))
         /\ f.in[s].final = 0 /\ ~Refused(f, s, end) =>
              /\ Advanced(f, StreamData(f, s, end), s, end)
              /\ Advanced(f, StreamReset(f, s, end), s, end)
<1>. DEFINE o == Opened(f, s)
            n == Newly(f, s, end)
            inData == [o.in EXCEPT ![s].highest = Larger(@, end)]
            inReset == [o.in EXCEPT ![s].final = end]
            With(in) == [o EXCEPT !.in = in, !.data = [o.data EXCEPT !.used = @ + n]]
<1>1. FlowOK(o) /\ SameLimits(f, o) /\ SameUse(f, o) /\ o.data = f.data
  BY OpenedFacts
<1>2. n \in Nat
  BY DEF Newly, FlowOK, Incoming
<1>. HIDE DEF n, o
<1>3. /\ StreamData(f, s, end) \in {f, o, With(inData)}
      /\ ~Refused(f, s, end) => StreamData(f, s, end) = With(inData)
  <2>1. [o EXCEPT !.in[s].highest = Larger(@, end), !.data.used = @ + n] = With(inData)
    BY <1>1 DEF FlowOK
  <2>. HIDE DEF With, inData
  <2>2. QED
    BY <2>1 DEF StreamData, Refused, o, n
<1>4. /\ StreamReset(f, s, end) \in {f, o, With(inReset)}
      /\ ~Refused(f, s, end) => StreamReset(f, s, end) = With(inReset)
  <2>1. [o EXCEPT !.in[s].final = end, !.data.used = @ + n] = With(inReset)
    BY <1>1 DEF FlowOK
  <2>. HIDE DEF With, inReset
  <2>2. QED
    BY <2>1 DEF StreamReset, Refused, o, n
<1>5. /\ inData \in [Remote -> Incoming]
      /\ \A r \in Remote : /\ inData[r].limit = o.in[r].limit /\ inData[r].sent = o.in[r].sent
                           /\ inData[r].final = o.in[r].final
                           /\ inData[r].highest = IF r = s THEN Larger(o.in[r].highest, end)
                                                  ELSE o.in[r].highest
  BY <1>1 DEF FlowOK, Incoming, Larger
<1>6. /\ inReset \in [Remote -> Incoming]
      /\ \A r \in Remote : /\ inReset[r].limit = o.in[r].limit /\ inReset[r].sent = o.in[r].sent
                           /\ inReset[r].highest = o.in[r].highest
                           /\ inReset[r].final = IF r = s THEN end ELSE o.in[r].final
  BY <1>1 DEF FlowOK, Incoming
<1>. HIDE DEF inData, inReset
<1>7. ASSUME NEW in \in [Remote -> Incoming],
             \A r \in Remote : in[r].limit = o.in[r].limit /\ in[r].sent = o.in[r].sent
      PROVE  /\ FlowOK(With(in)) /\ SameLimits(f, With(in))
             /\ With(in).data.used = f.data.used + n /\ With(in).in = in
  <2>. DEFINE data == [o.data EXCEPT !.used = @ + n]
  <2>1. data \in Limits /\ data.value = o.data.value /\ data.sent = o.data.sent
        /\ data.used = o.data.used + n
    BY <1>1, <1>2 DEF FlowOK, Limits
  <2>2. With(in) = [o EXCEPT !.in = in, !.data = data]
    OBVIOUS
  <2>. HIDE DEF data, With
  <2>3. /\ DOMAIN With(in) = DOMAIN o /\ With(in).in = in /\ With(in).data = data
        /\ With(in).count = o.count
    BY <1>1, <2>2 DEF FlowOK
  <2>4. FlowOK(With(in))
    BY <1>1, <1>7, <2>1, <2>3 DEF FlowOK
  <2>5. SameLimits(f, With(in))
    BY <1>1, <1>7, <2>1, <2>3 DEF SameLimits
  <2>6. With(in).data.used = f.data.used + n
    BY <1>1, <2>1, <2>3
  <2>7. QED
    BY <2>3, <2>4, <2>5, <2>6
<1>. HIDE DEF With
<1>8. /\ FlowOK(With(inData)) /\ SameLimits(f, With(inData))
      /\ With(inData).data.used = f.data.used + n /\ With(inData).in = inData
  BY <1>5, <1>7
<1>9. /\ FlowOK(With(inReset)) /\ SameLimits(f, With(inReset))
      /\ With(inReset).data.used = f.data.used + n /\ With(inReset).in = inReset
  BY <1>6, <1>7
<1>10. ASSUME NEW g \in {f, o, With(inData), With(inReset)}
      PROVE  FlowOK(g) /\ SameLimits(f, g)
  <2>1. SameLimits(f, f)
    BY DEF SameLimits
  <2>2. QED
    BY <1>1, <1>8, <1>9, <1>10, <2>1
<1>11. ASSUME f.in[s].final = 0
       PROVE  /\ Advanced(f, With(inData), s, end)
              /\ Advanced(f, With(inReset), s, end)
  <2>1. f.in[s].highest \in Nat
    BY DEF FlowOK, Incoming
  <2>2. \A r \in Remote : o.in[r].highest = f.in[r].highest /\ o.in[r].final = f.in[r].final
    BY <1>1 DEF SameUse
  <2>3. /\ Reached(f)[s] = Larger(f.in[s].highest, 0)
        /\ Reached(With(inData))[s] = Larger(Larger(f.in[s].highest, end), 0)
        /\ Reached(With(inReset))[s] = Larger(f.in[s].highest, end)
    BY <1>5, <1>6, <1>8, <1>9, <1>11, <2>2 DEF Reached
  <2>4. \A r \in Remote \ {s} : /\ Reached(With(inData))[r] = Reached(f)[r]
                                /\ Reached(With(inReset))[r] = Reached(f)[r]
    BY <1>5, <1>6, <1>8, <1>9, <2>2 DEF Reached
  <2>5. QED
    BY <1>8, <1>9, <2>1, <2>3, <2>4 DEF Advanced, Larger, n
<1>12. QED
  BY <1>3, <1>4, <1>10, <1>11

----------------------------------------------------------------------------
(***************************************************************************)
(* The connection IDs.                                                     *)
(***************************************************************************)
\* The IDs of the server have not changed, and the account of both is kept.
SameTheirs(i, j) ==
  /\ j.dst = i.dst /\ j.orig = i.orig /\ j.known = i.known
  /\ j.available = i.available /\ j.retire = i.retire

LEMMA SameTheirsKeep ==
  ASSUME NEW i, NEW j, NEW s, SameTheirs(i, j), IdsInv(i, s), Announced(j, s)
  PROVE  IdsInv(j, s)
BY DEF SameTheirs, IdsInv, Retiring, Remembered, Known

LEMMA IssueFacts ==
  ASSUME NEW i, IdsOK(i), NEW n \in Nat
  PROVE  LET j == Issue(i, n) IN
         /\ IdsOK(j) /\ SameTheirs(i, j) /\ i.next <= j.next
         /\ \A s : IdsInv(i, s) => IdsInv(j, s)
<1>. DEFINE held == Cardinality(i.host)
            new == IF held < n THEN i.next..(i.next + n - held - 1) ELSE {}
            j == Issue(i, n)
<1>1. i \in IdRecords /\ i.next \in Nat /\ i.host \subseteq Nat /\ i.unsent \subseteq i.host
      /\ \A h \in i.host : h < i.next
  BY DEF IdsOK, IdRecords
<1>2. held \in Nat
  BY FS_CardinalityType DEF IdsOK
<1>. HIDE DEF held
<1>3. /\ IsFiniteSet(new) /\ new \subseteq Nat /\ Cardinality(new) \in Nat
      /\ \A h \in new : h < i.next + Cardinality(new)
  <2>1. CASE held < n
    <3>1. new = i.next..(i.next + n - held - 1)
      BY <2>1
    <3>2. IsFiniteSet(new) /\ Cardinality(new) = n - held
      <4>. DEFINE a == i.next
                  b == i.next + n - held - 1
      <4>1. a \in Int /\ b \in Int /\ a <= b
        BY <1>1, <1>2, <2>1
      <4>2. IsFiniteSet(a..b) /\ Cardinality(a..b) = IF a > b THEN 0 ELSE b - a + 1
        BY <4>1, FS_Interval
      <4>3. QED
        BY <1>1, <1>2, <2>1, <3>1, <4>1, <4>2
    <3>3. QED
      BY <1>1, <1>2, <2>1, <3>1, <3>2
  <2>2. CASE ~(held < n)
    <3>1. new = {} /\ Cardinality(new) = 0 /\ IsFiniteSet(new)
      BY <2>2, FS_EmptySet
    <3>2. QED
      BY <1>1, <3>1
  <2>3. QED
    BY <2>1, <2>2
<1>4. j = [i EXCEPT !.host = @ \cup new, !.unsent = @ \cup new, !.next = @ + Cardinality(new)]
  BY DEF Issue, held
<1>. HIDE DEF new, j
<1>5. /\ j.host = i.host \cup new /\ j.unsent = i.unsent \cup new
      /\ j.next = i.next + Cardinality(new) /\ SameTheirs(i, j)
  BY <1>1, <1>4 DEF IdRecords, SameTheirs
<1>6. j \in IdRecords
  <2>. DEFINE next == i.next + Cardinality(new)
              host == i.host \cup new
              unsent == i.unsent \cup new
  <2>1. host \subseteq Nat /\ unsent \subseteq Nat
    BY <1>1, <1>3
  <2>2. next \in Nat
    BY <1>1, <1>3
  <2>3. j = [i EXCEPT !.host = host, !.unsent = unsent, !.next = next]
    BY <1>1, <1>4 DEF IdRecords
  <2>. HIDE DEF next, host, unsent
  <2>4. QED
    BY <1>1, <2>1, <2>2, <2>3 DEF IdRecords
<1>7. IdsOK(j)
  <2>1. IsFiniteSet(i.host \cup new)
    BY <1>3, FS_Union DEF IdsOK
  <2>2. j.unsent \subseteq j.host
    BY <1>1, <1>5
  <2>3. \A h \in j.host : h < j.next
    <3>1. ASSUME NEW h \in i.host PROVE h < j.next
      <4>1. h \in Nat /\ h < i.next /\ i.next \in Nat /\ Cardinality(new) \in Nat
        BY <1>1, <1>3
      <4>2. QED
        BY <1>5, <4>1
    <3>2. ASSUME NEW h \in new PROVE h < j.next
      BY <1>3, <1>5
    <3>3. QED
      BY <1>5, <3>1, <3>2
  <2>4. QED
    BY <1>5, <1>6, <2>1, <2>2, <2>3 DEF IdsOK, SameTheirs, Known
<1>8. i.next <= j.next
  BY <1>1, <1>3, <1>5
<1>9. ASSUME NEW s, IdsInv(i, s) PROVE IdsInv(j, s)
  <2>1. Announced(j, s)
    BY <1>5, <1>9 DEF IdsInv, Announced
  <2>2. QED
    BY <1>5, <1>9, <2>1, SameTheirsKeep
<1>10. QED
  BY <1>5, <1>7, <1>8, <1>9 DEF j

LEMMA ReplenishFacts ==
  ASSUME NEW i, IdsOK(i)
  PROVE  /\ IdsOK(Replenish(i, IdLimit)) /\ SameTheirs(i, Replenish(i, IdLimit))
         /\ i.next <= Replenish(i, IdLimit).next
         /\ \A s : IdsInv(i, s) => IdsInv(Replenish(i, IdLimit), s)
<1>. DEFINE n == IF IdLimit < 8 THEN IdLimit ELSE 8
<1>1. n \in Nat
  BY ApplicationAssumption
<1>2. Replenish(i, IdLimit) = Issue(i, n)
  BY DEF Replenish
<1>. HIDE DEF n
<1>3. QED
  BY <1>1, <1>2, IssueFacts

LEMMA IssueTooManyFacts ==
  ASSUME NEW i, IdsOK(i)
  PROVE  /\ IdsOK(IssueTooMany(i, IdLimit)) /\ SameTheirs(i, IssueTooMany(i, IdLimit))
         /\ i.next <= IssueTooMany(i, IdLimit).next
         /\ \A s : IdsInv(i, s) => IdsInv(IssueTooMany(i, IdLimit), s)
<1>. DEFINE n == IF IdLimit < 8 THEN 9 ELSE IdLimit + 1
<1>1. n \in Nat
  BY ApplicationAssumption
<1>2. IssueTooMany(i, IdLimit) = Issue(i, n)
  BY DEF IssueTooMany
<1>. HIDE DEF n
<1>3. QED
  BY <1>1, <1>2, IssueFacts

\* RETIRE_CONNECTION_ID.
LEMMA RetireIdFacts ==
  ASSUME NEW i, IdsOK(i), NEW seq, NEW to
  PROVE  LET j == RetireId(i, seq, to, IdLimit) IN
         /\ IdsOK(j) /\ i.next <= j.next
         /\ \A s : IdsInv(i, s) => IdsInv(j, s)
<1>. DEFINE k == [i EXCEPT !.host = @ \ {seq}, !.unsent = @ \ {seq}]
            j == RetireId(i, seq, to, IdLimit)
<1>1. i \in IdRecords /\ i.next \in Nat
  BY DEF IdsOK, IdRecords
<1>2. CASE RetireRefused(i, seq, to)
  <2>1. j = i
    BY <1>2 DEF RetireId
  <2>2. QED
    BY <1>1, <2>1
<1>3. CASE ~RetireRefused(i, seq, to)
  <2>1. j = Replenish(k, IdLimit)
    BY <1>3 DEF RetireId
  <2>2. /\ k \in IdRecords /\ k.host = i.host \ {seq} /\ k.unsent = i.unsent \ {seq}
        /\ k.next = i.next /\ SameTheirs(i, k)
    BY <1>1 DEF IdRecords, SameTheirs
  <2>. HIDE DEF k
  <2>3. IdsOK(k)
    <3>1. IsFiniteSet(k.host)
      <4>1. IsFiniteSet(i.host)
        BY DEF IdsOK
      <4>2. QED
        BY <2>2, <4>1, FS_RemoveElement
    <3>2. QED
      BY <2>2, <3>1 DEF IdsOK, SameTheirs, Known
  <2>4. ASSUME NEW s, IdsInv(i, s) PROVE IdsInv(k, s)
    <3>1. Announced(k, s)
      BY <2>2, <2>4 DEF IdsInv, Announced
    <3>2. QED
      BY <2>2, <2>4, <3>1, SameTheirsKeep
  <2>5. QED
    BY <2>1, <2>2, <2>3, <2>4, ReplenishFacts
<1>4. QED
  BY <1>2, <1>3

\* The available ID that came first is an available one, whatever the order.
LEMMA FirstAvailableFacts ==
  ASSUME NEW i, i.known \in Seq(Nat), i.available \subseteq Known(i), i.available # {}
  PROVE  FirstAvailable(i) \in i.available
<1>. DEFINE S == {k \in DOMAIN i.known : i.known[k] \in i.available}
<1>1. S # {}
  BY DEF Known
<1>2. S \in SUBSET Nat
  BY LenProperties
<1>3. PICK k \in S : \A y \in S : k <= y
  BY <1>1, <1>2, HasLeast
<1>4. IsFirst(i, k)
  <2>1. DOMAIN i.known = 1..Len(i.known) /\ Len(i.known) \in Nat
    BY LenProperties
  <2>2. ASSUME NEW j \in 1..(k - 1), i.known[j] \in i.available PROVE FALSE
    <3>1. k \in 1..Len(i.known)
      BY <2>1
    <3>2. j \in DOMAIN i.known /\ j < k
      BY <2>1, <3>1
    <3>3. QED
      BY <1>3, <2>2, <3>1, <3>2
  <2>3. QED
    BY <2>2 DEF IsFirst
<1>5. IsFirst(i, CHOOSE n \in DOMAIN i.known : IsFirst(i, n))
  BY <1>4
<1>6. QED
  BY <1>5 DEF IsFirst, FirstAvailable

LEMMA NotedFacts ==
  ASSUME NEW i, i.known \in Seq(Nat), NEW seq \in Nat, NEW j, j.known = Noted(i, seq)
  PROVE  j.known \in Seq(Nat) /\ Known(j) = Known(i) \cup {seq}
<1>1. CASE seq \in Known(i)
  BY <1>1 DEF Noted, Known
<1>2. CASE seq \notin Known(i)
  <2>1. j.known = Append(i.known, seq)
    BY <1>2 DEF Noted
  <2>. DEFINE l == Len(i.known)
              t == Append(i.known, seq)
  <2>2. /\ l \in Nat /\ DOMAIN i.known = 1..l
        /\ t \in Seq(Nat) /\ DOMAIN t = 1..(l + 1)
        /\ \A k \in 1..l : t[k] = i.known[k]
        /\ t[l + 1] = seq
    BY AppendProperties, LenProperties
  <2>. HIDE DEF t, l
  <2>3. ASSUME NEW x PROVE x \in Known(j) <=> x \in Known(i) \cup {seq}
    <3>1. x \in Known(j) <=> \E k \in 1..(l + 1) : x = t[k]
      BY <2>1, <2>2 DEF Known, t
    <3>2. x \in Known(i) <=> \E k \in 1..l : x = i.known[k]
      BY <2>2 DEF Known
    <3>3. (\A k \in 1..(l + 1) : k \in 1..l \/ k = l + 1)
          /\ 1..l \subseteq 1..(l + 1) /\ l + 1 \in 1..(l + 1)
      BY <2>2
    <3>4. QED
      BY <2>2, <3>1, <3>2, <3>3
  <2>4. QED
    BY <2>1, <2>2, <2>3 DEF t
<1>3. QED
  BY <1>1, <1>2

\* NEW_CONNECTION_ID.  The ID in use is left only for one that is not retired:
\* when the new ID came before, it is at hand, or was retired and lies below.
LEMMA NewIdFacts ==
  ASSUME NEW i, IdsOK(i), NEW seq \in Nat, NEW prior \in Nat, prior <= seq,
         NEW s, NEW f, FramesOK(s, i, f), IdsInv(i, s)
  PROVE  LET j == NewId(i, seq, prior) IN
         IdsOK(j) /\ i.next <= j.next /\ IdsInv(j, s)
<1>. DEFINE gone == {a \in i.available : a < prior}
            retire == i.retire \cup InUse(i, prior) \cup gone
            kept == [i EXCEPT !.available = Kept(i, seq, prior), !.known = Noted(i, seq),
                              !.retire = retire]
            j == NewId(i, seq, prior)
<1>1. /\ i \in IdRecords /\ i.known \in Seq(Nat) /\ i.available \subseteq Nat /\ i.retire \subseteq Nat
      /\ i.dst \in Nat /\ i.next \in Nat /\ i.orig \in BOOLEAN
      /\ i.available \subseteq Known(i)
  BY DEF IdsOK, IdRecords
<1>2. kept = [i EXCEPT !.available = Kept(i, seq, prior), !.known = Noted(i, seq),
                       !.retire = @ \cup InUse(i, prior) \cup gone]
  BY <1>1 DEF IdRecords
<1>3. j = IF InUse(i, prior) # {} /\ kept.available # {} THEN Consume(kept) ELSE kept
  BY <1>2 DEF NewId
<1>. HIDE DEF gone, retire, j
<1>4. /\ kept.available = Kept(i, seq, prior) /\ kept.known = Noted(i, seq) /\ kept.retire = retire
      /\ kept.dst = i.dst /\ kept.orig = i.orig /\ kept.next = i.next
      /\ kept.host = i.host /\ kept.unsent = i.unsent
  BY <1>1 DEF IdRecords
<1>5. kept.known \in Seq(Nat) /\ Known(kept) = Known(i) \cup {seq}
  BY <1>1, <1>4, NotedFacts
<1>6. /\ retire \subseteq Nat /\ i.retire \subseteq retire
      /\ Kept(i, seq, prior) \subseteq Nat /\ Kept(i, seq, prior) \subseteq Known(i) \cup {seq}
      /\ \A n \in Kept(i, seq, prior) : n >= prior
  BY <1>1 DEF retire, gone, InUse, Kept, IdsOK
<1>7. IdsOK(kept)
  <2>1. kept \in IdRecords
    BY <1>1, <1>4, <1>5, <1>6 DEF IdRecords
  <2>. HIDE DEF kept
  <2>2. QED
    BY <1>4, <1>5, <1>6, <2>1 DEF IdsOK
<1>. HIDE DEF kept
<1>8. Announced(i, s) /\ Announced(kept, s)
  BY <1>4 DEF IdsInv, Announced
\* Whatever is kept or consumed, the ID that was in use is retired or stays.
<1>9. ASSUME ~i.orig
      PROVE  /\ \A n \in Retiring(i, s) : n \in Nat /\ n < i.dst
             /\ \A n \in Known(i) : \/ n \in {i.dst} \cup i.available \cup i.retire
                                    \/ Carries(s, RetireFrame(n))
  <2>1. Retiring(i, s) \subseteq Nat
    BY <1>1 DEF Retiring, FramesOK, Values
  <2>2. QED
    BY <1>9, <2>1 DEF IdsInv, Remembered
<1>10. Retiring(kept, s) = Retiring(i, s) \cup InUse(i, prior) \cup gone
  BY <1>4 DEF Retiring, retire
<1>11. CASE InUse(i, prior) = {}
  <2>1. j = kept /\ i.dst >= prior
    <3>1. ~(i.dst < prior)
      BY <1>11 DEF InUse
    <3>2. QED
      BY <1>1, <1>3, <1>11, <3>1
  <2>2. ASSUME ~i.orig PROVE \A n \in Retiring(kept, s) : n < kept.dst
    <3>1. \A n \in gone : n < i.dst
      BY <1>1, <2>1 DEF gone
    <3>2. QED
      BY <1>4, <1>9, <1>10, <1>11, <2>2, <3>1
  <2>3. ASSUME ~i.orig PROVE Remembered(kept, s)
    <3>1. /\ i.available \subseteq kept.available \cup gone
          /\ seq \notin Known(i) => seq \in kept.available
      BY <1>1, <1>4 DEF Kept, gone
    <3>2. gone \subseteq kept.retire /\ i.retire \subseteq kept.retire
      BY <1>4 DEF retire
    <3>3. QED
      BY <1>4, <1>5, <1>9, <2>3, <3>1, <3>2 DEF Remembered
  <2>4. QED
    <3>1. IdsInv(kept, s)
      BY <1>4, <1>8, <2>2, <2>3 DEF IdsInv
    <3>2. QED
      BY <1>1, <1>4, <1>7, <2>1, <3>1 DEF j
<1>12. CASE InUse(i, prior) # {}
  <2>1. i.dst < prior /\ InUse(i, prior) = {i.dst}
    BY <1>12 DEF InUse
  <2>2. ASSUME ~i.orig PROVE kept.available # {}
    <3>1. CASE seq \notin Known(i)
      BY <1>4, <3>1 DEF Kept
    <3>2. CASE seq \in Known(i)
      <4>1. ~Carries(s, RetireFrame(seq)) \/ seq \in Retiring(i, s)
        BY DEF Carries, EverSent, Retiring, Values, RetireFrame
      <4>2. seq # i.dst /\ ~(seq < i.dst)
        BY <1>1, <2>1
      <4>3. seq \in i.available
        BY <1>9, <2>2, <3>2, <4>1, <4>2 DEF Retiring
      <4>4. QED
        BY <1>4, <4>3 DEF Kept
    <3>3. QED
      BY <3>1, <3>2
  <2>3. CASE kept.available = {}
    <3>1. j = kept /\ i.orig
      BY <1>3, <2>2, <2>3
    <3>2. QED
      <4>1. IdsInv(kept, s)
        BY <1>4, <1>8, <3>1 DEF IdsInv
      <4>2. QED
        BY <1>1, <1>4, <1>7, <3>1, <4>1 DEF j
  <2>4. CASE kept.available # {}
    <3>. DEFINE first == FirstAvailable(kept)
                dst == IF kept.orig THEN kept.dst ELSE first
                left == kept.available \ {first}
    <3>1. first \in kept.available
      BY <1>4, <1>5, <1>6, <2>4, FirstAvailableFacts
    <3>2. j = [kept EXCEPT !.dst = dst, !.available = left]
      BY <1>3, <1>7, <1>12, <2>4 DEF Consume, IdsOK, IdRecords
    <3>3. first \in Nat /\ first >= prior /\ dst \in Nat
      BY <1>1, <1>4, <1>6, <3>1
    <3>. HIDE DEF first, dst, left
    <3>4. /\ j.dst = dst /\ j.available = left /\ j.known = kept.known /\ j.retire = kept.retire
          /\ j.host = kept.host /\ j.unsent = kept.unsent /\ j.next = kept.next
          /\ j.orig = kept.orig
      BY <1>7, <3>2 DEF IdsOK, IdRecords
    <3>5. IdsOK(j)
      <4>1. left \subseteq Nat /\ left \subseteq kept.available
        BY <1>4, <1>6 DEF left
      <4>2. j \in IdRecords
        BY <1>7, <3>2, <3>3, <4>1 DEF IdsOK, IdRecords
      <4>3. QED
        BY <1>7, <3>4, <4>1, <4>2 DEF IdsOK, Known
    <3>6. Announced(j, s)
      BY <1>8, <3>4 DEF Announced
    <3>7. ASSUME ~j.orig PROVE \A n \in Retiring(j, s) : n < j.dst
      <4>1. j.dst = first /\ ~i.orig
        BY <1>4, <3>4, <3>7 DEF dst
      <4>2. Retiring(j, s) = Retiring(i, s) \cup {i.dst} \cup gone
        BY <1>10, <2>1, <3>4 DEF Retiring
      <4>3. \A n \in Retiring(i, s) : n < first
        BY <1>1, <1>9, <2>1, <3>3, <4>1
      <4>4. \A n \in gone : n < first
        BY <1>1, <3>3 DEF gone
      <4>5. i.dst < first
        BY <1>1, <2>1, <3>3
      <4>6. QED
        BY <4>1, <4>2, <4>3, <4>4, <4>5
    <3>8. ASSUME ~j.orig PROVE Remembered(j, s)
      <4>1. j.dst = first /\ ~i.orig
        BY <1>4, <3>4, <3>8 DEF dst
      <4>2. kept.available \subseteq {j.dst} \cup j.available
        BY <3>4, <4>1 DEF left
      <4>3. /\ i.available \subseteq kept.available \cup gone
            /\ seq \notin Known(i) => seq \in kept.available
        BY <1>1, <1>4 DEF Kept, gone
      <4>4. gone \subseteq j.retire /\ i.retire \subseteq j.retire /\ i.dst \in j.retire
        BY <1>4, <2>1, <3>4 DEF retire
      <4>5. Known(j) = Known(i) \cup {seq}
        BY <1>5, <3>4 DEF Known
      <4>6. QED
        BY <1>9, <4>1, <4>2, <4>3, <4>4, <4>5 DEF Remembered
    <3>9. QED
      <4>1. IdsInv(j, s)
        BY <3>6, <3>7, <3>8 DEF IdsInv
      <4>2. i.next <= j.next
        BY <1>1, <1>4, <3>4
      <4>3. QED
        BY <3>5, <4>1, <4>2 DEF j
  <2>5. QED
    BY <2>3, <2>4
<1>13. QED
  BY <1>11, <1>12 DEF j

\* A packet that is sent takes what was due, one that is lost brings it back.
LEMMA IdsWrittenFacts ==
  ASSUME NEW i, IdsOK(i), NEW s, IdsInv(i, s), NEW t, NEW frames,
         EverSent(t) = EverSent(s) \cup frames,
         \A fr : Carries(s, fr) \/ fr \in frames => Carries(t, fr),
         IdFrames(i) \subseteq frames,
         \A fr \in frames : fr.kind = "retire" => fr.value \in i.retire
  PROVE  IdsOK(IdsWritten(i)) /\ IdsWritten(i).next = i.next /\ IdsInv(IdsWritten(i), t)
<1>. DEFINE j == IdsWritten(i)
<1>1. i \in IdRecords /\ i.next \in Nat
  BY DEF IdsOK, IdRecords
<1>2. /\ j \in IdRecords /\ j.unsent = {} /\ j.retire = {}
      /\ j.dst = i.dst /\ j.orig = i.orig /\ j.available = i.available /\ j.known = i.known
      /\ j.host = i.host /\ j.next = i.next
  BY <1>1 DEF IdsWritten, IdRecords
<1>. HIDE DEF j
<1>3. IdsOK(j)
  BY <1>2 DEF IdsOK, Known
<1>4. (\A n \in i.unsent : NewIdFrame(n) \in frames) /\ (\A n \in i.retire : RetireFrame(n) \in frames)
  BY DEF IdFrames, NewIdFrame, RetireFrame
<1>5. Announced(j, t)
  BY <1>2, <1>4 DEF IdsInv, Announced
<1>6. ASSUME ~j.orig PROVE \A n \in Retiring(j, t) : n < j.dst
  <2>1. Retiring(j, t) \subseteq Retiring(i, s)
    <3>1. Values(frames, "retire") \subseteq i.retire
      BY DEF Values
    <3>2. Values(EverSent(t), "retire") = Values(EverSent(s), "retire") \cup Values(frames, "retire")
      BY DEF Values
    <3>3. QED
      BY <1>2, <3>1, <3>2 DEF Retiring
  <2>2. QED
    BY <1>2, <1>6, <2>1 DEF IdsInv
<1>7. ASSUME ~j.orig PROVE Remembered(j, t)
  <2>1. Remembered(i, s)
    BY <1>2, <1>7 DEF IdsInv
  <2>2. QED
    BY <1>2, <1>4, <2>1 DEF Remembered, Known
<1>8. IdsInv(j, t)
  BY <1>5, <1>6, <1>7 DEF IdsInv
<1>9. QED
  BY <1>2, <1>3, <1>8 DEF j

LEMMA IdsCarried ==
  ASSUME NEW i, NEW s, IdsInv(i, s), NEW t, EverSent(t) = EverSent(s),
         \A fr : Carries(s, fr) => Carries(t, fr)
  PROVE  IdsInv(i, t)
<1>1. Announced(i, t)
  BY DEF IdsInv, Announced
<1>2. Retiring(i, t) = Retiring(i, s)
  BY DEF Retiring
<1>3. Remembered(i, s) => Remembered(i, t)
  BY DEF Remembered
<1>4. QED
  BY <1>1, <1>2, <1>3 DEF IdsInv

LEMMA IdsLostFacts ==
  ASSUME NEW i, IdsOK(i), NEW s, IdsInv(i, s), NEW f, FramesOK(s, i, f),
         NEW back, back \subseteq EverSent(s),
         NEW t, EverSent(t) = EverSent(s),
         \A fr : Carries(s, fr) /\ fr \notin back => Carries(t, fr)
  PROVE  IdsOK(IdsLost(i, back)) /\ IdsLost(i, back).next = i.next /\ IdsInv(IdsLost(i, back), t)
<1>. DEFINE j == IdsLost(i, back)
            unsent == i.unsent \cup {n \in i.host : NewIdFrame(n) \in back}
            retire == i.retire \cup {fr.value : fr \in {g \in back : g.kind = "retire"}}
<1>1. i \in IdRecords /\ i.next \in Nat /\ i.unsent \subseteq i.host /\ i.host \subseteq Nat
  BY DEF IdsOK, IdRecords
<1>2. retire \subseteq Nat
  BY <1>1 DEF FramesOK, IdRecords
<1>3. unsent \subseteq i.host
  BY <1>1
<1>4. j = [i EXCEPT !.unsent = unsent, !.retire = retire]
  BY <1>1 DEF IdsLost, NewIdFrame, IdRecords
<1>5. \A n : RetireFrame(n) \in back => n \in retire
  BY DEF RetireFrame
<1>6. retire \subseteq i.retire \cup Values(EverSent(s), "retire")
  BY DEF Values
<1>7. (i.unsent \subseteq unsent /\ i.retire \subseteq retire)
      /\ \A n \in i.host : NewIdFrame(n) \in back => n \in unsent
  OBVIOUS
<1>. HIDE DEF unsent, retire, j
<1>8. /\ j \in IdRecords /\ j.unsent = unsent /\ j.retire = retire
      /\ j.dst = i.dst /\ j.orig = i.orig /\ j.available = i.available /\ j.known = i.known
      /\ j.host = i.host /\ j.next = i.next
  BY <1>1, <1>2, <1>3, <1>4 DEF IdRecords
<1>9. IdsOK(j)
  BY <1>3, <1>8 DEF IdsOK, Known
<1>10. Announced(j, t)
  BY <1>7, <1>8 DEF IdsInv, Announced
<1>11. Retiring(j, t) = Retiring(i, s)
  BY <1>6, <1>7, <1>8 DEF Retiring
<1>12. ASSUME Remembered(i, s) PROVE Remembered(j, t)
  BY <1>5, <1>7, <1>8, <1>12 DEF Remembered, Known
<1>13. IdsInv(j, t)
  BY <1>8, <1>10, <1>11, <1>12 DEF IdsInv
<1>14. QED
  BY <1>8, <1>9, <1>13 DEF j

----------------------------------------------------------------------------
(***************************************************************************)
(* The steps of the client.                                                *)
(***************************************************************************)
LEMMA TransmitKeeps ==
  ASSUME NEW i, NEW f, NEW a, NEW done \in BOOLEAN, NEW fates, ClientOK(i, f, fates),
         Transmit(i, f, a, done, fates)
  PROVE  /\ ClientOK(ids', flow', sent')
         /\ ids'.next = i.next
         /\ Grows(f, flow') /\ SameUse(f, flow')
<1>. DEFINE frames == AllFrames(i, f, a, done)
<1>1. /\ IdsOK(i) /\ FlowOK(f) /\ PacketsOK(fates) /\ FramesOK(fates, i, f)
      /\ IdsInv(i, fates) /\ LimitsInv(f, fates) /\ i \in IdRecords
      /\ \A n \in i.unsent : n < i.next
  BY DEF ClientOK, IdsOK
<1>2. /\ ids' = IF done THEN IdsWritten(i) ELSE i
      /\ flow' = Flow(f, done)
      /\ PacketsOK(sent')
      /\ EverSent(sent') = EverSent(fates) \cup frames
      /\ \A fr : Carries(fates, fr) \/ fr \in frames => Carries(sent', fr)
  BY <1>1, Transmits
<1>3. FlowOK(flow') /\ Grows(f, flow') /\ SameUse(f, flow')
  BY <1>1, <1>2, FlowWritten, FlowGrows
<1>4. FlowFrames(f, done) \subseteq frames
  BY DEF AllFrames
<1>5. LimitsInv(flow', sent')
  <2>1. \A fr : Carries(fates, fr) \/ fr \in FlowFrames(f, done) => Carries(sent', fr)
    BY <1>2, <1>4
  <2>2. LimitsInv(Flow(f, done), sent')
    BY <1>1, <2>1, LimitsTransmitted
  <2>3. QED
    BY <1>2, <2>2
<1>6. IdsOK(ids') /\ ids'.next = i.next /\ IdsInv(ids', sent')
  <2>1. CASE done
    <3>1. ids' = IdsWritten(i)
      BY <1>2, <2>1
    <3>2. IdFrames(i) \subseteq frames
      BY <2>1 DEF AllFrames
    <3>3. \A fr \in frames : fr.kind = "retire" => fr.value \in i.retire
      BY <1>1, FramesOfTransmit
    <3>. HIDE DEF frames
    <3>4. QED
      BY <1>1, <1>2, <3>1, <3>2, <3>3, IdsWrittenFacts
  <2>2. CASE ~done
    <3>1. ids' = i
      BY <1>2, <2>2
    <3>2. \A fr \in frames : fr.kind # "retire"
      BY <1>1, <2>2, FramesOfTransmit
    <3>3. Values(EverSent(sent'), "retire") = Values(EverSent(fates), "retire")
      BY <1>2, <3>2 DEF Values
    <3>. HIDE DEF frames
    <3>4. Announced(i, fates) => Announced(i, sent')
      BY <1>2 DEF Announced
    <3>5. Remembered(i, fates) => Remembered(i, sent')
      BY <1>2 DEF Remembered
    <3>6. IdsInv(i, sent')
      BY <1>1, <3>3, <3>4, <3>5 DEF IdsInv, Retiring
    <3>7. QED
      BY <1>1, <3>1, <3>6
  <2>3. QED
    BY <2>1, <2>2
<1>7. FramesOK(sent', ids', flow')
  <2>1. FramesOK(sent', ids', Flow(f, done))
    BY <1>1, <1>2, <1>6, FramesTransmitted
  <2>2. QED
    BY <1>2, <2>1
<1>8. QED
  BY <1>2, <1>3, <1>5, <1>6, <1>7 DEF ClientOK

\* What the server and its packets rely on only grows.
LEMMA OthersKeep ==
  ASSUME ClientOK(ids, flow, sent), ClientOK(ids', flow', sent'), NetOK, ServerOK,
         server' = server, net' = net, ids.next <= ids'.next, Grows(flow, flow')
  PROVE  NetOK' /\ ServerOK'
<1>1. /\ ids.next \in Nat /\ ids'.next \in Nat
      /\ flow.data.value \in Nat /\ flow'.data.value \in Nat
      /\ flow.count.value \in Nat /\ flow'.count.value \in Nat
      /\ \A s \in Remote : flow.in[s].limit \in Nat /\ flow'.in[s].limit \in Nat
  BY DEF ClientOK, IdsOK, IdRecords, FlowOK, Limits, Incoming
<1>2. NetOK'
  <2>1. ASSUME NEW p \in net, p.frame.kind = "retire"
        PROVE  p.frame.value \in Nat /\ p.frame.value < ids'.next /\ p.frame.value # p.to
    BY <1>1, <2>1 DEF NetOK
  <2>2. QED
    BY <2>1 DEF NetOK
<1>3. ServerOK'
  <2>1. \A h \in server.hosts : h < ids'.next
    BY <1>1 DEF ServerOK
  <2>2. server.max \in 0..flow'.data.value /\ server.count \in 0..flow'.count.value
    BY <1>1 DEF ServerOK, Grows
  <2>3. \A s \in Remote : server.limit[s] <= flow'.in[s].limit
    BY <1>1 DEF ServerOK, Grows
  <2>4. QED
    BY <2>1, <2>2, <2>3 DEF ServerOK
<1>4. QED
  BY <1>2, <1>3

LEMMA CountedKept ==
  ASSUME Counted, SameUse(flow, flow'), refused' = refused, repeated' = repeated,
         server.out \in [Remote -> Nat], server'.out \in [Remote -> Nat], FlowOK(flow),
         \A s \in Remote : server.out[s] <= server'.out[s]
  PROVE  Counted'
<1>1. Reached(flow') = Reached(flow)
  BY DEF Reached, SameUse
<1>2. \A s \in Remote : Reached(flow)[s] \in Nat
  BY DEF Reached, Larger, FlowOK, Incoming
<1>3. QED
  BY <1>1, <1>2 DEF Counted, SameUse

\* The letters: the client changes its IDs or writes, and transmits.
LEMMA LetterKeeps ==
  ASSUME ApplicationInv, NEW i, NEW f, NEW a, NEW done \in BOOLEAN,
         ClientOK(i, f, sent), ids.next <= i.next, Grows(flow, f), SameUse(flow, f),
         Transmit(i, f, a, done, sent),
         complete' \in BOOLEAN, server' = server, net' = net,
         refused' = refused, repeated' = repeated
  PROVE  ApplicationInv'
<1>1. /\ ClientOK(ids', flow', sent') /\ ids'.next = i.next
      /\ Grows(f, flow') /\ SameUse(f, flow')
  BY TransmitKeeps
<1>2. Grows(flow, flow') /\ SameUse(flow, flow')
  <2>1. FlowOK(flow) /\ FlowOK(f) /\ FlowOK(flow')
    BY <1>1 DEF ApplicationInv, ClientOK
  <2>2. \A g : FlowOK(g) => /\ g.data.value \in Nat /\ g.count.value \in Nat
                            /\ \A s \in Remote : g.in[s].limit \in Nat
    BY DEF FlowOK, Limits, Incoming
  <2>3. QED
    BY <1>1, <2>1, <2>2 DEF Grows, SameUse
<1>3. NetOK' /\ ServerOK'
  BY <1>1, <1>2, OthersKeep DEF ApplicationInv
<1>4. Counted'
  BY <1>2, CountedKept DEF ApplicationInv, ServerOK, ClientOK
<1>5. QED
  BY <1>1, <1>3, <1>4 DEF ApplicationInv

LEMMA InitOK == Init => ApplicationInv
<1>1. SUFFICES ASSUME Init PROVE ApplicationInv
  OBVIOUS
<1>2. /\ ids = FreshIds /\ flow = FreshFlow /\ sent = <<>> /\ server = FreshServer /\ net = {}
      /\ complete = FALSE /\ refused = FALSE /\ repeated = FALSE
  BY <1>1 DEF Init
<1>3. {LocalData, LocalStreamData, LocalStreams, RemoteData} \subseteq Nat
  BY FlowAssumption
<1>4. PacketsOK(<<>>) /\ EverSent(<<>>) = {}
  BY NoPackets
<1>5. <<0>> \in Seq(Nat) /\ DOMAIN <<0>> = {1} /\ <<0>>[1] = 0
  OBVIOUS
<1>6. IdsOK(FreshIds)
  <2>1. IsFiniteSet({0})
    BY FS_Singleton
  <2>2. FreshIds \in IdRecords
    BY <1>5 DEF FreshIds, IdRecords
  <2>3. QED
    BY <2>1, <2>2 DEF IdsOK, FreshIds
<1>7. FlowOK(FreshFlow)
  <2>. DEFINE r == [highest |-> 0, final |-> 0, limit |-> LocalStreamData,
                    sent |-> LocalStreamData, open |-> FALSE]
  <2>1. r \in Incoming
    BY <1>3 DEF Incoming
  <2>2. Limit(LocalData) \in Limits /\ Limit(LocalStreams) \in Limits
    BY <1>3 DEF Limit, Limits
  <2>3. [s \in Remote |-> r] \in [Remote -> Incoming]
    BY <2>1
  <2>4. DOMAIN FreshFlow = {"data", "count", "in", "out", "open", "queue", "tell", "max", "used", "streams"}
        /\ FreshFlow.data = Limit(LocalData) /\ FreshFlow.count = Limit(LocalStreams)
        /\ FreshFlow.in = [s \in Remote |-> r]
    BY DEF FreshFlow
  <2>5. QED
    BY <2>2, <2>3, <2>4 DEF FlowOK
<1>8. FramesOK(<<>>, FreshIds, FreshFlow)
  BY <1>4 DEF FramesOK
<1>9. IdsInv(FreshIds, <<>>)
  <2>1. Announced(FreshIds, <<>>)
    BY DEF Announced, FreshIds
  <2>2. Retiring(FreshIds, <<>>) = {}
    BY <1>4 DEF Retiring, FreshIds, Values
  <2>3. Remembered(FreshIds, <<>>)
    BY <1>5 DEF Remembered, Known, FreshIds
  <2>4. QED
    BY <2>1, <2>2, <2>3 DEF IdsInv
<1>10. LimitsInv(FreshFlow, <<>>)
  BY <1>3 DEF LimitsInv, Covered, FreshFlow, Limit
<1>11. ClientOK(ids, flow, sent)
  BY <1>2, <1>4, <1>6, <1>7, <1>8, <1>9, <1>10 DEF ClientOK
<1>12. NetOK
  BY <1>2 DEF NetOK
<1>13. ServerOK
  <2>1. server.out = [s \in Remote |-> 0] /\ server.limit = [s \in Remote |-> LocalStreamData]
        /\ server.max = LocalData /\ server.count = LocalStreams
        /\ server.next = 1 /\ server.prior = 0 /\ server.hosts = {0}
    BY <1>2 DEF FreshServer
  <2>2. Total(server.out) = 0
    BY <2>1, TotalFacts
  <2>3. DOMAIN server = {"max", "count", "limit", "out", "reset", "grant", "grantCount",
                         "grantLimit", "next", "prior", "dropped", "hosts", "retired"}
    BY <1>2 DEF FreshServer
  <2>4. /\ flow.data.value = LocalData /\ flow.count.value = LocalStreams /\ ids.next = 1
        /\ \A s \in Remote : flow.in[s].limit = LocalStreamData
    BY <1>2 DEF FreshFlow, FreshIds, Limit
  <2>5. QED
    BY <1>3, <2>1, <2>2, <2>3, <2>4 DEF ServerOK
<1>14. Counted
  <2>1. Reached(flow) = [s \in Remote |-> 0]
    BY <1>2 DEF Reached, FreshFlow, Larger
  <2>2. flow.data.used = 0 /\ server.out = [s \in Remote |-> 0]
    BY <1>2 DEF FreshFlow, Limit, FreshServer
  <2>3. Total([s \in Remote |-> 0]) = 0
    BY TotalFacts
  <2>4. QED
    BY <1>2, <2>1, <2>2, <2>3 DEF Counted
<1>15. QED
  BY <1>2, <1>11, <1>12, <1>13, <1>14 DEF ApplicationInv

\* The letters.
LEMMA FlowReflexive ==
  ASSUME NEW f, FlowOK(f)
  PROVE  Grows(f, f) /\ SameUse(f, f) /\ SameLimits(f, f)
<1>1. f.data.value \in Nat /\ f.count.value \in Nat /\ \A s \in Remote : f.in[s].limit \in Nat
  BY DEF FlowOK, Limits, Incoming
<1>2. QED
  BY <1>1 DEF Grows, SameUse, SameLimits

LEMMA LettersKeep ==
  ASSUME ApplicationInv, \/ Finish \/ SendIds \/ \E s \in Local : WriteData(s)
  PROVE  ApplicationInv'
<1>1. /\ complete \in BOOLEAN /\ ClientOK(ids, flow, sent) /\ IdsOK(ids) /\ FlowOK(flow)
      /\ ids.next \in Nat
  BY DEF ApplicationInv, ClientOK, IdsOK, IdRecords
<1>2. Grows(flow, flow) /\ SameUse(flow, flow)
  BY <1>1, FlowReflexive
<1>3. CASE Finish
  <2>1. /\ Transmit(ids, flow, acks, TRUE, sent) /\ complete' = TRUE
        /\ server' = server /\ net' = net /\ refused' = refused /\ repeated' = repeated
    BY <1>3 DEF Finish
  <2>2. complete' \in BOOLEAN /\ TRUE \in BOOLEAN /\ ids.next <= ids.next
    BY <1>1, <2>1
  <2>3. \E done \in BOOLEAN : Transmit(ids, flow, acks, done, sent)
    BY <2>1, <2>2
  <2>4. QED
    BY <1>1, <1>2, <2>1, <2>2, <2>3, LetterKeeps
<1>4. CASE SendIds
  <2>1. /\ complete' = complete
        /\ server' = server /\ net' = net /\ refused' = refused /\ repeated' = repeated
    BY <1>4 DEF SendIds
  <2>2. PICK i \in {Replenish(ids, IdLimit), IssueTooMany(ids, IdLimit)} :
          Transmit(i, flow, acks, TRUE, sent)
    BY <1>4 DEF SendIds
  <2>3. IdsOK(i) /\ IdsInv(i, sent) /\ ids.next <= i.next /\ i.next \in Nat
    BY <1>1, ReplenishFacts, IssueTooManyFacts DEF ClientOK, IdsOK, IdRecords
  <2>4. FramesOK(sent, i, flow)
    BY <1>1, <1>2, <2>3, FramesGrow DEF ClientOK
  <2>5. ClientOK(i, flow, sent)
    BY <1>1, <2>3, <2>4 DEF ClientOK
  <2>6. QED
    BY <1>1, <1>2, <2>1, <2>2, <2>3, <2>5, LetterKeeps
<1>5. CASE \E s \in Local : WriteData(s)
  <2>1. PICK s \in Local : WriteData(s)
    BY <1>5
  <2>. DEFINE f == Write(flow, s, 1)
  <2>2. /\ complete' = complete /\ Transmit(ids, f, acks, complete, sent)
        /\ server' = server /\ net' = net /\ refused' = refused /\ repeated' = repeated
    BY <2>1 DEF WriteData
  <2>3. FlowOK(f) /\ SameLimits(flow, f) /\ SameUse(flow, f)
    BY <1>1, GrantFacts
  <2>. HIDE DEF f
  <2>4. Grows(flow, f) /\ LimitsInv(f, sent)
    BY <1>1, <2>3, SameLimitsKeep DEF ClientOK
  <2>5. FramesOK(sent, ids, f)
    BY <1>1, <2>3, <2>4, FramesGrow DEF ClientOK
  <2>6. ClientOK(ids, f, sent)
    BY <1>1, <2>3, <2>4, <2>5 DEF ClientOK
  <2>7. QED
    BY <1>1, <2>2, <2>3, <2>4, <2>6, LetterKeeps
<1>6. QED
  BY <1>3, <1>4, <1>5

LEMMA ChangeKeeps ==
  ASSUME ApplicationInv, ChangeDestination
  PROVE  ApplicationInv'
<1>1. /\ ids' = UseOriginal(ids)
      /\ UNCHANGED <<flow, sent, server, net, complete, refused, repeated>>
  BY DEF ChangeDestination, historyVars
<1>2. ids \in IdRecords
  BY DEF ApplicationInv, ClientOK, IdsOK
<1>3. /\ ids' \in IdRecords /\ ids'.orig = TRUE /\ ids'.next = ids.next /\ ids'.host = ids.host
      /\ ids'.unsent = ids.unsent /\ ids'.available = ids.available /\ ids'.known = ids.known
  BY <1>1, <1>2 DEF UseOriginal, IdRecords
<1>4. IdsOK(ids')
  BY <1>3 DEF ApplicationInv, ClientOK, IdsOK, Known
<1>5. IdsInv(ids', sent')
  <2>1. Announced(ids', sent')
    BY <1>1, <1>3 DEF ApplicationInv, ClientOK, IdsInv, Announced
  <2>2. QED
    BY <1>3, <2>1 DEF IdsInv
<1>6. ClientOK(ids', flow', sent')
  BY <1>1, <1>3, <1>4, <1>5 DEF ApplicationInv, ClientOK, FramesOK
<1>7. NetOK' /\ ServerOK' /\ Counted'
  BY <1>1, <1>3 DEF ApplicationInv, NetOK, ServerOK, Counted
<1>8. QED
  BY <1>1, <1>6, <1>7 DEF ApplicationInv

(***************************************************************************)
(* The packets of the server.                                              *)
(***************************************************************************)
Kinds == {"newId", "retire", "maxData", "maxStreams", "maxStreamData", "data", "reset", "ack"}

\* A handler leaves the client as it should be, and takes nothing back.
Handled(h) ==
  /\ ClientOK(h.ids, h.flow, h.sent)
  /\ ids.next <= h.ids.next /\ Grows(flow, h.flow)

LEMMA IdHandlersKeep ==
  ASSUME ApplicationInv, NEW i, IdsOK(i), IdsInv(i, sent), ids.next <= i.next
  PROVE  Handled([Same EXCEPT !.ids = i])
<1>1. ClientOK(ids, flow, sent) /\ FlowOK(flow) /\ ids.next \in Nat /\ i.next \in Nat
  BY DEF ApplicationInv, ClientOK, IdsOK, IdRecords
<1>2. FramesOK(sent, i, flow)
  BY <1>1, FlowReflexive, FramesGrow DEF ClientOK
<1>3. ClientOK(i, flow, sent)
  BY <1>1, <1>2 DEF ClientOK
<1>4. LET h == [Same EXCEPT !.ids = i] IN h.ids = i /\ h.flow = flow /\ h.sent = sent
  BY DEF Same
<1>5. QED
  BY <1>1, <1>3, <1>4, FlowReflexive DEF Handled

LEMMA FlowHandlersKeep ==
  ASSUME ApplicationInv, NEW f, FlowOK(f), SameLimits(flow, f)
  PROVE  Handled([Same EXCEPT !.flow = f])
<1>1. ClientOK(ids, flow, sent) /\ FlowOK(flow) /\ ids.next \in Nat
  BY DEF ApplicationInv, ClientOK, IdsOK, IdRecords
<1>2. Grows(flow, f) /\ LimitsInv(f, sent)
  BY <1>1, SameLimitsKeep DEF ClientOK
<1>3. FramesOK(sent, ids, f)
  BY <1>1, <1>2, FramesGrow DEF ClientOK
<1>4. ClientOK(ids, f, sent)
  BY <1>1, <1>2, <1>3 DEF ClientOK
<1>5. LET h == [Same EXCEPT !.flow = f] IN h.ids = ids /\ h.flow = f /\ h.sent = sent
  BY DEF Same
<1>6. QED
  BY <1>1, <1>2, <1>4, <1>5 DEF Handled

LEMMA AckHandlerKeeps ==
  ASSUME ApplicationInv, NEW S, NEW L \in SUBSET (DOMAIN sent)
  PROVE  /\ Handled(HandleAck(S, L))
         /\ SameUse(flow, HandleAck(S, L).flow)
<1>. DEFINE back == LostFrames(L)
            i == IdsLost(ids, back)
            f == LimitsLost(flow, back)
            t == Marked(sent, S, L)
            h == HandleAck(S, L)
<1>1. /\ ClientOK(ids, flow, sent) /\ IdsOK(ids) /\ FlowOK(flow) /\ PacketsOK(sent)
      /\ FramesOK(sent, ids, flow) /\ IdsInv(ids, sent) /\ LimitsInv(flow, sent) /\ ids.next \in Nat
  BY DEF ApplicationInv, ClientOK, IdsOK, IdRecords
<1>2. h.ids = i /\ h.flow = f /\ h.sent = t
  BY DEF HandleAck, Marked
<1>3. back \subseteq EverSent(sent) /\ back = UNION {sent[n].frames : n \in L}
  BY DEF LostFrames, EverSent
<1>. HIDE DEF back
<1>4. /\ PacketsOK(t) /\ EverSent(t) = EverSent(sent)
      /\ \A fr : Carries(sent, fr) /\ fr \notin back => Carries(t, fr)
  BY <1>1, <1>3, PacketsAcknowledged
<1>. HIDE DEF t
<1>5. FlowOK(f) /\ Grows(flow, f) /\ SameUse(flow, f) /\ LimitsInv(f, t)
  BY <1>1, <1>4, LimitsAfterLoss
<1>6. IdsOK(i) /\ i.next = ids.next /\ IdsInv(i, t)
  BY <1>1, <1>3, <1>4, IdsLostFacts
<1>. HIDE DEF i, f, h
<1>7. FramesOK(t, i, f)
  BY <1>1, <1>4, <1>5, <1>6, FramesGrow
<1>8. ClientOK(i, f, t)
  BY <1>4, <1>5, <1>6, <1>7 DEF ClientOK
<1>9. Handled(h)
  BY <1>1, <1>2, <1>5, <1>6, <1>8 DEF Handled
<1>10. QED
  BY <1>2, <1>5, <1>9 DEF h

\* Every frame the network holds is handled as it should be.
LEMMA HandleKeeps ==
  ASSUME ApplicationInv, NEW p \in net, NEW L \in MayBeLost(p.frame)
  PROVE  Handled(Handle(p.frame, p.to, L))
<1>. DEFINE fr == p.frame
            h == Handle(fr, p.to, L)
<1>1. /\ ClientOK(ids, flow, sent) /\ IdsOK(ids) /\ FlowOK(flow) /\ IdsInv(ids, sent)
      /\ FramesOK(sent, ids, flow)
  BY DEF ApplicationInv, ClientOK
<1>2. /\ fr.kind \in Kinds
      /\ fr.kind = "newId" => fr.value \in Nat /\ fr.prior \in Nat /\ fr.prior <= fr.value
      /\ fr.kind \in {"data", "reset"} =>
           fr.stream \in Remote /\ fr.value \in Nat
  <2>1. server.out \in [Remote -> Nat]
    BY DEF ApplicationInv, ServerOK
  <2>2. QED
    BY <2>1 DEF ApplicationInv, NetOK, Kinds
<1>3. L \in SUBSET (DOMAIN sent)
  <2>1. CASE fr.kind # "ack"
    BY <2>1 DEF MayBeLost
  <2>2. CASE fr.kind = "ack"
    BY <2>2 DEF MayBeLost
  <2>3. QED
    BY <2>1, <2>2
<1>. HIDE DEF fr
<1>4. CASE fr.kind = "newId"
  <2>1. h = [Same EXCEPT !.ids = NewId(ids, fr.value, fr.prior)]
    BY <1>4 DEF Handle
  <2>2. QED
    BY <1>1, <1>2, <1>4, <2>1, NewIdFacts, IdHandlersKeep DEF fr
<1>5. CASE fr.kind = "retire"
  <2>1. h = [Same EXCEPT !.ids = RetireId(ids, fr.value, p.to, IdLimit)]
    BY <1>5 DEF Handle
  <2>2. QED
    BY <1>1, <2>1, RetireIdFacts, IdHandlersKeep DEF fr
<1>6. CASE fr.kind = "maxData"
  <2>1. h = [Same EXCEPT !.flow = MaxData(flow, fr.value)]
    BY <1>6 DEF Handle
  <2>2. QED
    BY <1>1, <2>1, GrantFacts, FlowHandlersKeep DEF fr
<1>7. CASE fr.kind = "maxStreams"
  <2>1. h = [Same EXCEPT !.flow = MaxStreams(flow, fr.value)]
    BY <1>7 DEF Handle
  <2>2. QED
    BY <1>1, <2>1, GrantFacts, FlowHandlersKeep DEF fr
<1>8. CASE fr.kind = "maxStreamData"
  <2>1. h = [Same EXCEPT !.flow = MaxStreamData(flow, fr.stream, fr.value)]
    BY <1>8 DEF Handle
  <2>2. QED
    BY <1>1, <2>1, GrantFacts, FlowHandlersKeep DEF fr
<1>9. CASE fr.kind = "data"
  <2>1. h = [Same EXCEPT !.flow = StreamData(flow, fr.stream, fr.value)]
    BY <1>9 DEF Handle
  <2>2. QED
    BY <1>1, <1>2, <1>9, <2>1, StreamFacts, FlowHandlersKeep DEF fr
<1>10. CASE fr.kind = "reset"
  <2>1. h = [Same EXCEPT !.flow = StreamReset(flow, fr.stream, fr.value)]
    BY <1>10 DEF Handle
  <2>2. QED
    BY <1>1, <1>2, <1>10, <2>1, StreamFacts, FlowHandlersKeep DEF fr
<1>11. CASE fr.kind = "ack"
  <2>1. h = HandleAck({n \in fr.packets : sent[n].fate = "out"}, L)
    BY <1>11 DEF Handle
  <2>2. QED
    BY <1>3, <2>1, AckHandlerKeeps DEF fr
<1>12. QED
  BY <1>2, <1>4, <1>5, <1>6, <1>7, <1>8, <1>9, <1>10, <1>11 DEF Kinds


\* The bytes that end at v are the server's to send: the client's count takes
\* them in, and stays within what the server has sent.
LEMMA CountAfter ==
  ASSUME ApplicationInv, ~repeated, NEW s \in Remote, NEW v \in 1..server.out[s],
         flow.in[s].final = 0
  PROVE  LET d == Newly(flow, s, v)
             r == [Reached(flow) EXCEPT ![s] = @ + d]
         IN /\ d \in Nat /\ r \in [Remote -> Nat]
            /\ r[s] = Larger(Reached(flow)[s], v)
            /\ \A q \in Remote : r[q] <= server.out[q]
            /\ Total(r) = flow.data.used + d
            /\ Total(r) <= flow.data.value
<1>. DEFINE d == Newly(flow, s, v)
            old == Reached(flow)
            r == [old EXCEPT ![s] = @ + d]
<1>1. /\ FlowOK(flow) /\ flow.data.value \in Nat /\ flow.in[s].highest \in Nat
      /\ server.out \in [Remote -> Nat] /\ server.max \in 0..flow.data.value
      /\ Total(server.out) <= server.max
      /\ \A q \in Remote : old[q] <= server.out[q]
      /\ flow.data.used = Total(old)
  BY DEF ApplicationInv, ClientOK, ServerOK, Counted, FlowOK, Limits, Incoming
<1>2. old \in [Remote -> Nat]
  <2>1. \A q \in Remote : Larger(flow.in[q].highest, flow.in[q].final) \in Nat
    BY <1>1 DEF FlowOK, Incoming, Larger
  <2>2. QED
    BY <2>1 DEF Reached
<1>3. old[s] = flow.in[s].highest
  BY <1>1 DEF Reached, Larger
<1>4. v \in Nat /\ v <= server.out[s] /\ server.out[s] \in Nat
  BY <1>1
<1>5. d \in Nat /\ old[s] + d = Larger(old[s], v)
  BY <1>1, <1>3, <1>4 DEF Newly, Larger
<1>. HIDE DEF d, old
<1>6. r \in [Remote -> Nat] /\ r[s] = old[s] + d /\ \A q \in Remote \ {s} : r[q] = old[q]
  BY <1>2, <1>5
<1>7. \A q \in Remote : r[q] <= server.out[q]
  <2>1. r[s] <= server.out[s]
    BY <1>1, <1>2, <1>4, <1>5, <1>6 DEF Larger
  <2>2. QED
    BY <1>1, <1>6, <2>1
<1>8. Total(r) = Total(old) + d
  BY <1>2, <1>5, TotalFacts
<1>9. Total(r) \in Nat /\ Total(server.out) \in Nat /\ Total(r) <= Total(server.out)
  BY <1>1, <1>6, <1>7, TotalFacts
<1>10. Total(r) <= flow.data.value
  BY <1>1, <1>9
<1>. HIDE DEF r
<1>11. d \in Nat /\ r \in [Remote -> Nat] /\ r[s] = Larger(old[s], v) /\ Total(r) = flow.data.used + d
  BY <1>1, <1>5, <1>6, <1>8
<1>12. QED
  BY <1>7, <1>10, <1>11 DEF d, old, r

LEMMA NotRefused ==
  ASSUME ApplicationInv, ~repeated, NEW p \in net
  PROVE  /\ p.frame.kind \in {"data", "reset"} /\ flow.in[p.frame.stream].final = 0
              => ~Refused(flow, p.frame.stream, p.frame.value)
         /\ p.frame.kind = "retire" => ~RetireRefused(ids, p.frame.value, p.to)
<1>1. ASSUME p.frame.kind \in {"data", "reset"}, flow.in[p.frame.stream].final = 0
      PROVE  ~Refused(flow, p.frame.stream, p.frame.value)
  <2>. DEFINE s == p.frame.stream
              v == p.frame.value
  <2>1. s \in Remote /\ v \in 1..server.out[s] /\ flow.in[s].final = 0
    BY <1>1 DEF ApplicationInv, NetOK
  <2>. HIDE DEF s, v
  <2>2. flow.data.used + Newly(flow, s, v) <= flow.data.value
    BY <2>1, CountAfter
  <2>3. /\ server.out[s] \in Nat /\ server.limit[s] \in Nat /\ flow.in[s].limit \in Nat
        /\ server.out[s] <= server.limit[s] /\ server.limit[s] <= flow.in[s].limit
        /\ server.out[s] > 0 => s < server.count
        /\ server.count \in 0..flow.count.value /\ flow.count.value \in Nat
        /\ flow.data.used \in Nat /\ flow.data.value \in Nat /\ flow.in[s].highest \in Nat
    BY <2>1 DEF ApplicationInv, ClientOK, ServerOK, FlowOK, Limits, Incoming
  <2>4. s \in Nat
    BY <2>1, FlowAssumption, FS_CardinalityType
  <2>5. ~(v > flow.in[s].limit)
    BY <2>1, <2>3
  <2>6. Newly(flow, s, v) \in Nat
    BY <2>1, <2>3 DEF Newly
  <2>7. ~OverLimit(flow, s, v)
    BY <2>2, <2>3, <2>5, <2>6 DEF OverLimit
  <2>8. ~TooManyStreams(flow, s)
    BY <2>1, <2>3, <2>4 DEF TooManyStreams
  <2>9. QED
    BY <2>7, <2>8 DEF Refused, s, v
<1>2. ASSUME p.frame.kind = "retire"
      PROVE  ~RetireRefused(ids, p.frame.value, p.to)
  <2>1. p.frame.value \in Nat /\ p.frame.value < ids.next /\ p.frame.value # p.to /\ ids.next \in Nat
    BY <1>2 DEF ApplicationInv, NetOK, ClientOK, IdsOK, IdRecords
  <2>2. QED
    BY <2>1 DEF RetireRefused
<1>3. QED
  BY <1>1, <1>2

\* What a frame adds to the count.
LEMMA UseAfter ==
  ASSUME ApplicationInv, ~repeated, NEW p \in net, NEW L \in MayBeLost(p.frame),
         p.frame.kind \in {"data", "reset"} => flow.in[p.frame.stream].final = 0
  PROVE  LET g == Handle(p.frame, p.to, L).flow IN
         /\ \A s \in Remote : Reached(g)[s] <= server.out[s]
         /\ g.data.used = Total(Reached(g))
<1>. DEFINE fr == p.frame
            h == Handle(fr, p.to, L)
            g == h.flow
<1>1. /\ FlowOK(flow) /\ fr.kind \in Kinds /\ server.out \in [Remote -> Nat]
      /\ fr.kind \in {"data", "reset"} => fr.stream \in Remote /\ fr.value \in 1..server.out[fr.stream]
      /\ \A s \in Remote : Reached(flow)[s] <= server.out[s]
      /\ flow.data.used = Total(Reached(flow))
  BY DEF ApplicationInv, ClientOK, NetOK, ServerOK, Counted, Kinds
<1>2. L \in SUBSET (DOMAIN sent)
  <2>1. CASE fr.kind # "ack"
    BY <2>1 DEF MayBeLost
  <2>2. CASE fr.kind = "ack"
    BY <2>2 DEF MayBeLost
  <2>3. QED
    BY <2>1, <2>2
<1>3. ASSUME NEW f, f.data.used = flow.data.used,
             \A s \in Remote : f.in[s].highest = flow.in[s].highest /\ f.in[s].final = flow.in[s].final
      PROVE  Reached(f) = Reached(flow)
  BY <1>3 DEF Reached
<1>4. ASSUME SameUse(flow, g)
      PROVE  /\ \A s \in Remote : Reached(g)[s] <= server.out[s]
             /\ g.data.used = Total(Reached(g))
  <2>1. Reached(g) = Reached(flow) /\ g.data.used = flow.data.used
    BY <1>3, <1>4 DEF SameUse
  <2>2. QED
    BY <1>1, <2>1
<1>5. ASSUME NEW s \in Remote, NEW v \in 1..server.out[s], Advanced(flow, g, s, v),
             flow.in[s].final = 0
      PROVE  /\ \A q \in Remote : Reached(g)[q] <= server.out[q]
             /\ g.data.used = Total(Reached(g))
  <2>. DEFINE d == Newly(flow, s, v)
              r == [Reached(flow) EXCEPT ![s] = @ + d]
  <2>1. /\ d \in Nat /\ r \in [Remote -> Nat]
        /\ r[s] = Larger(Reached(flow)[s], v)
        /\ \A q \in Remote : r[q] <= server.out[q]
        /\ Total(r) = flow.data.used + d
    BY <1>5, CountAfter
  <2>2. \A q \in Remote \ {s} : r[q] = Reached(flow)[q]
    BY DEF Reached
  <2>3. /\ g.data.used = flow.data.used + d
        /\ Reached(g)[s] = Larger(Reached(flow)[s], v)
        /\ \A q \in Remote \ {s} : Reached(g)[q] = Reached(flow)[q]
    BY <1>5 DEF Advanced
  <2>. HIDE DEF r, d
  <2>4. \A q \in Remote : Reached(g)[q] = r[q]
    BY <2>1, <2>2, <2>3
  <2>5. Reached(g) = [q \in Remote |-> Reached(g)[q]]
    BY DEF Reached
  <2>6. Reached(g) = r
    BY <2>1, <2>4, <2>5
  <2>7. QED
    BY <2>1, <2>3, <2>6
<1>. HIDE DEF fr
<1>6. CASE fr.kind \in {"newId", "retire"}
  <2>1. \E i : h = [Same EXCEPT !.ids = i]
    BY <1>6 DEF Handle
  <2>2. g = flow
    BY <2>1 DEF Same
  <2>3. QED
    BY <1>1, <1>4, <2>2, FlowReflexive DEF fr
<1>7. CASE fr.kind = "maxData"
  <2>1. g = MaxData(flow, fr.value)
    BY <1>7 DEF Handle, Same
  <2>2. QED
    BY <1>1, <1>4, <2>1, GrantFacts DEF fr
<1>8. CASE fr.kind = "maxStreams"
  <2>1. g = MaxStreams(flow, fr.value)
    BY <1>8 DEF Handle, Same
  <2>2. QED
    BY <1>1, <1>4, <2>1, GrantFacts DEF fr
<1>9. CASE fr.kind = "maxStreamData"
  <2>1. g = MaxStreamData(flow, fr.stream, fr.value)
    BY <1>9 DEF Handle, Same
  <2>2. QED
    BY <1>1, <1>4, <2>1, GrantFacts DEF fr
<1>10. CASE fr.kind \in {"data", "reset"}
  <2>. DEFINE s == fr.stream
              v == fr.value
  <2>1. s \in Remote /\ v \in 1..server.out[s] /\ v \in Nat /\ flow.in[s].final = 0
    <3>1. s \in Remote /\ v \in 1..server.out[s] /\ server.out[s] \in Nat
      BY <1>1, <1>10
    <3>2. flow.in[s].final = 0
      BY <1>10 DEF fr
    <3>3. QED
      BY <3>1, <3>2
  <2>2. ~Refused(flow, s, v)
    BY <1>10, <2>1, NotRefused DEF fr
  <2>3. g = StreamData(flow, s, v) \/ g = StreamReset(flow, s, v)
    <3>1. CASE fr.kind = "data"
      BY <3>1 DEF Handle, Same
    <3>2. CASE fr.kind = "reset"
      BY <3>2 DEF Handle, Same
    <3>3. QED
      BY <1>10, <3>1, <3>2
  <2>. HIDE DEF s, v, g
  <2>4. Advanced(flow, g, s, v)
    BY <1>1, <2>1, <2>2, <2>3, StreamFacts
  <2>5. QED
    BY <1>5, <2>1, <2>4 DEF g, fr
<1>11. CASE fr.kind = "ack"
  <2>1. h = HandleAck({n \in fr.packets : sent[n].fate = "out"}, L)
    BY <1>11 DEF Handle
  <2>2. SameUse(flow, g)
    BY <1>2, <2>1, AckHandlerKeeps
  <2>3. QED
    BY <1>4, <2>2 DEF fr
<1>12. QED
  BY <1>1, <1>6, <1>7, <1>8, <1>9, <1>10, <1>11 DEF Kinds

LEMMA ReceiveKeeps ==
  ASSUME ApplicationInv, NEW p \in net, Receive(p)
  PROVE  ApplicationInv'
<1>. DEFINE fr == p.frame
            eliciting == fr.kind # "ack"
<1>1. PICK L \in MayBeLost(fr) :
        Transmit(Handle(fr, p.to, L).ids, Handle(fr, p.to, L).flow,
                 Record(Handle(fr, p.to, L).acks, p.number, eliciting), complete,
                 Handle(fr, p.to, L).sent)
  BY DEF Receive
<1>2. /\ complete' = complete /\ server' = server /\ net' = net /\ complete \in BOOLEAN
      /\ refused' = (refused \/ (fr.kind \in {"data", "reset"} /\ Refused(flow, fr.stream, fr.value))
                             \/ (fr.kind = "retire" /\ RetireRefused(ids, fr.value, p.to)))
      /\ repeated' = (repeated \/ (fr.kind \in {"data", "reset"} /\ flow.in[fr.stream].final # 0))
  BY DEF Receive, ApplicationInv
<1>. DEFINE h == Handle(fr, p.to, L)
<1>3. ClientOK(h.ids, h.flow, h.sent) /\ ids.next <= h.ids.next /\ Grows(flow, h.flow)
  BY HandleKeeps DEF Handled
<1>4. /\ ClientOK(ids', flow', sent') /\ ids'.next = h.ids.next
      /\ Grows(h.flow, flow') /\ SameUse(h.flow, flow')
  <2>1. \E a : Transmit(h.ids, h.flow, a, complete, h.sent)
    BY <1>1
  <2>. HIDE DEF h
  <2>2. QED
    BY <1>2, <1>3, <2>1, TransmitKeeps
<1>5. ~repeated' => /\ ~repeated /\ ~refused'
                    /\ fr.kind \in {"data", "reset"} => flow.in[fr.stream].final = 0
  <2>1. ASSUME ~repeated'
        PROVE  /\ ~repeated
               /\ fr.kind \in {"data", "reset"} => flow.in[fr.stream].final = 0
    BY <1>2, <2>1
  <2>2. ~repeated => ~refused
    BY DEF ApplicationInv, Counted
  <2>3. ASSUME ~repeated'
        PROVE  ~refused'
    <3>1. ~refused
      BY <2>1, <2>2, <2>3
    <3>2. /\ ~(fr.kind \in {"data", "reset"} /\ Refused(flow, fr.stream, fr.value))
          /\ ~(fr.kind = "retire" /\ RetireRefused(ids, fr.value, p.to))
      BY <2>1, <2>3, NotRefused
    <3>3. QED
      BY <1>2, <3>1, <3>2
  <2>4. QED
    BY <2>1, <2>3
<1>6. ~repeated' => /\ \A s \in Remote : Reached(h.flow)[s] <= server.out[s]
                    /\ h.flow.data.used = Total(Reached(h.flow))
  BY <1>5, UseAfter
<1>. HIDE DEF h
<1>7. Grows(flow, flow')
  <2>1. FlowOK(flow) /\ FlowOK(h.flow) /\ FlowOK(flow')
    BY <1>3, <1>4 DEF ApplicationInv, ClientOK
  <2>2. \A g : FlowOK(g) => /\ g.data.value \in Nat /\ g.count.value \in Nat
                            /\ \A s \in Remote : g.in[s].limit \in Nat
    BY DEF FlowOK, Limits, Incoming
  <2>3. QED
    BY <1>3, <1>4, <2>1, <2>2 DEF Grows
<1>8. NetOK' /\ ServerOK'
  <2>1. ids.next <= ids'.next
    BY <1>3, <1>4
  <2>2. QED
    BY <1>2, <1>4, <1>7, <2>1, OthersKeep DEF ApplicationInv
<1>9. Counted'
  <2>1. Reached(flow') = Reached(h.flow) /\ flow'.data.used = h.flow.data.used
    BY <1>4 DEF SameUse, Reached
  <2>2. QED
    BY <1>2, <1>5, <1>6, <2>1 DEF Counted
<1>10. QED
  BY <1>2, <1>4, <1>8, <1>9 DEF ApplicationInv

----------------------------------------------------------------------------
(***************************************************************************)
(* The server.                                                             *)
(***************************************************************************)
\* What was said before and what is said now, none of it above b.
LEMMA LearnedLimit ==
  ASSUME NEW b \in Nat, NEW v \in 0..b, NEW S \in SUBSET (0..b)
  PROVE  /\ Max({v} \cup S) \in 0..b
         /\ v <= Max({v} \cup S)
<1>1. {v} \cup S \in SUBSET (0..b) /\ {v} \cup S # {}
  OBVIOUS
<1>2. Max({v} \cup S) \in {v} \cup S /\ \A y \in {v} \cup S : y <= Max({v} \cup S)
  BY <1>1, MaxIsLargest
<1>3. QED
  BY <1>1, <1>2

LEMMA ArriveKeeps ==
  ASSUME ApplicationInv, NEW n \in DOMAIN sent, Arrive(n)
  PROVE  ApplicationInv'
<1>. DEFINE frames == sent[n].frames
<1>1. /\ sent' = [sent EXCEPT ![n].arrived = TRUE] /\ server' = Learned(server, frames)
      /\ ids' = ids /\ flow' = flow /\ net' = net /\ complete' = complete
      /\ refused' = refused /\ repeated' = repeated
  BY DEF Arrive, clientVars, historyVars
<1>2. /\ ClientOK(ids, flow, sent) /\ IdsOK(ids) /\ FlowOK(flow) /\ PacketsOK(sent)
      /\ FramesOK(sent, ids, flow) /\ IdsInv(ids, sent) /\ LimitsInv(flow, sent)
      /\ ids.next \in Nat /\ complete \in BOOLEAN /\ NetOK /\ ServerOK /\ Counted
  BY DEF ApplicationInv, ClientOK, IdsOK, IdRecords
<1>3. /\ PacketsOK(sent') /\ EverSent(sent') = EverSent(sent)
      /\ \A fr : Carries(sent, fr) => Carries(sent', fr)
  BY <1>1, <1>2, PacketArrives
<1>4. ClientOK(ids, flow, sent')
  <2>1. FramesOK(sent', ids, flow)
    BY <1>2, <1>3 DEF FramesOK
  <2>2. IdsInv(ids, sent') /\ LimitsInv(flow, sent')
    BY <1>2, <1>3, IdsCarried, LimitsCarried
  <2>3. QED
    BY <1>2, <1>3, <2>1, <2>2 DEF ClientOK
<1>5. frames \subseteq EverSent(sent)
  BY DEF EverSent
<1>. HIDE DEF frames
<1>6. /\ Values(frames, "maxData") \subseteq 0..flow.data.value
      /\ Values(frames, "maxStreams") \subseteq 0..flow.count.value
      /\ \A s \in Remote : StreamValues(frames, s) \subseteq 0..flow.in[s].limit
      /\ \A h \in Values(frames, "newId") : h \in Nat /\ h < ids.next
  BY <1>2, <1>5 DEF FramesOK, Values, StreamValues
<1>7. /\ flow.data.value \in Nat /\ flow.count.value \in Nat
      /\ \A s \in Remote : flow.in[s].limit \in Nat
      /\ server.max \in 0..flow.data.value /\ server.count \in 0..flow.count.value
      /\ \A s \in Remote : server.limit[s] \in 0..flow.in[s].limit
  BY <1>2 DEF FlowOK, Limits, Incoming, ServerOK
<1>. DEFINE max == Max({server.max} \cup Values(frames, "maxData"))
            count == Max({server.count} \cup Values(frames, "maxStreams"))
            limit == [s \in Remote |-> Max({server.limit[s]} \cup StreamValues(frames, s))]
            hosts == server.hosts \cup Values(frames, "newId")
<1>8. /\ DOMAIN server' = DOMAIN server
      /\ server'.max = max /\ server'.count = count /\ server'.limit = limit
      /\ server'.hosts = hosts /\ server'.out = server.out /\ server'.next = server.next
      /\ server'.prior = server.prior
  <2>1. DOMAIN server = {"max", "count", "limit", "out", "reset", "grant", "grantCount",
                         "grantLimit", "next", "prior", "dropped", "hosts", "retired"}
    BY <1>2 DEF ServerOK
  <2>. HIDE DEF max, count, limit, hosts
  <2>2. server' = [server EXCEPT !.max = max, !.count = count, !.limit = limit, !.hosts = hosts,
                                 !.dropped = @ \cup Values(frames, "retire")]
    BY <1>1 DEF Learned, max, count, limit, hosts
  <2>3. QED
    BY <2>1, <2>2
<1>9. max \in 0..flow.data.value /\ server.max <= max
  BY <1>6, <1>7, LearnedLimit
<1>10. count \in 0..flow.count.value /\ server.count <= count
  BY <1>6, <1>7, LearnedLimit
<1>11. /\ limit \in [Remote -> Nat]
       /\ \A s \in Remote : limit[s] \in 0..flow.in[s].limit /\ server.limit[s] <= limit[s]
  <2>1. ASSUME NEW s \in Remote
        PROVE  /\ Max({server.limit[s]} \cup StreamValues(frames, s)) \in 0..flow.in[s].limit
               /\ server.limit[s] <= Max({server.limit[s]} \cup StreamValues(frames, s))
    BY <1>6, <1>7, LearnedLimit
  <2>2. \A s \in Remote : limit[s] \in 0..flow.in[s].limit /\ server.limit[s] <= limit[s]
    BY <2>1
  <2>3. QED
    BY <2>1, <2>2, <1>7
<1>12. hosts \subseteq Nat /\ \A h \in hosts : h < ids.next
  BY <1>2, <1>6 DEF ServerOK
<1>. HIDE DEF max, count, limit, hosts
<1>13. ServerOK'
  <2>1. /\ DOMAIN server = {"max", "count", "limit", "out", "reset", "grant", "grantCount",
                            "grantLimit", "next", "prior", "dropped", "hosts", "retired"}
        /\ server.next \in Nat /\ server.prior \in Nat /\ server.prior <= server.next
        /\ server.out \in [Remote -> Nat] /\ Total(server.out) <= server.max
    BY <1>2 DEF ServerOK
  <2>2. ASSUME NEW s \in Remote
        PROVE  /\ limit[s] <= flow.in[s].limit /\ server.out[s] <= limit[s]
               /\ server.out[s] > 0 => s < count
    <3>1. /\ limit[s] \in 0..flow.in[s].limit /\ server.limit[s] <= limit[s] /\ flow.in[s].limit \in Nat
          /\ server.limit[s] \in Nat /\ server.out[s] \in Nat
          /\ server.out[s] <= server.limit[s]
          /\ server.out[s] > 0 => s < server.count
      BY <1>2, <1>7, <1>11 DEF ServerOK
    <3>. s \in Nat
      BY FlowAssumption, FS_CardinalityType
    <3>2. limit[s] \in Nat /\ limit[s] <= flow.in[s].limit
      BY <3>1
    <3>3. server.out[s] <= limit[s]
      BY <3>1, <3>2
    <3>4. server.out[s] > 0 => s < count
      BY <1>7, <1>10, <3>1
    <3>5. QED
      BY <3>2, <3>3, <3>4
  <2>3. Total(server.out) <= max
    <3>1. Total(server.out) \in Nat /\ server.max \in Nat /\ max \in Nat
      BY <1>7, <1>9, <2>1, TotalFacts
    <3>2. QED
      BY <1>9, <2>1, <3>1
  <2>4. QED
    BY <1>1, <1>8, <1>9, <1>10, <1>11, <1>12, <2>1, <2>2, <2>3 DEF ServerOK
<1>14. NetOK'
  BY <1>1, <1>2, <1>8 DEF NetOK
<1>15. Counted'
  BY <1>1, <1>2, <1>8 DEF Counted
<1>16. QED
  BY <1>1, <1>2, <1>4, <1>13, <1>14, <1>15 DEF ApplicationInv

\* A packet of the server: what it says is allowed, and the server stays as it
\* should be with as many bytes sent or more.
Allowed(fr, to, v) ==
  /\ fr.kind \in Kinds
  /\ fr.kind = "newId" => fr.value \in Nat /\ fr.prior \in Nat /\ fr.prior <= fr.value
  /\ fr.kind = "retire" => fr.value \in Nat /\ fr.value < ids.next /\ fr.value # to
  /\ fr.kind \in {"data", "reset"} => fr.stream \in Remote /\ fr.value \in 1..v.out[fr.stream]

LEMMA SendsKeep ==
  ASSUME ApplicationInv, NEW fr, NEW v, ServerSends(fr, v),
         \A to \in server.hosts \ v.retired : Allowed(fr, to, v),
         ServerOK', v.out \in [Remote -> Nat],
         \A s \in Remote : server.out[s] <= v.out[s]
  PROVE  ApplicationInv'
<1>1. /\ server' = v /\ ids' = ids /\ flow' = flow /\ complete' = complete /\ sent' = sent
      /\ refused' = refused /\ repeated' = repeated
  BY DEF ServerSends, clientVars, historyVars
<1>2. PICK to \in (server.hosts \cap UsedIds) \ v.retired :
        net' = net \cup {[number |-> Cardinality(net) + 1, to |-> to, frame |-> fr]}
  BY DEF ServerSends
<1>3. server.out \in [Remote -> Nat] /\ NetOK /\ ClientOK(ids, flow, sent) /\ FlowOK(flow) /\ Counted
  BY DEF ApplicationInv, ServerOK, ClientOK
<1>4. Counted'
  BY <1>1, <1>3, CountedKept, FlowReflexive
<1>5. ASSUME NEW p \in net'
      PROVE  Allowed(p.frame, p.to, v)
  <2>1. CASE p \in net
    <3>1. /\ p.frame.kind \in {"data", "reset"} =>
               /\ p.frame.stream \in Remote /\ p.frame.value \in 1..server.out[p.frame.stream]
      BY <1>3, <2>1 DEF NetOK
    <3>2. p.frame.kind \in {"data", "reset"} =>
            p.frame.stream \in Remote /\ p.frame.value \in 1..v.out[p.frame.stream]
      <4>1. SUFFICES ASSUME p.frame.kind \in {"data", "reset"}
                     PROVE  p.frame.stream \in Remote /\ p.frame.value \in 1..v.out[p.frame.stream]
        OBVIOUS
      <4>2. /\ p.frame.stream \in Remote /\ p.frame.value \in 1..server.out[p.frame.stream]
            /\ server.out[p.frame.stream] \in Nat /\ v.out[p.frame.stream] \in Nat
            /\ server.out[p.frame.stream] <= v.out[p.frame.stream]
        BY <1>3, <3>1, <4>1
      <4>3. QED
        BY <4>2
    <3>3. QED
      BY <1>3, <2>1, <3>2 DEF NetOK, Allowed, Kinds
  <2>2. CASE p \notin net
    BY <1>2, <1>5, <2>2
  <2>3. QED
    BY <2>1, <2>2
<1>6. NetOK'
  BY <1>1, <1>5 DEF NetOK, Allowed, Kinds
<1>7. QED
  BY <1>1, <1>4, <1>6 DEF ApplicationInv

\* Most packets leave alone what ServerOK speaks of.
LEMMA PlainSendsKeep ==
  ASSUME ApplicationInv, NEW fr, NEW v, ServerSends(fr, v),
         \A to \in server.hosts \ v.retired : Allowed(fr, to, v),
         DOMAIN v = DOMAIN server, v.max = server.max, v.count = server.count,
         v.limit = server.limit, v.out = server.out, v.hosts = server.hosts,
         v.next \in Nat, v.prior \in Nat, v.prior <= v.next
  PROVE  ApplicationInv'
<1>1. server' = v /\ ids' = ids /\ flow' = flow
  BY DEF ServerSends, clientVars
<1>2. ServerOK /\ server.out \in [Remote -> Nat]
  BY DEF ApplicationInv, ServerOK
<1>3. ServerOK'
  BY <1>1, <1>2 DEF ServerOK
<1>4. v.out \in [Remote -> Nat] /\ \A s \in Remote : server.out[s] <= v.out[s]
  BY <1>2
<1>5. QED
  BY <1>3, <1>4, SendsKeep

LEMMA ServerSendsKeep ==
  ASSUME ApplicationInv,
         ServerNewId \/ ServerRetire \/ ServerGrants \/ ServerData \/ ServerReset \/ ServerAck
  PROVE  ApplicationInv'
<1>1. /\ DOMAIN server = {"max", "count", "limit", "out", "reset", "grant", "grantCount",
                          "grantLimit", "next", "prior", "dropped", "hosts", "retired"}
      /\ server.next \in Nat /\ server.prior \in Nat /\ server.prior <= server.next
      /\ server.hosts \subseteq Nat /\ \A h \in server.hosts : h < ids.next
      /\ server.out \in [Remote -> Nat] /\ server.limit \in [Remote -> Nat]
  BY DEF ApplicationInv, ServerOK
<1>2. CASE ServerNewId
  <2>1. PICK prior \in {server.prior, server.next} :
          ServerSends([kind |-> "newId", value |-> server.next, prior |-> prior],
                      [server EXCEPT !.next = @ + 1, !.prior = prior])
    BY <1>2 DEF ServerNewId
  <2>. DEFINE fr == [kind |-> "newId", value |-> server.next, prior |-> prior]
              v == [server EXCEPT !.next = @ + 1, !.prior = prior]
  <2>2. \A to : Allowed(fr, to, v)
    BY <1>1 DEF Allowed, Kinds
  <2>3. v.next = server.next + 1 /\ v.prior = prior
    BY <1>1
  <2>4. /\ DOMAIN v = DOMAIN server /\ v.max = server.max /\ v.count = server.count
        /\ v.limit = server.limit /\ v.out = server.out /\ v.hosts = server.hosts
    BY <1>1
  <2>5. v.next \in Nat /\ v.prior \in Nat /\ v.prior <= v.next
    BY <1>1, <2>3
  <2>6. ServerSends(fr, v)
    BY <2>1
  <2>. HIDE DEF fr, v
  <2>7. QED
    BY <2>2, <2>4, <2>5, <2>6, PlainSendsKeep
<1>3. CASE ServerRetire
  <2>1. PICK h \in (server.hosts \cap UsedIds) \ server.retired :
          ServerSends([kind |-> "retire", value |-> h], [server EXCEPT !.retired = @ \cup {h}])
    BY <1>3 DEF ServerRetire
  <2>. DEFINE fr == [kind |-> "retire", value |-> h]
              v == [server EXCEPT !.retired = @ \cup {h}]
  <2>2. h \in v.retired
    BY <1>1
  <2>3. \A to \in server.hosts \ v.retired : Allowed(fr, to, v)
    BY <1>1, <2>2 DEF Allowed, Kinds
  <2>4. /\ DOMAIN v = DOMAIN server /\ v.max = server.max /\ v.count = server.count
        /\ v.limit = server.limit /\ v.out = server.out /\ v.hosts = server.hosts
        /\ v.next \in Nat /\ v.prior \in Nat /\ v.prior <= v.next
    BY <1>1
  <2>5. ServerSends(fr, v)
    BY <2>1
  <2>. HIDE DEF fr, v
  <2>6. QED
    BY <2>3, <2>4, <2>5, PlainSendsKeep
<1>4. ASSUME NEW fr, NEW v, ServerSends(fr, v),
             fr.kind \in {"maxData", "maxStreams", "maxStreamData", "ack"},
             /\ DOMAIN v = DOMAIN server /\ v.max = server.max /\ v.count = server.count
             /\ v.limit = server.limit /\ v.out = server.out /\ v.hosts = server.hosts
             /\ v.next = server.next /\ v.prior = server.prior
      PROVE  ApplicationInv'
  <2>1. \A to : Allowed(fr, to, v)
    BY <1>4 DEF Allowed, Kinds
  <2>2. QED
    BY <1>1, <1>4, <2>1, PlainSendsKeep
<1>5. CASE ServerGrants
  <2>1. CASE ServerSends([kind |-> "maxData", value |-> server.grant + 1],
                         [server EXCEPT !.grant = @ + 1])
    BY <1>1, <1>4, <2>1
  <2>2. CASE ServerSends([kind |-> "maxStreams", value |-> server.grantCount + 1],
                         [server EXCEPT !.grantCount = @ + 1])
    BY <1>1, <1>4, <2>2
  <2>3. CASE \E s \in Local :
               ServerSends([kind |-> "maxStreamData", stream |-> s,
                            value |-> server.grantLimit[s] + 1],
                           [server EXCEPT !.grantLimit[s] = @ + 1])
    BY <1>1, <1>4, <2>3
  <2>4. QED
    BY <1>5, <2>1, <2>2, <2>3 DEF ServerGrants
<1>6. CASE ServerData
  <2>1. PICK s \in Remote \ server.reset :
          /\ s < server.count /\ server.out[s] < server.limit[s] /\ SentTotal < server.max
          /\ ServerSends([kind |-> "data", stream |-> s, value |-> server.out[s] + 1],
                         [server EXCEPT !.out[s] = @ + 1])
    BY <1>6 DEF ServerData
  <2>. DEFINE fr == [kind |-> "data", stream |-> s, value |-> server.out[s] + 1]
              out == [server.out EXCEPT ![s] = @ + 1]
              v == [server EXCEPT !.out[s] = @ + 1]
  <2>2. server.out[s] \in Nat /\ out \in [Remote -> Nat] /\ out[s] = server.out[s] + 1
        /\ \A r \in Remote : server.out[r] <= out[r]
    BY <1>1
  <2>3. /\ DOMAIN v = DOMAIN server /\ v.max = server.max /\ v.count = server.count
        /\ v.limit = server.limit /\ v.out = out /\ v.hosts = server.hosts
        /\ v.next = server.next /\ v.prior = server.prior
    BY <1>1
  <2>4. Total(out) <= server.max
    <3>1. Total(out) = Total(server.out) + 1 /\ Total(server.out) \in Nat
      <4>1. \A d \in Nat : Total([server.out EXCEPT ![s] = @ + d]) = Total(server.out) + d
        BY <1>1, TotalFacts
      <4>2. QED
        BY <1>1, <4>1, TotalFacts
    <3>2. server.max \in Nat
      BY DEF ApplicationInv, ClientOK, FlowOK, Limits, ServerOK
    <3>3. QED
      BY <2>1, <3>1, <3>2 DEF SentTotal
  <2>5. ServerSends(fr, v)
    BY <2>1
  <2>6. server' = v /\ ids' = ids /\ flow' = flow
    BY <2>5 DEF ServerSends, clientVars
  <2>7. ASSUME NEW r \in Remote
        PROVE  out[r] <= server.limit[r] /\ (out[r] > 0 => r < server.count)
    <3>1. server.out[r] <= server.limit[r] /\ (server.out[r] > 0 => r < server.count)
      BY DEF ApplicationInv, ServerOK
    <3>2. CASE r = s
      BY <1>1, <2>1, <2>2, <3>2
    <3>3. CASE r # s
      BY <1>1, <3>1, <3>3
    <3>4. QED
      BY <3>2, <3>3
  <2>8. \A to : Allowed(fr, to, v)
    BY <2>2, <2>3 DEF Allowed, Kinds
  <2>. HIDE DEF fr, v, out
  <2>9. ServerOK'
    <3>1. ServerOK
      BY DEF ApplicationInv
    <3>2. QED
      BY <2>2, <2>3, <2>4, <2>6, <2>7, <3>1 DEF ServerOK
  <2>10. QED
    BY <2>2, <2>3, <2>5, <2>8, <2>9, SendsKeep
<1>7. CASE ServerReset
  <2>1. PICK s \in Remote \ server.reset :
          /\ server.out[s] > 0
          /\ ServerSends([kind |-> "reset", stream |-> s, value |-> server.out[s]],
                         [server EXCEPT !.reset = @ \cup {s}])
    BY <1>7 DEF ServerReset
  <2>. DEFINE fr == [kind |-> "reset", stream |-> s, value |-> server.out[s]]
              v == [server EXCEPT !.reset = @ \cup {s}]
  <2>2. /\ DOMAIN v = DOMAIN server /\ v.max = server.max /\ v.count = server.count
        /\ v.limit = server.limit /\ v.out = server.out /\ v.hosts = server.hosts
        /\ v.next = server.next /\ v.prior = server.prior
    BY <1>1
  <2>3. server.out[s] \in 1..server.out[s]
    BY <1>1, <2>1
  <2>4. \A to : Allowed(fr, to, v)
    BY <2>2, <2>3 DEF Allowed, Kinds
  <2>5. ServerSends(fr, v)
    BY <2>1
  <2>. HIDE DEF fr, v
  <2>6. QED
    BY <1>1, <2>2, <2>4, <2>5, PlainSendsKeep
<1>8. CASE ServerAck
  <2>1. \E S : ServerSends([kind |-> "ack", packets |-> S], server)
    BY <1>8 DEF ServerAck
  <2>2. QED
    BY <1>4, <2>1
<1>9. QED
  BY <1>2, <1>3, <1>5, <1>6, <1>7, <1>8

----------------------------------------------------------------------------
(***************************************************************************)
(* The theorems.                                                           *)
(***************************************************************************)
\* Whatever the packets lost and repeated, the records of the IDs, the limits,
\* the packets and the server fit together (_write_application, the frame and
\* the delivery handlers of connection.py).
THEOREM ApplicationInvHolds == Spec => []ApplicationInv
<1>1. Init => ApplicationInv
  BY InitOK
<1>2. ApplicationInv /\ [Next]_vars => ApplicationInv'
  <2>1. SUFFICES ASSUME ApplicationInv, [Next]_vars
                 PROVE  ApplicationInv'
    OBVIOUS
  <2>2. CASE \/ Finish \/ SendIds \/ \E s \in Local : WriteData(s)
    BY <2>1, <2>2, LettersKeep
  <2>3. CASE ChangeDestination
    BY <2>1, <2>3, ChangeKeeps
  <2>4. CASE \E p \in net : Receive(p)
    BY <2>1, <2>4, ReceiveKeeps
  <2>5. CASE \E n \in DOMAIN sent : Arrive(n)
    BY <2>1, <2>5, ArriveKeeps
  <2>6. CASE ServerNewId \/ ServerRetire \/ ServerGrants \/ ServerData \/ ServerReset \/ ServerAck
    BY <2>1, <2>6, ServerSendsKeep
  <2>7. CASE UNCHANGED vars
    BY <2>1, <2>7 DEF vars, clientVars, historyVars, ApplicationInv, ClientOK, NetOK,
                      ServerOK, Counted
  <2>8. QED
    BY <2>1, <2>2, <2>3, <2>4, <2>5, <2>6, <2>7 DEF Next
<1>3. QED
  BY <1>1, <1>2, PTL DEF Spec

LEMMA OnItsWayIsCarried == \A fr : OnItsWay(fr) <=> Carries(sent, fr)
BY DEF OnItsWay, Carries

\* Every ID the server ever gave is used, kept, or its retirement is under way;
\* every ID of the client is announced, or its announcement is due
\* (_handle_new_connection_id_frame and _on_retire_connection_id_delivery).
THEOREM IdsNotForgottenHolds == Spec => []IdsNotForgotten
<1>1. ApplicationInv => IdsNotForgotten
  BY OnItsWayIsCarried DEF ApplicationInv, ClientOK, IdsInv, Announced, Remembered,
     IdsNotForgotten, NewIdFrame, RetireFrame
<1>2. QED
  BY <1>1, ApplicationInvHolds, PTL

\* The ID the client sends to is never one it announced to retire
\* (_consume_peer_cid, _handle_new_connection_id_frame).
THEOREM NoRetiredIdInUseHolds == Spec => []NoRetiredIdInUse
<1>1. ApplicationInv => NoRetiredIdInUse
  <2>1. SUFFICES ASSUME ApplicationInv, ~ids.orig
                 PROVE  /\ ids.dst \notin ids.retire
                        /\ ~OnItsWay([kind |-> "retire", value |-> ids.dst])
    BY DEF NoRetiredIdInUse
  <2>2. ids.dst \in Nat /\ \A n \in Retiring(ids, sent) : n < ids.dst
    BY <2>1 DEF ApplicationInv, ClientOK, IdsInv, IdsOK, IdRecords
  <2>3. ids.dst \notin Retiring(ids, sent)
    BY <2>2
  <2>4. ASSUME OnItsWay([kind |-> "retire", value |-> ids.dst])
        PROVE  FALSE
    <3>1. [kind |-> "retire", value |-> ids.dst] \in EverSent(sent)
      BY <2>4 DEF OnItsWay, EverSent
    <3>2. ids.dst \in Values(EverSent(sent), "retire")
      BY <3>1 DEF Values
    <3>3. QED
      BY <2>3, <3>2 DEF Retiring
  <2>5. QED
    BY <2>3, <2>4 DEF Retiring
<1>2. QED
  BY <1>1, ApplicationInvHolds, PTL

\* A limit the client takes for told is the first one, on its way or known to the
\* server (_write_connection_limits, _write_stream_limits and their delivery
\* handlers).
THEOREM LimitsNotForgottenHolds == Spec => []LimitsNotForgotten
<1>1. ApplicationInv => LimitsNotForgotten
  BY OnItsWayIsCarried DEF ApplicationInv, ClientOK, LimitsInv, Covered,
     LimitsNotForgotten, DataFrame, StreamsFrame, StreamDataFrame
<1>2. QED
  BY <1>1, ApplicationInvHolds, PTL

\* A server that keeps to the limits and the IDs it was told has no frame refused
\* by _handle_stream_frame, _handle_reset_stream_frame or
\* _handle_retire_connection_id_frame, unless one came for a stream already reset.
THEOREM NothingLegalRefusedHolds == Spec => []NothingLegalRefused
<1>1. ApplicationInv => NothingLegalRefused
  BY DEF ApplicationInv, Counted, NothingLegalRefused
<1>2. QED
  BY <1>1, ApplicationInvHolds, PTL
====
