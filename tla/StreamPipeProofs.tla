---- MODULE StreamPipeProofs ----
(***************************************************************************)
(* The sender keeps account of every byte, whatever is reported lost or    *)
(* acknowledged and in whatever order, for streams of any length:          *)
(* SenderInv is inductive.                                                 *)
(*                                                                         *)
(* Two endpoints over a network that loses, repeats and reorders are a     *)
(* pipe of bytes: StreamPipe implements BytePipe.  And a sender that is    *)
(* done has left nothing out at the receiver.  The inductive invariant     *)
(* adds to the sender's own what its frames have in common (FramesOK) and  *)
(* what the receiver has made of them.                                     *)
(***************************************************************************)
EXTENDS StreamPipe, SequenceTheorems, WellFoundedInduction, TLAPS

\* First names the least element of a set of offsets that is not empty.
LEMMA FirstIsLeast ==
  ASSUME NEW S \in SUBSET Nat, S # {}
  PROVE  First(S) \in S /\ \A y \in S : First(S) <= y
<1>1. \E x \in S : \A y \in S : x <= y
  <2>1. PICK x \in S : \A y \in S : ~ (<<y, x>> \in OpToRel(<, Nat))
    BY NatLessThanWellFounded, WFMin
  <2>2. ASSUME NEW y \in S PROVE x <= y
    <3>1. y \in Nat /\ x \in Nat /\ <<y, x>> \in Nat \X Nat
      OBVIOUS
    <3>2. ~ (y < x)
      BY <2>1, <3>1 DEF OpToRel
    <3>3. QED
      BY <3>1, <3>2
  <2>3. QED
    BY <2>2
<1>2. QED
  BY <1>1 DEF First

\* The first run of a bounded set that holds its first offset is a run of the
\* set, and ends before an offset that is not in the set.
LEMMA RunStopIsEnd ==
  ASSUME NEW start \in Nat, NEW bound \in Nat,
         NEW S \in SUBSET Offsets(start, bound), start \in S
  PROVE  /\ RunStop(S, start, bound) \in (start + 1)..bound
         /\ Offsets(start, RunStop(S, start, bound)) \subseteq S
         /\ RunStop(S, start, bound) \notin S
<1>. DEFINE T == {k \in (start + 1)..bound : k \notin S}
            k == First(T)
<1>1. start + 1 <= bound /\ bound \notin S
  BY DEF Offsets
<1>2. T \in SUBSET Nat /\ T # {}
  BY <1>1
<1>3. k \in T /\ \A y \in T : k <= y
  BY <1>2, FirstIsLeast
<1>4. Offsets(start, k) \subseteq S
  <2>1. SUFFICES ASSUME NEW y \in Offsets(start, k) PROVE y \in S
    OBVIOUS
  <2>2. y \in start..bound /\ y < k
    BY <2>1, <1>3 DEF Offsets
  <2>3. y \notin T
    BY <1>3, <2>2
  <2>4. QED
    BY <2>2, <2>3, <1>1
<1>5. k \in (start + 1)..bound /\ k \notin S
  BY <1>3
<1>6. QED
  <2>. HIDE DEF T, k
  <2>. QED BY <1>4, <1>5 DEF RunStop
----
(* How the accounts move when a frame leaves or its fate is reported. *)

\* Appending a frame leaves the frames before it as they were.
LEMMA SendKeeps ==
  ASSUME sent \in Seq(Frames), inFlight \subseteq 1..Len(sent),
         NEW f \in Frames, Send(f)
  PROVE  /\ sent' \in Seq(Frames)
         /\ Len(sent') = Len(sent) + 1
         /\ \A i \in 1..Len(sent) : sent'[i] = sent[i]
         /\ sent'[Len(sent) + 1] = f
         /\ inFlight' = inFlight \cup {Len(sent) + 1}
         /\ Len(sent) + 1 \notin inFlight
BY AppendProperties DEF Send

\* A frame that carries no data does not disturb the accounts.
LEMMA EmptyFrameKeeps ==
  ASSUME SenderTypeOK, SenderAccounts, NEW f \in Frames, Send(f), f.start = f.stop,
         UNCHANGED <<bufferStart, bufferStop, pending, acked>>
  PROVE  SenderAccounts'
<1>0. PICK n : n = Len(sent) + 1
  OBVIOUS
<1>1. \A i \in inFlight : FrameOffsets(i)' = FrameOffsets(i)
  BY SendKeeps DEF FrameOffsets, SenderTypeOK
<1>2. FrameOffsets(n)' = {}
  <2>1. sent'[n] = f /\ f.start \in Nat
    BY <1>0, SendKeeps DEF SenderTypeOK, Frames
  <2>2. Offsets(f.start, f.start) = {}
    BY <2>1 DEF Offsets
  <2>3. FrameOffsets(n)' \subseteq Offsets(f.start, f.stop)
    BY Zenon, <2>1 DEF FrameOffsets
  <2>4. QED
    BY <2>2, <2>3
<1>3. inFlight' = inFlight \cup {n} /\ n \notin inFlight
  BY <1>0, SendKeeps DEF SenderTypeOK
<1>4. FlightOffsets' = FlightOffsets
  BY <1>1, <1>2, <1>3 DEF FlightOffsets
<1>5. \A i \in inFlight' : i \in inFlight \/ FrameOffsets(i)' = {}
  BY <1>2, <1>3
<1>6. \A i, j \in inFlight' : i # j => FrameOffsets(i)' \cap FrameOffsets(j)' = {}
  BY <1>1, <1>5 DEF SenderAccounts
<1>7. \A i \in inFlight' : FrameOffsets(i)' \cap (pending' \cup acked') = {}
  BY <1>1, <1>5 DEF SenderAccounts
<1>8. pending' \cup acked' \cup FlightOffsets' = Offsets(bufferStart', bufferStop')
       /\ pending' \cap acked' = {}
  BY <1>4 DEF SenderAccounts
<1>9. QED
  BY <1>6, <1>7, <1>8 DEF SenderAccounts

\* A report takes one frame's offsets out of flight, and no other's.
LEMMA ReportTakesOne ==
  ASSUME SenderAccounts, NEW i \in inFlight, inFlight' = inFlight \ {i}, sent' = sent
  PROVE  /\ \A j \in inFlight' : FrameOffsets(j)' = FrameOffsets(j)
         /\ \A j \in inFlight' : FrameOffsets(j)' \cap FrameOffsets(i) = {}
         /\ \A j, k \in inFlight' : j # k => FrameOffsets(j)' \cap FrameOffsets(k)' = {}
         /\ FlightOffsets' \cup FrameOffsets(i) = FlightOffsets
         /\ FlightOffsets' \cap FrameOffsets(i) = {}
<1>1. \A j \in inFlight' : j \in inFlight /\ j # i
  OBVIOUS
<1>2. \A j : FrameOffsets(j)' = FrameOffsets(j)
  BY DEF FrameOffsets
<1>3. \A j \in inFlight' : FrameOffsets(j) \cap FrameOffsets(i) = {}
  BY <1>1 DEF SenderAccounts
<1>4. FlightOffsets' = UNION {FrameOffsets(j) : j \in inFlight \ {i}}
  BY <1>2 DEF FlightOffsets
<1>5. FlightOffsets' \cup FrameOffsets(i) = FlightOffsets
  BY <1>4 DEF FlightOffsets
<1>6. FlightOffsets' \cap FrameOffsets(i) = {}
  BY <1>1, <1>3, <1>4
<1>7. \A j, k \in inFlight' : j # k => FrameOffsets(j)' \cap FrameOffsets(k)' = {}
  BY <1>1, <1>2 DEF SenderAccounts
<1>8. QED
  BY <1>2, <1>3, <1>5, <1>6, <1>7

\* A frame without offsets leaves the flight and the accounts stay.
LEMMA EmptyReportKeeps ==
  ASSUME SenderAccounts, NEW i \in inFlight, inFlight' = inFlight \ {i}, sent' = sent,
         FrameOffsets(i) = {},
         UNCHANGED <<bufferStart, bufferStop, pending, acked>>
  PROVE  SenderAccounts'
<1>1. \A j \in inFlight' : j \in inFlight
  OBVIOUS
<1>2. QED
  BY <1>1, ReportTakesOne DEF SenderAccounts

\* Lost offsets go back to be sent.
LEMMA LostIsPending ==
  ASSUME SenderAccounts, NEW i \in inFlight, inFlight' = inFlight \ {i}, sent' = sent,
         pending' = pending \cup FrameOffsets(i),
         UNCHANGED <<bufferStart, bufferStop, acked>>
  PROVE  SenderAccounts'
<1>1. \A j \in inFlight' : j \in inFlight
  OBVIOUS
<1>2. \A j \in inFlight' : FrameOffsets(j)' \cap (pending' \cup acked') = {}
  BY <1>1, ReportTakesOne DEF SenderAccounts
<1>3. pending' \cap acked' = {}
  BY DEF SenderAccounts
<1>4. pending' \cup acked' \cup FlightOffsets' = Offsets(bufferStart', bufferStop')
  BY ReportTakesOne DEF SenderAccounts
<1>5. QED
  BY <1>2, <1>3, <1>4, ReportTakesOne DEF SenderAccounts

\* Acknowledged offsets leave with the front of the buffer, or wait for it.
LEMMA AckedIsDropped ==
  ASSUME SenderAccounts, NEW i \in inFlight, inFlight' = inFlight \ {i}, sent' = sent,
         UNCHANGED <<bufferStop, pending>>,
         bufferStart \in Nat, bufferStop \in Nat,
         bufferStart' \in bufferStart..bufferStop,
         Offsets(bufferStart, bufferStart') \subseteq acked \cup FrameOffsets(i),
         acked' = (acked \cup FrameOffsets(i)) \ Offsets(bufferStart, bufferStart')
  PROVE  SenderAccounts'
<1>1. \A j \in inFlight' : j \in inFlight
  OBVIOUS
<1>2. \A j \in inFlight' : FrameOffsets(j)' \cap (pending' \cup acked') = {}
  BY <1>1, ReportTakesOne DEF SenderAccounts
<1>3. pending' \cap acked' = {}
  BY DEF SenderAccounts
<1>4. Offsets(bufferStart', bufferStop')
        = Offsets(bufferStart, bufferStop) \ Offsets(bufferStart, bufferStart')
  BY DEF Offsets
<1>5. /\ pending \cup acked \cup FlightOffsets = Offsets(bufferStart, bufferStop)
      /\ FlightOffsets' \cup FrameOffsets(i) = FlightOffsets
      /\ FlightOffsets' \cap (acked \cup FrameOffsets(i)) = {}
      /\ pending \cap (acked \cup FrameOffsets(i)) = {}
  <2>1. FlightOffsets' \cap acked = {}
    BY <1>1, ReportTakesOne DEF SenderAccounts, FlightOffsets
  <2>2. QED
    BY <2>1, ReportTakesOne DEF SenderAccounts
<1>6. pending' \cup acked' \cup FlightOffsets' = Offsets(bufferStart', bufferStop')
  BY <1>4, <1>5
<1>7. QED
  BY <1>2, <1>3, <1>6, ReportTakesOne DEF SenderAccounts

\* A data frame takes its offsets out of those to be sent.
LEMMA DataFrameTakes ==
  ASSUME SenderTypeOK, SenderAccounts, NEW f \in Frames, Send(f), f.kind = "data",
         Offsets(f.start, f.stop) \subseteq pending,
         pending' = pending \ Offsets(f.start, f.stop),
         UNCHANGED <<bufferStart, bufferStop, acked>>
  PROVE  SenderAccounts'
<1>0. PICK n : n = Len(sent) + 1
  OBVIOUS
<1>1. \A i \in inFlight : FrameOffsets(i)' = FrameOffsets(i)
  BY SendKeeps DEF FrameOffsets, SenderTypeOK
<1>2. FrameOffsets(n)' = Offsets(f.start, f.stop)
  BY <1>0, SendKeeps DEF FrameOffsets, SenderTypeOK
<1>3. inFlight' = inFlight \cup {n} /\ n \notin inFlight
  BY <1>0, SendKeeps DEF SenderTypeOK
<1>4. FlightOffsets' = FlightOffsets \cup Offsets(f.start, f.stop)
  BY <1>1, <1>2, <1>3 DEF FlightOffsets
<1>5. \A i \in inFlight : FrameOffsets(i) \cap pending = {}
  BY DEF SenderAccounts
<1>6. \A i, j \in inFlight' : i # j => FrameOffsets(i)' \cap FrameOffsets(j)' = {}
  BY <1>1, <1>2, <1>3, <1>5 DEF SenderAccounts
<1>7. \A i \in inFlight' : FrameOffsets(i)' \cap (pending' \cup acked') = {}
  BY <1>1, <1>2, <1>3 DEF SenderAccounts
<1>8. pending' \cup acked' \cup FlightOffsets' = Offsets(bufferStart', bufferStop')
      /\ pending' \cap acked' = {}
  BY <1>4 DEF SenderAccounts
<1>9. QED
  BY <1>6, <1>7, <1>8 DEF SenderAccounts

\* Bytes written join those to be sent.
LEMMA WrittenIsPending ==
  ASSUME SenderTypeOK, SenderAccounts, bufferStart <= bufferStop,
         NEW size \in Nat, bufferStop' = bufferStop + size,
         pending' = pending \cup Offsets(bufferStop, bufferStop + size),
         UNCHANGED <<bufferStart, acked, sent, inFlight>>
  PROVE  SenderAccounts'
<1>. DEFINE new == Offsets(bufferStop, bufferStop + size)
<1>1. Offsets(bufferStart, bufferStop') = Offsets(bufferStart, bufferStop) \cup new
  BY DEF Offsets, SenderTypeOK
<1>2. Offsets(bufferStart, bufferStop) \cap new = {}
  BY DEF Offsets, SenderTypeOK
<1>3. \A i \in inFlight : FrameOffsets(i) \subseteq FlightOffsets
  BY DEF FlightOffsets
<1>4. \A i : FrameOffsets(i)' = FrameOffsets(i)
  BY DEF FrameOffsets
<1>5. FlightOffsets' = FlightOffsets
  BY <1>4 DEF FlightOffsets
<1>6. acked \cap new = {} /\ \A i \in inFlight : FrameOffsets(i) \cap new = {}
  BY <1>2, <1>3 DEF SenderAccounts
<1>7. QED
  <2>. HIDE DEF new
  <2>. QED BY <1>1, <1>4, <1>5, <1>6 DEF SenderAccounts, new
----
(* The buffer's index arithmetic. *)

\* Cutting the buffer between two offsets it holds gives the bytes they bound.
LEMMA CutHoldsItsBytes ==
  ASSUME SenderTypeOK, BufferMatches,
         NEW a \in bufferStart..bufferStop, NEW b \in a..bufferStop
  PROVE  LET cut == SubSeq(buffer, a - bufferStart + 1, b - bufferStart) IN
         /\ cut \in Seq(Nat) /\ Len(cut) = b - a
         /\ \A k \in 1..(b - a) : cut[k] = a + k - 1
         /\ cut = [k \in 1..(b - a) |-> a + k - 1]
<1>. DEFINE m == a - bufferStart + 1
            n == b - bufferStart
            cut == SubSeq(buffer, m, n)
            bytes == [k \in 1..(b - a) |-> a + k - 1]
<1>1. m \in Int /\ n \in Int /\ \A k \in m..n : k \in 1..Len(buffer)
  BY DEF SenderTypeOK, BufferMatches
<1>2. \A k \in m..n : buffer[k] \in Nat
  BY <1>1 DEF SenderTypeOK
<1>3. /\ cut \in Seq(Nat)
      /\ Len(cut) = IF m <= n THEN n - m + 1 ELSE 0
      /\ \A k \in 1..(n - m + 1) : cut[k] = buffer[m + k - 1]
  <2>. HIDE DEF m, n
  <2>. QED BY <1>1, <1>2, SubSeqProperties
<1>4. Len(cut) = b - a
  BY <1>3 DEF SenderTypeOK
<1>5. \A k \in 1..(b - a) : cut[k] = a + k - 1
  <2>1. SUFFICES ASSUME NEW k \in 1..(b - a) PROVE cut[k] = a + k - 1
    OBVIOUS
  <2>2. k \in 1..(n - m + 1) /\ m + k - 1 \in 1..Len(buffer)
    BY DEF SenderTypeOK, BufferMatches
  <2>3. cut[k] = bufferStart + (m + k - 1) - 1
    BY <1>3, <2>2 DEF BufferMatches
  <2>4. QED
    BY <2>3 DEF SenderTypeOK
<1>6. bytes \in Seq(Nat) /\ Len(bytes) = b - a
  BY DEF SenderTypeOK
<1>7. cut = bytes
  <2>1. \A k \in 1..Len(cut) : cut[k] = bytes[k]
    BY <1>4, <1>5
  <2>. HIDE DEF cut, bytes
  <2>. QED BY <1>3, <1>4, <1>6, <2>1, SeqEqual
<1>8. QED
  BY <1>3, <1>4, <1>5, <1>7

\* The bytes of the offsets from lo up to hi, in order.
BytesBetween(b, lo, hi) ==
  /\ b \in Seq(Nat) /\ lo \in Nat /\ hi \in Nat /\ lo <= hi /\ Len(b) = hi - lo
  /\ \A k \in 1..Len(b) : b[k] = lo + k - 1

\* Bytes appended to those between two offsets are those up to a later one.
LEMMA BytesAppended ==
  ASSUME NEW b, NEW lo, NEW hi, BytesBetween(b, lo, hi),
         NEW new, NEW stop, BytesBetween(new, hi, stop)
  PROVE  BytesBetween(b \o new, lo, stop)
<1>. USE DEF BytesBetween
<1>. DEFINE c == b \o new
<1>1. Len(new) \in Nat
  OBVIOUS
<1>2. /\ c \in Seq(Nat) /\ Len(c) = Len(b) + Len(new)
      /\ \A k \in 1..Len(b) + Len(new) :
           c[k] = IF k <= Len(b) THEN b[k] ELSE new[k - Len(b)]
  BY ConcatProperties
<1>0. lo \in Nat /\ hi \in Nat /\ stop \in Nat /\ Len(b) = hi - lo /\ Len(new) = stop - hi
  OBVIOUS
<1>. HIDE DEF c
<1>3. ASSUME NEW k \in 1..(stop - lo) PROVE c[k] = lo + k - 1
  <2>0. k \in 1..Len(b) + Len(new)
    BY <1>0
  <2>1. CASE k <= Len(b)
    <3>1. k \in 1..Len(b) /\ c[k] = b[k]
      BY <1>2, <2>0, <2>1
    <3>2. QED
      BY <3>1
  <2>2. CASE k > Len(b)
    <3>1. k - Len(b) \in 1..Len(new) /\ k - Len(b) = k - (hi - lo)
      BY <1>0, <2>0, <2>2
    <3>2. c[k] = new[k - Len(b)]
      BY <1>2, <2>0, <2>2
    <3>3. QED
      BY <1>1, <3>1, <3>2
  <2>3. QED
    BY <2>1, <2>2
<1>4. Len(c) = stop - lo
  BY <1>0, <1>2
<1>5. QED
  BY <1>0, <1>2, <1>3, <1>4 DEF c
----
(* SenderInv is inductive. *)

\* A data frame written or lost or acknowledged lies within the buffer's bounds.
LEMMA FlightInBuffer ==
  ASSUME SenderInv, NEW i \in inFlight, sent[i].kind = "data"
  PROVE  /\ sent[i].start \in Nat /\ sent[i].stop \in Nat
         /\ FrameOffsets(i) = Offsets(sent[i].start, sent[i].stop)
         /\ FrameOffsets(i) \subseteq Offsets(bufferStart, bufferStop)
<1>1. sent[i] \in Frames
  BY DEF SenderInv, SenderTypeOK
<1>2. FrameOffsets(i) \subseteq FlightOffsets
  BY DEF FlightOffsets
<1>3. FlightOffsets \subseteq Offsets(bufferStart, bufferStop)
  BY DEF SenderInv, SenderAccounts
<1>4. QED
  BY <1>1, <1>2, <1>3 DEF Frames, FrameOffsets

\* What every frame sent keeps, when a frame that keeps it is appended.
LEMMA FramesKept ==
  ASSUME SenderInv, NEW f \in Frames, Send(f), f.start <= f.stop,
         f.kind = "data" => f.data = [k \in 1..(f.stop - f.start) |-> f.start + k - 1]
  PROVE  /\ (\A i \in 1..Len(sent) : sent[i].start <= sent[i].stop)'
         /\ FramesCarryTheirBytes'
         /\ sent' \in Seq(Frames)
         /\ inFlight' \subseteq 1..Len(sent') /\ confirmed \subseteq 1..Len(sent')
<1>0. PICK n : n = Len(sent) + 1
  OBVIOUS
<1>1. /\ sent' \in Seq(Frames) /\ Len(sent') = Len(sent) + 1
      /\ \A i \in 1..Len(sent) : sent'[i] = sent[i]
      /\ sent'[n] = f
      /\ inFlight' = inFlight \cup {n}
  BY <1>0, SendKeeps DEF SenderInv, SenderTypeOK
<1>2. Len(sent) \in Nat /\ 1..Len(sent') = 1..Len(sent) \cup {n}
  BY <1>0, <1>1 DEF SenderInv, SenderTypeOK
<1>3. \A i \in 1..Len(sent') : sent'[i].start <= sent'[i].stop
  BY <1>1, <1>2 DEF SenderInv
<1>4. FramesCarryTheirBytes'
  <2>1. ASSUME NEW i \in 1..Len(sent'), sent'[i].kind = "data"
        PROVE  sent'[i].data = [k \in 1..(sent'[i].stop - sent'[i].start) |->
                                  sent'[i].start + k - 1]
    <3>1. CASE i = n
      BY <1>1, <2>1, <3>1
    <3>2. CASE i \in 1..Len(sent)
      <4>1. sent'[i] = sent[i]
        BY <1>1, <3>2
      <4>2. QED
        BY <2>1, <3>2, <4>1 DEF SenderInv, FramesCarryTheirBytes
    <3>3. QED
      BY <1>2, <3>1, <3>2
  <2>2. QED
    BY <2>1 DEF FramesCarryTheirBytes
<1>5. inFlight' \subseteq 1..Len(sent') /\ confirmed \subseteq 1..Len(sent')
  BY <1>0, <1>1, <1>2 DEF SenderInv, SenderTypeOK
<1>6. QED
  BY <1>1, <1>3, <1>4, <1>5

LEMMA InitHasInv == ASSUME SenderInit PROVE SenderInv
<1>1. SenderTypeOK
  <2>1. SenderFlagsOK
    BY DEF SenderInit, SenderFlagsOK
  <2>2. QED
    BY <2>1 DEF SenderInit, SenderTypeOK
<1>2. SenderAccounts
  BY DEF SenderInit, SenderAccounts, FlightOffsets, Offsets
<1>3. QED
  BY <1>1, <1>2 DEF SenderInit, SenderInv, BufferMatches, FramesCarryTheirBytes,
                    EmptyHasNothingToSend

LEMMA WriteKeeps ==
  ASSUME SenderInv, NEW size \in 0..MaxBytes, NEW end \in BOOLEAN, Write(size, end)
  PROVE  SenderInv'
<1>0. /\ SenderTypeOK /\ SenderAccounts /\ BufferMatches /\ FramesCarryTheirBytes
      /\ size \in Nat /\ bufferStart \in Nat /\ bufferStop \in Nat
      /\ acked \in SUBSET Nat
  BY SenderAssumption DEF SenderInv, SenderTypeOK
<1>1. /\ buffer' \in Seq(Nat)
      /\ Len(buffer') = bufferStop + size - bufferStart
      /\ \A k \in 1..Len(buffer') : buffer'[k] = bufferStart + k - 1
  <2>1. /\ buffer \in Seq(Nat) /\ bufferStart <= bufferStop
        /\ Len(buffer) = bufferStop - bufferStart
        /\ \A k \in 1..Len(buffer) : buffer[k] = bufferStart + k - 1
    BY <1>0 DEF SenderTypeOK, BufferMatches
  <2>2. buffer' = buffer \o [k \in 1..size |-> bufferStop + k - 1]
    BY DEF Write
  <2>3. /\ size \in Nat /\ bufferStart \in Nat /\ bufferStop \in Nat
    BY <1>0
  <2>4. QED
    <3>. DEFINE new == [k \in 1..size |-> bufferStop + k - 1]
    <3>1. BytesBetween(new, bufferStop, bufferStop + size)
      BY <2>3 DEF BytesBetween
    <3>2. BytesBetween(buffer, bufferStart, bufferStop)
      BY <2>1, <2>3 DEF BytesBetween
    <3>3. buffer' = buffer \o new
      BY <2>2
    <3>. HIDE DEF new
    <3>4. BytesBetween(buffer', bufferStart, bufferStop + size)
      BY <3>1, <3>2, <3>3, BytesAppended
    <3>5. QED
      BY <2>3, <3>4 DEF BytesBetween
<1>2. SenderTypeOK'
  <2>1. Offsets(bufferStop, bufferStop + size) \subseteq Nat
    BY <1>0 DEF Offsets
  <2>2. SenderFlagsOK'
    BY Zenon, <1>0 DEF Write, SenderTypeOK, SenderFlagsOK, resetVars
  <2>3. bufferFin' \in Nat \cup {None} /\ bufferStop' \in Nat /\ pending' \subseteq Nat
    <3>1. bufferFin' = bufferStop + size \/ bufferFin' = None
      BY Zenon DEF Write
    <3>2. /\ bufferStop' = bufferStop + size
          /\ pending' = pending \cup Offsets(bufferStop, bufferStop + size)
      BY DEF Write
    <3>3. bufferStop + size \in Nat /\ pending \subseteq Nat
      BY <1>0 DEF SenderTypeOK
    <3>4. QED
      BY <2>1, <3>1, <3>2, <3>3
  <2>4. QED
    BY <1>0, <1>1, <2>2, <2>3 DEF Write, SenderTypeOK
<1>3. SenderAccounts'
  BY <1>0, WrittenIsPending DEF Write, BufferMatches
<1>4. BufferMatches'
  <2>1. bufferStart' = bufferStart /\ acked' = acked /\ bufferStop' = bufferStop + size
    BY DEF Write
  <2>2. QED
    BY <1>0, <1>1, <2>1 DEF BufferMatches
<1>5. (\A i \in 1..Len(sent) : sent[i].start <= sent[i].stop)' /\ FramesCarryTheirBytes'
  BY DEF Write, SenderInv, FramesCarryTheirBytes
<1>6. EmptyHasNothingToSend' /\ (pendingEof => bufferFin # None)'
  BY <1>0 DEF Write, SenderInv, EmptyHasNothingToSend, None
<1>7. QED
  BY <1>2, <1>3, <1>4, <1>5, <1>6 DEF SenderInv

LEMMA SendDataKeeps ==
  ASSUME SenderInv, NEW stop \in 1..MaxBytes, SendData(stop)
  PROVE  SenderInv'
<1>. DEFINE start == First(pending)
            data == Slice(start, stop)
            f == DataFrame(start, stop, EndsStream(stop), data)
<1>0. SenderTypeOK /\ SenderAccounts /\ BufferMatches /\ stop \in Nat
      /\ bufferStart \in Nat /\ bufferStop \in Nat /\ pending \in SUBSET Nat
  BY SenderAssumption DEF SenderInv, SenderTypeOK
<1>1. start \in pending /\ start \in Nat /\ start < stop
  BY <1>0, FirstIsLeast DEF SendData
<1>2. start \in bufferStart..bufferStop /\ stop \in start..bufferStop
  <2>1. pending \subseteq Offsets(bufferStart, bufferStop)
    BY <1>0 DEF SenderAccounts
  <2>2. stop - 1 \in pending
    BY <1>0, <1>1 DEF SendData, Offsets
  <2>. HIDE DEF start
  <2>3. QED
    BY <1>0, <1>1, <2>1, <2>2 DEF Offsets
<1>3. data \in Seq(Nat) /\ data = [k \in 1..(stop - start) |-> start + k - 1]
  <2>. HIDE DEF start
  <2>. QED BY <1>0, <1>2, CutHoldsItsBytes DEF Slice
<1>4. f \in Frames /\ f.kind = "data" /\ f.start = start /\ f.stop = stop /\ f.data = data
  <2>. HIDE DEF start, data
  <2>. QED BY <1>1, <1>3 DEF DataFrame, Frames, EndsStream
<1>5. Send(f) /\ pending' = pending \ Offsets(start, stop)
      /\ Offsets(start, stop) \subseteq pending
  BY DEF SendData
<1>. HIDE DEF start, data, f
<1>6. /\ (\A i \in 1..Len(sent) : sent[i].start <= sent[i].stop)'
      /\ FramesCarryTheirBytes' /\ sent' \in Seq(Frames)
      /\ inFlight' \subseteq 1..Len(sent') /\ confirmed \subseteq 1..Len(sent')
  BY <1>1, <1>3, <1>4, <1>5, FramesKept
<1>7. SenderTypeOK'
  <2>1. SenderFlagsOK'
    BY Zenon, <1>0 DEF SendData, SenderTypeOK, SenderFlagsOK, resetVars
  <2>2. highestOffset' \in Nat /\ pending' \subseteq Nat
    BY <1>0 DEF SendData, SenderTypeOK
  <2>3. QED
    BY <1>0, <1>6, <2>1, <2>2 DEF SendData, SenderTypeOK, bufferVars
<1>8. SenderAccounts'
  BY <1>4, <1>5, DataFrameTakes DEF SendData, SenderInv, bufferVars
<1>9. BufferMatches' /\ EmptyHasNothingToSend' /\ (pendingEof => bufferFin # None)'
  BY DEF SendData, MayWrite, SenderInv, BufferMatches, EmptyHasNothingToSend, bufferVars
<1>10. QED
  BY <1>6, <1>7, <1>8, <1>9 DEF SenderInv

LEMMA SendFinKeeps == ASSUME SenderInv, SendFin PROVE SenderInv'
<1>. DEFINE f == DataFrame(bufferFin, bufferFin, TRUE, << >>)
<1>0. SenderFlagsOK'
  BY DEF SendFin, SenderInv, SenderTypeOK, SenderFlagsOK, resetVars
<1>1. BufferMatches' /\ EmptyHasNothingToSend' /\ ~pendingEof'
  BY DEF SendFin, MayWrite, SenderInv, BufferMatches, EmptyHasNothingToSend, bufferVars
<1>2. CASE Send(f)
  <2>1. f \in Frames /\ f.start = f.stop /\ f.start \in Nat
        /\ f.data = [k \in 1..(f.stop - f.start) |-> f.start + k - 1]
    <3>1. bufferFin \in Nat
      BY DEF SendFin, SenderInv, SenderTypeOK
    <3>2. << >> = [k \in 1..(bufferFin - bufferFin) |-> bufferFin + k - 1]
      BY <3>1
    <3>3. QED
      BY <3>1, <3>2 DEF DataFrame, Frames
  <2>. HIDE DEF f
  <2>2. /\ (\A i \in 1..Len(sent) : sent[i].start <= sent[i].stop)'
        /\ FramesCarryTheirBytes' /\ sent' \in Seq(Frames)
        /\ inFlight' \subseteq 1..Len(sent') /\ confirmed \subseteq 1..Len(sent')
    BY <1>2, <2>1, FramesKept
  <2>3. SenderTypeOK'
    BY <1>0, <2>2 DEF SendFin, SenderInv, SenderTypeOK, bufferVars
  <2>4. SenderAccounts'
    BY <1>2, <2>1, EmptyFrameKeeps DEF SendFin, SenderInv, bufferVars
  <2>5. QED
    BY <1>1, <2>2, <2>3, <2>4 DEF SenderInv
<1>3. CASE UNCHANGED <<sent, inFlight>>
  <2>1. SenderTypeOK'
    BY <1>0, <1>3 DEF SendFin, SenderInv, SenderTypeOK, bufferVars
  <2>2. SenderAccounts'
    <3>1. UNCHANGED <<bufferStart, bufferStop, pending, acked>>
      BY DEF SendFin, bufferVars
    <3>2. \A i : FrameOffsets(i)' = FrameOffsets(i)
      BY <1>3 DEF FrameOffsets
    <3>3. FlightOffsets' = FlightOffsets
      BY <1>3, <3>2 DEF FlightOffsets
    <3>4. SenderAccounts
      BY DEF SenderInv
    <3>5. QED
      BY <1>3, <3>1, <3>2, <3>3, <3>4 DEF SenderAccounts
  <2>3. QED
    BY <1>1, <1>3, <2>1, <2>2 DEF SenderInv, FramesCarryTheirBytes
<1>4. QED
  BY <1>2, <1>3 DEF SendFin

LEMMA SendResetKeeps == ASSUME SenderInv, SendReset PROVE SenderInv'
<1>. DEFINE f == ResetFrame(highestOffset)
<1>1. f \in Frames /\ f.start = f.stop /\ f.start <= f.stop /\ f.kind # "data" /\ Send(f)
  BY DEF SendReset, ResetFrame, Frames, SenderInv, SenderTypeOK
<1>. HIDE DEF f
<1>2. /\ (\A i \in 1..Len(sent) : sent[i].start <= sent[i].stop)'
      /\ FramesCarryTheirBytes' /\ sent' \in Seq(Frames)
      /\ inFlight' \subseteq 1..Len(sent') /\ confirmed \subseteq 1..Len(sent')
  BY <1>1, FramesKept
<1>3. SenderFlagsOK'
  BY DEF SendReset, SenderInv, SenderTypeOK, SenderFlagsOK
<1>4. SenderTypeOK'
  BY <1>2, <1>3 DEF SendReset, SenderInv, SenderTypeOK, bufferVars
<1>5. SenderAccounts'
  BY <1>1, EmptyFrameKeeps DEF SendReset, SenderInv, bufferVars
<1>6. BufferMatches' /\ EmptyHasNothingToSend' /\ (pendingEof => bufferFin # None)'
  BY DEF SendReset, SenderInv, BufferMatches, EmptyHasNothingToSend, bufferVars
<1>7. QED
  BY <1>2, <1>4, <1>5, <1>6 DEF SenderInv

\* An acknowledgement moves the start of the buffer over acknowledged bytes only,
\* and as far as they go.
LEMMA AckedShift ==
  ASSUME SenderInv, NEW i \in inFlight, DataAcked(i)
  PROVE  LET known == acked \cup Offsets(sent[i].start, sent[i].stop) IN
         /\ known \in SUBSET Offsets(bufferStart, bufferStop)
         /\ bufferStart' \in bufferStart..bufferStop
         /\ Offsets(bufferStart, bufferStart') \subseteq known
         /\ bufferStart' \notin known \ Offsets(bufferStart, bufferStart')
         /\ acked' = known \ Offsets(bufferStart, bufferStart')
<1>. DEFINE known == acked \cup Offsets(sent[i].start, sent[i].stop)
            shift == sent[i].stop > sent[i].start /\ First(known) = bufferStart
            start == IF shift THEN RunStop(known, bufferStart, bufferStop) ELSE bufferStart
<1>0. /\ SenderTypeOK /\ SenderAccounts /\ BufferMatches
      /\ bufferStart \in Nat /\ bufferStop \in Nat /\ bufferStart <= bufferStop
      /\ i \in 1..Len(sent) /\ sent[i].kind = "data"
  BY DEF SenderInv, SenderTypeOK, BufferMatches, DataAcked
<1>1. /\ FrameOffsets(i) = Offsets(sent[i].start, sent[i].stop)
      /\ known = acked \cup FrameOffsets(i)
      /\ known \in SUBSET Offsets(bufferStart, bufferStop)
  BY <1>0, FlightInBuffer DEF SenderAccounts
<1>2. known \in SUBSET Nat
  BY <1>0, <1>1 DEF Offsets
<1>3. shift => bufferStart \in known
  <2>1. ASSUME shift PROVE known # {}
    <3>1. sent[i].start \in FrameOffsets(i)
      BY <1>0, <2>1, FlightInBuffer DEF Offsets
    <3>2. QED
      BY <1>1, <3>1
  <2>. HIDE DEF known
  <2>2. QED
    BY <1>2, <2>1, FirstIsLeast
<1>4. /\ start \in bufferStart..bufferStop
      /\ Offsets(bufferStart, start) \subseteq known
      /\ start \notin known \ Offsets(bufferStart, start)
  <2>1. CASE shift
    <3>1. start = RunStop(known, bufferStart, bufferStop) /\ bufferStart \in known
      BY <1>3, <2>1
    <3>. HIDE DEF known, start, shift
    <3>2. /\ start \in (bufferStart + 1)..bufferStop
          /\ Offsets(bufferStart, start) \subseteq known /\ start \notin known
      BY <1>0, <1>1, <3>1, RunStopIsEnd
    <3>3. QED
      BY <1>0, <3>2
  <2>2. CASE ~shift
    <3>0. start = bufferStart
      BY <2>2
    <3>1. Offsets(bufferStart, bufferStart) = {}
      BY <1>0 DEF Offsets
    <3>2. bufferStart \notin known
      <4>1. CASE sent[i].stop > sent[i].start
        <5>1. known # {} => First(known) \in known /\ \A y \in known : First(known) <= y
          <6>. HIDE DEF known
          <6>1. QED BY <1>2, FirstIsLeast
        <5>2. \A y \in known : bufferStart <= y
          BY <1>0, <1>1 DEF Offsets
        <5>3. First(known) # bufferStart
          BY <2>2, <4>1
        <5>. HIDE DEF known
        <5>4. ASSUME bufferStart \in known PROVE FALSE
          <6>1. First(known) \in Nat /\ First(known) <= bufferStart
                /\ bufferStart <= First(known)
            BY <1>2, <5>1, <5>2, <5>4
          <6>2. QED
            BY <1>0, <5>3, <6>1
        <5>5. QED
          BY <5>4
      <4>2. CASE ~(sent[i].stop > sent[i].start)
        <5>1. FrameOffsets(i) = {}
          BY <1>0, <1>1, <4>2, FlightInBuffer DEF Offsets
        <5>2. QED
          BY <1>0, <1>1, <5>1 DEF BufferMatches
      <4>3. QED
        BY <4>1, <4>2
    <3>. HIDE DEF known, start, shift
    <3>3. QED
      BY <1>0, <3>0, <3>1, <3>2
  <2>3. QED
    BY <2>1, <2>2
<1>5. acked' = known \ Offsets(bufferStart, start) /\ bufferStart' = start
  BY DEF DataAcked
<1>6. QED
  BY <1>1, <1>4, <1>5

LEMMA DataAckedKeeps ==
  ASSUME SenderInv, NEW i \in inFlight, DataAcked(i)
  PROVE  SenderInv'
<1>. DEFINE known == acked \cup Offsets(sent[i].start, sent[i].stop)
            start == bufferStart'
<1>0. /\ SenderTypeOK /\ SenderAccounts /\ BufferMatches
      /\ bufferStart \in Nat /\ bufferStop \in Nat /\ bufferStart <= bufferStop
      /\ i \in 1..Len(sent) /\ sent[i].kind = "data"
  BY DEF SenderInv, SenderTypeOK, BufferMatches, DataAcked
<1>1. /\ FrameOffsets(i) = Offsets(sent[i].start, sent[i].stop)
      /\ known = acked \cup FrameOffsets(i)
      /\ known \in SUBSET Offsets(bufferStart, bufferStop)
  BY <1>0, AckedShift DEF FrameOffsets
<1>2. known \in SUBSET Nat
  BY <1>0, <1>1 DEF Offsets
<1>3. acked' = known \ Offsets(bufferStart, start)
  BY AckedShift
<1>4. /\ start \in bufferStart..bufferStop
      /\ Offsets(bufferStart, start) \subseteq known
      /\ start \notin known \ Offsets(bufferStart, start)
  BY AckedShift
<1>5. /\ acked' = known \ Offsets(bufferStart, start) /\ bufferStart' = start
      /\ buffer' = SubSeq(buffer, start - bufferStart + 1, Len(buffer))
      /\ inFlight' = inFlight \ {i} /\ sent' = sent
      /\ UNCHANGED <<bufferStop, pending, pendingEof, bufferFin, highestOffset, lost>>
      /\ bufferIsEmpty' = FALSE /\ confirmed' = confirmed \cup {i}
  BY <1>3 DEF DataAcked
<1>. HIDE DEF start, known
<1>6. /\ buffer' \in Seq(Nat) /\ Len(buffer') = bufferStop - start
      /\ \A k \in 1..(bufferStop - start) : buffer'[k] = start + k - 1
  <2>1. Len(buffer) = bufferStop - bufferStart /\ bufferStop \in start..bufferStop
    BY <1>0, <1>4 DEF BufferMatches
  <2>2. LET cut == SubSeq(buffer, start - bufferStart + 1, bufferStop - bufferStart) IN
        /\ cut \in Seq(Nat) /\ Len(cut) = bufferStop - start
        /\ \A k \in 1..(bufferStop - start) : cut[k] = start + k - 1
    BY <1>0, <1>4, <2>1, CutHoldsItsBytes
  <2>3. buffer' = SubSeq(buffer, start - bufferStart + 1, bufferStop - bufferStart)
    BY <1>5, <2>1
  <2>4. QED
    BY <2>2, <2>3
<1>7. SenderFlagsOK'
  BY <1>0 DEF DataAcked, SenderTypeOK, SenderFlagsOK, resetVars
<1>8. SenderTypeOK'
  <2>0. acked' = known \ Offsets(bufferStart, start) /\ bufferStart' = start
    BY <1>5
  <2>1. acked' \subseteq Nat /\ bufferStart' \in Nat
    <3>1. start \in Nat
      BY <1>0, <1>4
    <3>2. QED
      BY <1>2, <2>0, <3>1
  <2>2. inFlight' \subseteq 1..Len(sent') /\ confirmed' \subseteq 1..Len(sent')
    BY <1>0, <1>5 DEF SenderTypeOK
  <2>3. QED
    BY <1>0, <1>5, <1>6, <1>7, <2>1, <2>2 DEF SenderTypeOK
<1>9. SenderAccounts'
  BY <1>0, <1>1, <1>4, <1>5, AckedIsDropped
<1>10. BufferMatches'
  <2>1. /\ acked' = known \ Offsets(bufferStart, start) /\ bufferStart' = start
        /\ bufferStop' = bufferStop
    BY <1>5
  <2>2. bufferStart' <= bufferStop' /\ bufferStart' \notin acked'
    BY <1>0, <1>4, <2>1
  <2>3. /\ Len(buffer') = bufferStop' - bufferStart'
        /\ \A k \in 1..Len(buffer') : buffer'[k] = bufferStart' + k - 1
    BY <1>6, <2>1
  <2>4. QED
    BY <2>2, <2>3 DEF BufferMatches
<1>11. QED
  BY <1>5, <1>8, <1>9, <1>10
     DEF SenderInv, FramesCarryTheirBytes, EmptyHasNothingToSend

LEMMA DataLostKeeps ==
  ASSUME SenderInv, NEW i \in inFlight, DataLost(i)
  PROVE  SenderInv'
<1>0. SenderTypeOK /\ SenderAccounts /\ lost \in Nat
  BY DEF SenderInv, SenderTypeOK
<1>1. /\ sent[i].start \in Nat /\ sent[i].stop \in Nat
      /\ FrameOffsets(i) = Offsets(sent[i].start, sent[i].stop)
  BY FlightInBuffer DEF DataLost
<1>2. SenderFlagsOK'
  BY Zenon, <1>0 DEF DataLost, SenderTypeOK, SenderFlagsOK, resetVars
<1>3. SenderTypeOK'
  <2>0. /\ pending' = pending \cup Offsets(sent[i].start, sent[i].stop)
        /\ lost' = lost + 1
    BY DEF DataLost
  <2>1. pending' \subseteq Nat /\ lost' \in Nat
    <3>1. pending \subseteq Nat
      BY <1>0 DEF SenderTypeOK
    <3>2. Offsets(sent[i].start, sent[i].stop) \subseteq Nat
      BY <1>1 DEF Offsets
    <3>3. pending' \subseteq Nat
      BY Zenon, <2>0, <3>1, <3>2
    <3>4. QED
      BY <1>0, <2>0, <3>3
  <2>2. QED
    BY <1>0, <1>2, <2>1 DEF DataLost, SenderTypeOK, bufferVars
<1>4. SenderAccounts'
  BY <1>0, <1>1, LostIsPending DEF DataLost, bufferVars
<1>5. (pendingEof => bufferFin # None)'
  <2>1. sent[i].stop # None
    BY <1>1 DEF None
  <2>2. QED
    BY Zenon, <2>1 DEF DataLost, SenderInv, bufferVars
<1>6. BufferMatches' /\ FramesCarryTheirBytes' /\ EmptyHasNothingToSend'
  BY DEF DataLost, SenderInv, BufferMatches, FramesCarryTheirBytes,
         EmptyHasNothingToSend, bufferVars
<1>7. QED
  BY <1>3, <1>4, <1>5, <1>6 DEF DataLost, SenderInv

LEMMA ResetReportKeeps ==
  ASSUME SenderInv, NEW i \in inFlight, ResetAcked(i) \/ ResetLost(i)
  PROVE  SenderInv'
<1>0. SenderTypeOK /\ SenderAccounts /\ i \in 1..Len(sent) /\ lost \in Nat
  BY DEF SenderInv, SenderTypeOK
<1>1. /\ inFlight' = inFlight \ {i} /\ confirmed' \subseteq confirmed \cup {i}
      /\ sent[i].kind = "reset" /\ lost' \in Nat
      /\ UNCHANGED <<bufferVars, pending, acked, pendingEof, highestOffset,
                     bufferIsEmpty, resetCalled, senderGone, sent>>
  BY <1>0 DEF ResetAcked, ResetLost, resetVars
<1>2. SenderFlagsOK'
  BY <1>0, <1>1 DEF ResetAcked, ResetLost, SenderTypeOK, SenderFlagsOK, resetVars
<1>3. SenderTypeOK'
  BY <1>0, <1>1, <1>2 DEF SenderTypeOK, bufferVars
<1>4. SenderAccounts'
  BY <1>0, <1>1, EmptyReportKeeps DEF FrameOffsets, bufferVars
<1>5. QED
  BY <1>1, <1>3, <1>4 DEF SenderInv, BufferMatches, FramesCarryTheirBytes,
                          EmptyHasNothingToSend, bufferVars

\* The steps that only raise or clear a flag.
LEMMA FlagStepKeeps ==
  ASSUME SenderInv, Reset \/ NothingToSend \/ DiscardSender \/ UNCHANGED senderVars
  PROVE  SenderInv'
<1>1. /\ UNCHANGED <<bufferVars, pending, acked, pendingEof, highestOffset, sent,
                     inFlight, confirmed, lost>>
      /\ bufferIsEmpty' = bufferIsEmpty \/ (pending = {} /\ ~pendingEof)
  BY DEF Reset, NothingToSend, DiscardSender, senderVars
<1>2. SenderFlagsOK'
  BY DEF SenderInv, SenderTypeOK, SenderFlagsOK, Reset, NothingToSend, DiscardSender,
         senderVars, resetVars
<1>3. SenderTypeOK'
  BY <1>1, <1>2 DEF SenderInv, SenderTypeOK, bufferVars
<1>4. SenderAccounts'
  BY <1>1 DEF SenderInv, SenderAccounts, FlightOffsets, FrameOffsets, bufferVars
<1>5. EmptyHasNothingToSend'
  BY <1>1 DEF SenderInv, EmptyHasNothingToSend
<1>6. QED
  BY <1>1, <1>3, <1>4, <1>5 DEF SenderInv, BufferMatches, FramesCarryTheirBytes, bufferVars
----
\* Every step of the sender keeps SenderInv.
LEMMA SenderStepKeeps == SenderInv /\ [SenderNext]_senderVars => SenderInv'
<1>. SUFFICES ASSUME SenderInv, [SenderNext]_senderVars PROVE SenderInv'
  OBVIOUS
<1>1. CASE \E size \in 0..MaxBytes, end \in BOOLEAN : Write(size, end)
  BY <1>1, WriteKeeps
<1>2. CASE \E stop \in 1..MaxBytes : SendData(stop)
  BY <1>2, SendDataKeeps
<1>3. CASE SendFin
  BY <1>3, SendFinKeeps
<1>4. CASE SendReset
  BY <1>4, SendResetKeeps
<1>5. CASE \E i \in inFlight : Report(i)
  BY <1>5, DataAckedKeeps, DataLostKeeps, ResetReportKeeps DEF Report
<1>6. CASE Reset \/ NothingToSend \/ DiscardSender \/ UNCHANGED senderVars
  BY <1>6, FlagStepKeeps
<1>7. QED
  BY <1>1, <1>2, <1>3, <1>4, <1>5, <1>6 DEF SenderNext, WritePacket

\* Every behaviour of the sender keeps SenderInv: the bytes are accounted for,
\* the buffer holds them, and every frame carries the bytes it names.
THEOREM SenderInvHolds == SenderSpec => []SenderInv
<1>1. SenderInit => SenderInv
  BY InitHasInv
<1>2. QED
  BY <1>1, SenderStepKeeps, PTL DEF SenderSpec

\* on_data_delivery and get_frame neither lose nor duplicate a byte.
THEOREM SenderAccountsHolds == SenderSpec => []SenderAccounts
<1>1. SenderInv => SenderAccounts
  BY DEF SenderInv
<1>2. QED
  BY <1>1, SenderInvHolds, PTL

\* Every data frame ever sent carries the bytes its offsets name.
THEOREM FramesCarryTheirBytesHolds == SenderSpec => []FramesCarryTheirBytes
<1>1. SenderInv => FramesCarryTheirBytes
  BY DEF SenderInv
<1>2. QED
  BY <1>1, SenderInvHolds, PTL

\* The connection never skips a stream that has something to send.
THEOREM EmptyHasNothingToSendHolds == SenderSpec => []EmptyHasNothingToSend
<1>1. SenderInv => EmptyHasNothingToSend
  BY DEF SenderInv
<1>2. QED
  BY <1>1, SenderInvHolds, PTL


----------------------------------------------------------------------------
\* The inductive invariant.

\* The offsets the receiver has got.
Received == Offsets(0, rStart) \cup ranges

\* No frame goes beyond what was written, and one with the FIN bit ends there.
FrameOK(f) ==
  /\ f.stop <= bufferStop
  /\ f.kind = "reset" => resetCalled
  /\ f.fin => f.stop = bufferFin
FramesOK ==
  /\ highestOffset <= bufferStop
  /\ bufferFin \in {None, bufferStop}
  /\ resetPending => resetCalled
  /\ \A i \in 1..Len(sent) : FrameOK(sent[i])

\* The receiver by itself.
BufferInv == ReceiverTypeOK /\ DeliveredInOrder /\ BufferMatchesRanges

\* The receiver and what the sender has written: it knows no bytes and no end
\* but those, and after the end nothing comes.
ReceiverInv ==
  /\ BufferInv
  /\ Received \subseteq Offsets(0, bufferStop)
  /\ ~resetCalled => finalSize \in {NoSize, bufferFin}
  /\ ended => finalSize = rStart

PipeInv == SenderInv /\ FramesOK /\ ReceiverInv

----------------------------------------------------------------------------
\* The buffer of the receiver.

Bytes == Nat \cup {Hole}

LEMMA OffsetsGrow ==
  ASSUME NEW a \in Nat, NEW b \in Nat
  PROVE  /\ a <= b => Offsets(0, a) \subseteq Offsets(0, b)
         /\ a \notin Offsets(0, b) => b <= a
BY DEF Offsets

LEMMA OffsetsSplit ==
  ASSUME NEW a \in Nat, NEW b \in Nat, a <= b
  PROVE  Offsets(0, b) \subseteq Offsets(0, a) \cup Offsets(a, b)
BY DEF Offsets

\* A slice from an offset on, and one up to an offset.
LEMMA Slices ==
  ASSUME NEW X, NEW s \in Seq(X), NEW n \in 0..Len(s)
  PROVE  /\ From(s, n) \in Seq(X) /\ Len(From(s, n)) = Len(s) - n
         /\ \A k \in 1..(Len(s) - n) : From(s, n)[k] = s[n + k]
         /\ UpTo(s, n) \in Seq(X) /\ Len(UpTo(s, n)) = n
         /\ \A k \in 1..n : UpTo(s, n)[k] = s[k]
<1>0. Len(s) \in Nat /\ \A i \in 1..Len(s) : s[i] \in X
  BY LenProperties, ElementOfSeq
<1>1. /\ From(s, n) \in Seq(X)
      /\ Len(From(s, n)) = IF n + 1 <= Len(s) THEN Len(s) - (n + 1) + 1 ELSE 0
      /\ \A k \in 1..(Len(s) - (n + 1) + 1) : From(s, n)[k] = s[n + 1 + k - 1]
  <2>1. n + 1 \in Int /\ Len(s) \in Int /\ \A i \in (n + 1)..Len(s) : s[i] \in X
    BY <1>0
  <2>2. QED
    BY <2>1, SubSeqProperties DEF From
<1>2. /\ UpTo(s, n) \in Seq(X)
      /\ Len(UpTo(s, n)) = IF 1 <= n THEN n - 1 + 1 ELSE 0
      /\ \A k \in 1..(n - 1 + 1) : UpTo(s, n)[k] = s[1 + k - 1]
  <2>1. 1 \in Int /\ n \in Int /\ \A i \in 1..n : s[i] \in X
    BY <1>0
  <2>2. QED
    BY <2>1, SubSeqProperties DEF UpTo
<1>3. /\ Len(From(s, n)) = Len(s) - n
      /\ \A k \in 1..(Len(s) - n) : From(s, n)[k] = s[n + k]
  BY <1>0, <1>1
<1>4. /\ Len(UpTo(s, n)) = n
      /\ \A k \in 1..n : UpTo(s, n)[k] = s[k]
  BY <1>0, <1>2
<1>5. QED
  BY <1>1, <1>2, <1>3, <1>4

\* bytearray slice assignment: what is written stands where it was put, the
\* rest stays, and the buffer grows if it must.
LEMMA OverwriteIs ==
  ASSUME NEW X, NEW s \in Seq(X), NEW d \in Seq(X), NEW n \in 0..Len(s)
  PROVE  /\ Overwrite(s, n, d) \in Seq(X)
         /\ Len(Overwrite(s, n, d)) =
              IF n + Len(d) <= Len(s) THEN Len(s) ELSE n + Len(d)
         /\ \A k \in 1..Len(Overwrite(s, n, d)) :
              Overwrite(s, n, d)[k] =
                IF n < k /\ k <= n + Len(d) THEN d[k - n] ELSE s[k]
<1>. DEFINE m == n + Len(d)
            left == UpTo(s, n)
            right == SubSeq(s, m + 1, Len(s))
            both == left \o d
            all == both \o right
<1>0. Len(s) \in Nat /\ Len(d) \in Nat /\ m \in Nat /\ n \in Nat
  BY LenProperties
<1>1. left \in Seq(X) /\ Len(left) = n /\ \A k \in 1..n : left[k] = s[k]
  BY Slices
<1>2. /\ right \in Seq(X)
      /\ Len(right) = IF m + 1 <= Len(s) THEN Len(s) - m ELSE 0
      /\ \A k \in 1..(Len(s) - m) : right[k] = s[m + k]
  <2>1. m + 1 \in Int /\ Len(s) \in Int /\ \A i \in (m + 1)..Len(s) : s[i] \in X
    BY <1>0, ElementOfSeq
  <2>. HIDE DEF m
  <2>2. /\ right \in Seq(X)
        /\ Len(right) = IF m + 1 <= Len(s) THEN Len(s) - (m + 1) + 1 ELSE 0
        /\ \A k \in 1..(Len(s) - (m + 1) + 1) : right[k] = s[m + 1 + k - 1]
    BY <2>1, SubSeqProperties
  <2>3. QED
    BY <1>0, <2>2
<1>3. all = Overwrite(s, n, d)
  BY DEF Overwrite, From
<1>. HIDE DEF left, right
<1>4. /\ both \in Seq(X) /\ Len(both) = m
      /\ \A k \in 1..m : both[k] = IF k <= n THEN s[k] ELSE d[k - n]
  <2>1. /\ both \in Seq(X) /\ Len(both) = Len(left) + Len(d)
        /\ \A k \in 1..Len(left) + Len(d) :
             both[k] = IF k <= Len(left) THEN left[k] ELSE d[k - Len(left)]
    BY <1>1, ConcatProperties
  <2>. HIDE DEF both
  <2>2. QED
    BY <1>0, <1>1, <2>1
<1>. HIDE DEF both
<1>5. /\ all \in Seq(X) /\ Len(all) = Len(both) + Len(right)
      /\ \A k \in 1..Len(both) + Len(right) :
           all[k] = IF k <= Len(both) THEN both[k] ELSE right[k - Len(both)]
  BY <1>2, <1>4, ConcatProperties
<1>. HIDE DEF all
<1>6. Len(both) = m /\ Len(right) = IF m + 1 <= Len(s) THEN Len(s) - m ELSE 0
  BY <1>2, <1>4
<1>. DEFINE total == Len(all)
<1>7. total = IF m <= Len(s) THEN Len(s) ELSE m
  <2>1. total = m + IF m + 1 <= Len(s) THEN Len(s) - m ELSE 0
    BY <1>5, <1>6
  <2>. HIDE DEF m, total
  <2>2. QED
    BY <1>0, <2>1
<1>8. \A k \in 1..total : all[k] = IF k <= m THEN both[k] ELSE right[k - m]
  BY <1>5, <1>6
<1>9. total \in Nat
  <2>. HIDE DEF m, total
  <2>. QED BY <1>0, <1>7
<1>10. ASSUME NEW k \in 1..total
       PROVE  all[k] = IF n < k /\ k <= m THEN d[k - n] ELSE s[k]
  <2>1. CASE k <= m
    <3>1. all[k] = both[k]
      BY <1>8, <2>1
    <3>2. k \in 1..m
      <4>. HIDE DEF m, total
      <4>. QED BY <1>0, <1>9, <2>1
    <3>3. both[k] = IF k <= n THEN s[k] ELSE d[k - n]
      BY <1>4, <3>2
    <3>4. k <= n \/ n < k
      BY <1>0, <3>2
    <3>5. QED
      BY <1>0, <2>1, <3>1, <3>2, <3>3, <3>4
  <2>2. CASE m < k
    <3>1. m <= Len(s) /\ k - m \in 1..(Len(s) - m) /\ ~(k <= m) /\ m + (k - m) = k
      <4>. HIDE DEF m, total
      <4>. QED BY <1>0, <1>7, <2>2
    <3>2. all[k] = right[k - m]
      BY <1>8, <3>1
    <3>3. right[k - m] = s[m + (k - m)]
      BY <1>2, <3>1
    <3>4. QED
      BY <3>1, <3>2, <3>3
  <2>3. QED
    <3>. HIDE DEF m, total
    <3>. QED BY <1>0, <1>9, <2>1, <2>2
<1>11. QED
  BY <1>3, <1>5, <1>7, <1>10

\* A buffer whose first byte is the one at offset begin holds these offsets.
Holds(buf, begin, S) ==
  \A r \in S : r >= begin /\ r - begin < Len(buf) /\ buf[r - begin + 1] = r

\* The parts of ReceiveBuffered, by name: where the new data begins, the offsets
\* known and the buffer once it has been put in its place, and the offset after
\* the run of bytes that can be handed over.
FreshStart(begin, start) == start + IF start < begin THEN begin - start ELSE 0
Known(got, begin, start, stop) == got \cup FreshStart(begin, start)..(stop - 1)
Filled(buf, begin, start, data) ==
  LET drop == IF start < begin THEN begin - start ELSE 0
      pos == start + drop - begin
  IN Overwrite(Padded(buf, pos), pos, From(data, drop))
NextMissing(begin, buf, known) ==
  IF begin \in known
  THEN CHOOSE k \in (begin + 1)..(begin + Len(buf)) :
         begin..(k - 1) \subseteq known /\ k \notin known
  ELSE begin

\* Data that arrives is put in its place, the rest of the buffer stays.
LEMMA FilledHolds ==
  ASSUME NEW begin \in Nat, NEW buf \in Seq(Bytes), NEW got \in SUBSET Nat,
         Holds(buf, begin, got),
         NEW start \in Nat, NEW stop \in Nat, start <= stop
  PROVE  LET filled == Filled(buf, begin, start, Stretch(start, stop)) IN
         /\ filled \in Seq(Bytes)
         /\ begin + Len(filled) =
              IF begin + Len(buf) >= stop THEN begin + Len(buf) ELSE stop
         /\ Holds(filled, begin, Known(got, begin, start, stop))
         /\ Known(got, begin, start, stop) \in SUBSET Nat
<1>. DEFINE drop == IF start < begin THEN begin - start ELSE 0
            a == start + drop
            data == Stretch(start, stop)
            fresh == From(data, drop)
            pos == a - begin
            known == got \cup a..(stop - 1)
            pad == [k \in 1..(pos - Len(buf)) |-> Hole]
            padded == Padded(buf, pos)
            filled == Overwrite(padded, pos, fresh)
<1>1. /\ a \in Nat /\ pos \in Nat /\ drop \in Nat /\ a = begin + pos /\ Len(buf) \in Nat
      /\ a >= start /\ (a = start \/ a = begin) /\ a >= begin
  BY LenProperties
<1>2. /\ fresh \in Seq(Bytes) /\ Len(fresh) = IF a <= stop THEN stop - a ELSE 0
      /\ \A k \in 1..Len(fresh) : fresh[k] = a + k - 1
  <2>1. data \in [1..(stop - start) -> Nat] /\ data \in Seq(Nat) /\ Len(data) = stop - start
        /\ \A k \in 1..(stop - start) : data[k] = start + k - 1
    BY DEF Stretch
  <2>. HIDE DEF data
  <2>2. /\ drop + 1 \in Int /\ Len(data) \in Int
        /\ \A i \in (drop + 1)..Len(data) : data[i] \in Bytes
    BY <1>1, <2>1 DEF Bytes
  <2>. HIDE DEF drop
  <2>3. /\ fresh \in Seq(Bytes)
        /\ Len(fresh) = IF drop + 1 <= Len(data) THEN Len(data) - (drop + 1) + 1 ELSE 0
        /\ \A k \in 1..(Len(data) - (drop + 1) + 1) : fresh[k] = data[drop + 1 + k - 1]
    BY <2>2, SubSeqProperties, SMTT(30) DEF From
  <2>. HIDE DEF fresh
  <2>4. Len(fresh) = IF a <= stop THEN stop - a ELSE 0
    BY <1>1, <2>1, <2>3
  <2>5. ASSUME NEW k \in 1..Len(fresh) PROVE fresh[k] = a + k - 1
    <3>1. k \in 1..(stop - a) /\ k \in Nat
      BY <1>1, <2>4
    <3>2. k \in 1..(Len(data) - (drop + 1) + 1) /\ drop + k \in 1..(stop - start)
      BY <1>1, <2>1, <3>1
    <3>3. fresh[k] = data[drop + 1 + k - 1] /\ drop + 1 + k - 1 = drop + k
      BY <1>1, <2>3, <3>1, <3>2
    <3>4. data[drop + k] = start + (drop + k) - 1
      BY <2>1, <3>2
    <3>5. QED
      BY <1>1, <3>1, <3>3, <3>4
  <2>6. QED
    BY <2>3, <2>4, <2>5
<1>. HIDE DEF fresh, data, drop
<1>3. /\ padded \in Seq(Bytes) /\ Len(padded) = IF Len(buf) >= pos THEN Len(buf) ELSE pos
      /\ \A k \in 1..Len(buf) : padded[k] = buf[k]
  <2>1. pad \in Seq(Bytes) /\ Len(pad) = IF Len(buf) >= pos THEN 0 ELSE pos - Len(buf)
    <3>1. CASE Len(buf) >= pos
      <4>. DEFINE z == 0
      <4>1. 1..(pos - Len(buf)) = 1..z
        BY <1>1, <3>1
      <4>2. pad = [k \in 1..z |-> Hole] /\ z \in Nat /\ Hole \in Bytes
        BY <4>1 DEF Bytes
      <4>. HIDE DEF pad, z
      <4>3. pad \in Seq(Bytes) /\ Len(pad) = z
        BY <4>2
      <4>4. QED
        BY <3>1, <4>3 DEF z
    <3>2. CASE ~(Len(buf) >= pos)
      <4>1. pos - Len(buf) \in Nat
        BY <1>1, <3>2
      <4>2. QED
        BY <3>2, <4>1 DEF Bytes
    <3>3. QED
      BY <3>1, <3>2
  <2>. HIDE DEF pad
  <2>2. padded = buf \o pad
    BY DEF Padded, pad
  <2>. HIDE DEF padded
  <2>3. /\ padded \in Seq(Bytes) /\ Len(padded) = Len(buf) + Len(pad)
        /\ \A i \in 1..Len(buf) + Len(pad) :
             padded[i] = IF i <= Len(buf) THEN buf[i] ELSE pad[i - Len(buf)]
    BY <2>1, <2>2, ConcatProperties
  <2>4. QED
    BY <1>1, <2>1, <2>3
<1>. HIDE DEF padded
<1>4. /\ filled \in Seq(Bytes)
      /\ Len(filled) = IF pos + Len(fresh) <= Len(padded) THEN Len(padded)
                       ELSE pos + Len(fresh)
      /\ \A k \in 1..Len(filled) :
           filled[k] = IF pos < k /\ k <= pos + Len(fresh) THEN fresh[k - pos] ELSE padded[k]
  <2>1. pos \in 0..Len(padded)
    BY <1>1, <1>3
  <2>2. QED
    BY <1>2, <1>3, <2>1, OverwriteIs
<1>. HIDE DEF filled, pos, a
<1>5. begin + Len(filled) = IF begin + Len(buf) >= stop THEN begin + Len(buf) ELSE stop
  <2>1. /\ Len(fresh) = IF a <= stop THEN stop - a ELSE 0
        /\ Len(padded) = IF Len(buf) >= pos THEN Len(buf) ELSE pos
        /\ Len(filled) = IF pos + Len(fresh) <= Len(padded) THEN Len(padded)
                         ELSE pos + Len(fresh)
    BY <1>2, <1>3, <1>4
  <2>2. CASE a <= stop
    BY <1>1, <2>1, <2>2
  <2>3. CASE ~(a <= stop)
    <3>1. Len(fresh) = 0 /\ a = begin /\ pos = 0 /\ stop < begin
      BY <1>1, <2>1, <2>3
    <3>2. QED
      BY <1>1, <2>1, <3>1
  <2>4. QED
    BY <2>2, <2>3
<1>6. known \in SUBSET Nat
  BY <1>1
<1>7. ASSUME NEW r \in known
      PROVE  r >= begin /\ r - begin < Len(filled) /\ filled[r - begin + 1] = r
  <2>1. CASE r \in a..(stop - 1)
    <3>1. /\ r \in Nat /\ a <= r /\ r < stop /\ Len(fresh) = stop - a
          /\ Len(filled) \in Nat
      BY <1>1, <1>2, <1>4, <2>1, LenProperties
    <3>2. r >= begin /\ r - begin < Len(filled)
      BY <1>1, <1>5, <3>1
    <3>3. /\ r - begin + 1 \in 1..Len(filled) /\ (r - begin + 1) - pos \in 1..Len(fresh)
          /\ pos < r - begin + 1 /\ r - begin + 1 <= pos + Len(fresh)
      BY <1>1, <3>1, <3>2
    <3>4. filled[r - begin + 1] = fresh[(r - begin + 1) - pos]
      BY <1>4, <3>3
    <3>5. fresh[(r - begin + 1) - pos] = a + ((r - begin + 1) - pos) - 1
      BY <1>2, <3>3
    <3>6. a + ((r - begin + 1) - pos) - 1 = r
      BY <1>1, <3>1
    <3>7. QED
      BY <3>2, <3>4, <3>5, <3>6
  <2>2. CASE r \in got /\ r \notin a..(stop - 1)
    <3>1. r \in Nat /\ r >= begin /\ r - begin < Len(buf) /\ buf[r - begin + 1] = r
      BY <2>2 DEF Holds
    <3>2. r - begin + 1 \in 1..Len(buf) /\ r - begin < Len(filled)
          /\ r - begin + 1 \in 1..Len(filled)
      BY <1>1, <1>5, <1>4, <3>1, LenProperties
    <3>3. ~(pos < r - begin + 1 /\ r - begin + 1 <= pos + Len(fresh))
      BY <1>1, <1>2, <2>2, <3>1
    <3>4. filled[r - begin + 1] = padded[r - begin + 1]
      BY <1>4, <3>2, <3>3
    <3>5. QED
      BY <1>3, <3>1, <3>2, <3>4
  <2>3. QED
    BY <2>1, <2>2
<1>8. QED
  BY <1>4, <1>5, <1>6, <1>7
     DEF Holds, filled, pos, a, fresh, drop, padded, data, Filled, Known, FreshStart

\* What handing over the run of bytes at the front of the buffer leaves.
PulledOK(begin, buf, known, out) ==
  LET next == NextMissing(begin, buf, known)
      rest == From(buf, next - begin)
      left == known \ begin..(next - 1)
      all == out \o UpTo(buf, next - begin)
  IN /\ next \in begin..(begin + Len(buf))
     /\ rest \in Seq(Bytes) /\ next + Len(rest) = begin + Len(buf)
     /\ left \in SUBSET Nat /\ Holds(rest, next, left) /\ next \notin left
     /\ all \in Seq(Bytes) /\ Len(all) = next
     /\ \A k \in 1..next : all[k] = k - 1
     /\ Offsets(0, next) \cup left = Offsets(0, begin) \cup known

\* The run of bytes at the front of the buffer is handed over, up to the first
\* that is missing.
LEMMA PullHolds ==
  ASSUME NEW begin \in Nat, NEW buf \in Seq(Bytes), NEW known \in SUBSET Nat,
         Holds(buf, begin, known),
         NEW out \in Seq(Bytes), Len(out) = begin, \A k \in 1..begin : out[k] = k - 1
  PROVE  PulledOK(begin, buf, known, out)
<1>. DEFINE next == NextMissing(begin, buf, known)
            n == next - begin
            rest == From(buf, n)
            left == known \ begin..(next - 1)
            run == UpTo(buf, n)
            all == out \o run
<1>0. Len(buf) \in Nat
  BY LenProperties
<1>1. known \in SUBSET Offsets(begin, begin + Len(buf))
  BY <1>0 DEF Holds, Offsets
<1>2. /\ next \in begin..(begin + Len(buf))
      /\ begin..(next - 1) \subseteq known /\ next \notin known
  <2>1. CASE begin \in known
    <3>1. next = RunStop(known, begin, begin + Len(buf))
      BY <2>1 DEF RunStop, Offsets, NextMissing
    <3>2. begin + Len(buf) \in Nat
      BY <1>0
    <3>. HIDE DEF next
    <3>3. /\ next \in (begin + 1)..(begin + Len(buf))
          /\ Offsets(begin, next) \subseteq known /\ next \notin known
      BY <1>1, <2>1, <3>1, <3>2, RunStopIsEnd
    <3>4. QED
      BY <1>0, <3>3 DEF Offsets
  <2>2. CASE begin \notin known
    BY <1>0, <2>2 DEF NextMissing
  <2>3. QED
    BY <2>1, <2>2
<1>. HIDE DEF next
<1>3. n \in 0..Len(buf) /\ next = begin + n /\ next \in Nat
  BY <1>0, <1>2
<1>4. /\ rest \in Seq(Bytes) /\ Len(rest) = Len(buf) - n
      /\ \A k \in 1..(Len(buf) - n) : rest[k] = buf[n + k]
      /\ run \in Seq(Bytes) /\ Len(run) = n
      /\ \A k \in 1..n : run[k] = buf[k]
  BY <1>3, Slices
<1>. HIDE DEF rest, run
<1>5. /\ all \in Seq(Bytes) /\ Len(all) = Len(out) + Len(run)
      /\ \A k \in 1..Len(out) + Len(run) :
           all[k] = IF k <= Len(out) THEN out[k] ELSE run[k - Len(out)]
  BY <1>4, ConcatProperties
<1>. HIDE DEF all
<1>6. Len(all) = next
  BY <1>3, <1>4, <1>5
<1>7. ASSUME NEW k \in 1..next PROVE all[k] = k - 1
  <2>1. all[k] = IF k <= begin THEN out[k] ELSE run[k - begin]
    BY <1>3, <1>4, <1>5
  <2>2. CASE k <= begin
    BY <1>3, <2>1, <2>2
  <2>3. CASE ~(k <= begin)
    <3>1. k - begin \in 1..n /\ k - 1 \in begin..(next - 1) /\ (k - 1) - begin + 1 = k - begin
      BY <1>3, <2>3
    <3>2. run[k - begin] = buf[k - begin]
      BY <1>4, <3>1
    <3>3. k - 1 \in known
      BY <1>2, <3>1
    <3>4. buf[(k - 1) - begin + 1] = k - 1
      BY <3>3 DEF Holds
    <3>5. QED
      BY <2>1, <2>3, <3>1, <3>2, <3>4
  <2>4. QED
    BY <2>2, <2>3
<1>8. ASSUME NEW r \in left
      PROVE  r >= next /\ r - next < Len(rest) /\ rest[r - next + 1] = r
  <2>1. r \in known /\ r \in Nat /\ r >= begin /\ r - begin < Len(buf)
        /\ buf[r - begin + 1] = r
    BY DEF Holds
  <2>2. r >= next /\ r # next
    BY <1>2, <1>3, <2>1
  <2>3. /\ r - next + 1 \in 1..(Len(buf) - n) /\ n + (r - next + 1) = r - begin + 1
        /\ r - next < Len(buf) - n
    BY <1>0, <1>3, <2>1, <2>2
  <2>4. rest[r - next + 1] = buf[n + (r - next + 1)]
    BY <1>4, <2>3
  <2>5. QED
    BY <1>4, <2>1, <2>2, <2>3, <2>4
<1>9. Offsets(0, next) \cup left = Offsets(0, begin) \cup known
  <2>1. Offsets(0, next) = Offsets(0, begin) \cup begin..(next - 1)
    BY <1>3 DEF Offsets
  <2>2. QED
    BY <1>2, <2>1
<1>10. next + Len(rest) = begin + Len(buf)
  BY <1>0, <1>3, <1>4
<1>11. QED
  BY <1>2, <1>4, <1>5, <1>6, <1>7, <1>8, <1>9, <1>10 DEF Holds, PulledOK, next, rest, run, all
----------------------------------------------------------------------------
\* The steps of the receiver.

\* What a frame that is not ignored does, on either path.
Took(start, stop, fin) ==
  /\ rStart' >= rStart
  /\ Received' = Received \cup Offsets(start, stop)
  /\ rStart' + Len(rBuffer') =
       IF rStart + Len(rBuffer) >= stop THEN rStart + Len(rBuffer) ELSE stop
  /\ finalSize' = IF fin THEN stop ELSE finalSize
  /\ ended => ended'
  /\ ended' => ended \/ rStart' = finalSize'
  /\ rStart' = finalSize' => ended' \/ (rBuffer = << >> /\ ~fin)
  /\ receiverFinished' => receiverFinished \/ ended'
  /\ ~receiverGone'

LEMMA StretchIs ==
  ASSUME NEW start \in Nat, NEW stop \in Nat, start <= stop
  PROVE  /\ Stretch(start, stop) \in Seq(Bytes) /\ Len(Stretch(start, stop)) = stop - start
         /\ \A k \in 1..(stop - start) : Stretch(start, stop)[k] = start + k - 1
<1>. DEFINE n == stop - start
            data == [k \in 1..n |-> start + k - 1]
<1>1. n \in Nat /\ \A k \in 1..n : start + k - 1 \in Bytes
  BY DEF Bytes
<1>2. data = Stretch(start, stop)
  BY DEF Stretch
<1>3. \A k \in 1..n : data[k] = start + k - 1
  OBVIOUS
<1>4. data \in [1..n -> Bytes]
  BY <1>1
<1>. HIDE DEF data
<1>5. data \in Seq(Bytes) /\ Len(data) = n
  <2>. HIDE DEF n
  <2>. QED BY <1>1, <1>4
<1>6. QED
  BY <1>2, <1>3, <1>5

\* The two paths keep the buffer right and hand over the same bytes.
LEMMA InOrderTakes ==
  ASSUME BufferInv, NEW start \in Nat, NEW stop \in Nat, start <= stop,
         NEW fin \in BOOLEAN, ReceiveInOrder(start, Stretch(start, stop), fin)
  PROVE  BufferInv' /\ Took(start, stop, fin)
<1>. DEFINE data == Stretch(start, stop)
            all == delivered \o data
<1>1. /\ data \in Seq(Bytes) /\ Len(data) = stop - start
      /\ \A k \in 1..(stop - start) : data[k] = start + k - 1
  BY StretchIs
<1>2. /\ rStart \in Nat /\ delivered \in Seq(Bytes) /\ Len(delivered) = rStart
      /\ rBuffer \in Seq(Bytes) /\ ranges \subseteq Nat /\ finalSize \in Nat \cup {NoSize}
      /\ \A k \in 1..Len(delivered) : delivered[k] = k - 1
  BY DEF BufferInv, ReceiverTypeOK, DeliveredInOrder, Bytes
<1>3. /\ start = rStart /\ data # << >> /\ rBuffer = << >>
      /\ rStart' = start + Len(data) /\ delivered' = all
      /\ finalSize' = IF fin THEN start + Len(data) ELSE finalSize
      /\ UNCHANGED <<rBuffer, ranges, stopPending, receiverGone>>
  BY DEF ReceiveInOrder
<1>4. /\ receiverFinished' = (receiverFinished \/ fin) /\ ended' = (ended \/ fin)
  BY DEF ReceiveInOrder
<1>. HIDE DEF data
<1>5. /\ all \in Seq(Bytes) /\ Len(all) = Len(delivered) + Len(data)
      /\ \A k \in 1..Len(delivered) + Len(data) :
           all[k] = IF k <= Len(delivered) THEN delivered[k] ELSE data[k - Len(delivered)]
  BY <1>1, <1>2, ConcatProperties
<1>. HIDE DEF all
<1>6. start < stop /\ rStart' = stop
  <2>1. start # stop
    BY <1>1, <1>3, EmptySeq
  <2>2. QED
    BY <1>1, <1>3, <2>1
<1>7. ranges = {} /\ Len(rBuffer) = 0
  <2>1. ASSUME NEW r \in ranges PROVE FALSE
    <3>1. r > rStart /\ r - rStart < Len(rBuffer) /\ Len(rBuffer) = 0 /\ r \in Nat
      BY <1>2, <1>3 DEF BufferInv, BufferMatchesRanges
    <3>2. QED
      BY <1>2, <3>1
  <2>2. QED
    BY <1>3, <2>1
<1>8. ReceiverTypeOK'
  <2>1. /\ receiverFinished' \in BOOLEAN /\ ended' \in BOOLEAN
        /\ stopPending' \in BOOLEAN /\ receiverGone' \in BOOLEAN
    BY Zenon, <1>3, <1>4 DEF BufferInv, ReceiverTypeOK
  <2>2. finalSize' \in Nat \cup {NoSize} /\ rStart' \in Nat
    BY <1>1, <1>2, <1>3, <1>6
  <2>3. QED
    BY <1>2, <1>3, <1>5, <2>1, <2>2 DEF ReceiverTypeOK, Bytes
<1>9. DeliveredInOrder'
  <2>1. Len(delivered') = rStart'
    BY <1>1, <1>2, <1>3, <1>5
  <2>2. ASSUME NEW k \in 1..rStart' PROVE all[k] = k - 1
    <3>1. all[k] = IF k <= start THEN delivered[k] ELSE data[k - start]
      BY <1>1, <1>2, <1>3, <1>5
    <3>2. k \in 1..stop
      BY <1>6
    <3>3. CASE k <= start
      BY <1>2, <1>3, <3>1, <3>2, <3>3
    <3>4. CASE ~(k <= start)
      <4>1. k - start \in 1..(stop - start)
        BY <3>2, <3>4
      <4>2. data[k - start] = start + (k - start) - 1
        BY <1>1, <4>1
      <4>3. QED
        BY <3>1, <3>2, <3>4, <4>2
    <3>5. QED
      BY <3>3, <3>4
  <2>3. QED
    BY <1>3, <2>1, <2>2 DEF DeliveredInOrder
<1>10. BufferMatchesRanges'
  BY <1>3, <1>7 DEF BufferMatchesRanges
<1>11. Took(start, stop, fin)
  <2>1. Received' = Received \cup Offsets(start, stop)
    BY <1>2, <1>3, <1>6, <1>7 DEF Received, Offsets
  <2>2. finalSize' = IF fin THEN stop ELSE finalSize
    BY <1>1, <1>3
  <2>3. /\ ended => ended'
        /\ receiverFinished' => receiverFinished \/ ended'
    BY Zenon, <1>4
  <2>4. ended' => ended \/ rStart' = finalSize'
    BY <1>4, <1>6, <2>2
  <2>5. rStart' = finalSize' => ended' \/ (rBuffer = << >> /\ ~fin)
    BY Zenon, <1>3, <1>4
  <2>6. /\ rStart' >= rStart
        /\ rStart' + Len(rBuffer') =
             IF rStart + Len(rBuffer) >= stop THEN rStart + Len(rBuffer) ELSE stop
    BY <1>2, <1>3, <1>6, <1>7
  <2>7. ~receiverGone'
    BY <1>3 DEF ReceiveInOrder
  <2>8. QED
    BY Zenon, <2>1, <2>2, <2>3, <2>4, <2>5, <2>6, <2>7 DEF Took
<1>12. QED
  BY <1>8, <1>9, <1>10, <1>11 DEF BufferInv

LEMMA BufferedTakes ==
  ASSUME BufferInv, NEW start \in Nat, NEW stop \in Nat, start <= stop,
         NEW fin \in BOOLEAN, ReceiveBuffered(start, Stretch(start, stop), fin)
  PROVE  BufferInv' /\ Took(start, stop, fin)
<1>. DEFINE data == Stretch(start, stop)
            end == start + Len(data)
            known == Known(ranges, rStart, start, end)
            filled == Filled(rBuffer, rStart, start, data)
            next == NextMissing(rStart, filled, known)
            size == IF fin THEN end ELSE finalSize
<1>1. /\ rStart \in Nat /\ delivered \in Seq(Bytes) /\ Len(delivered) = rStart
      /\ rBuffer \in Seq(Bytes) /\ ranges \in SUBSET Nat /\ finalSize \in Nat \cup {NoSize}
      /\ \A k \in 1..Len(delivered) : delivered[k] = k - 1
  BY DEF BufferInv, ReceiverTypeOK, DeliveredInOrder, Bytes
<1>2. Holds(rBuffer, rStart, ranges)
  <2>1. ASSUME NEW r \in ranges
        PROVE  r >= rStart /\ r - rStart < Len(rBuffer) /\ rBuffer[r - rStart + 1] = r
    <3>1. r > rStart /\ r - rStart < Len(rBuffer) /\ rBuffer[r - rStart + 1] = r
      BY DEF BufferInv, BufferMatchesRanges
    <3>2. QED
      BY <1>1, <3>1
  <2>2. QED
    BY <2>1 DEF Holds
<1>3. end = stop
  BY StretchIs
<1>4. /\ finalSize' = size /\ rStart' = next
      /\ rBuffer' = From(filled, next - rStart)
      /\ ranges' = known \ rStart..(next - 1)
      /\ delivered' = delivered \o UpTo(filled, next - rStart)
      /\ UNCHANGED <<stopPending, receiverGone>>
  BY DEF ReceiveBuffered, Known, FreshStart, Filled, NextMissing
<1>5. /\ receiverFinished' = (receiverFinished \/ AtEnd(next, size))
      /\ ended' = (ended \/ AtEnd(next, size))
  BY DEF ReceiveBuffered, Known, FreshStart, Filled, NextMissing
<1>6. /\ filled \in Seq(Bytes)
      /\ rStart + Len(filled) =
           IF rStart + Len(rBuffer) >= stop THEN rStart + Len(rBuffer) ELSE stop
      /\ Holds(filled, rStart, known)
      /\ known \in SUBSET Nat
  BY <1>1, <1>2, <1>3, FilledHolds
<1>7. Received \cup Offsets(start, stop) = Offsets(0, rStart) \cup known
  BY <1>1, <1>3 DEF Received, Offsets, Known, FreshStart
<1>. HIDE DEF filled, known, end
<1>8. /\ next \in rStart..(rStart + Len(filled))
      /\ rBuffer' \in Seq(Bytes) /\ next + Len(rBuffer') = rStart + Len(filled)
      /\ ranges' \in SUBSET Nat /\ Holds(rBuffer', next, ranges') /\ next \notin ranges'
      /\ delivered' \in Seq(Bytes) /\ Len(delivered') = next
      /\ \A k \in 1..next : delivered'[k] = k - 1
      /\ Offsets(0, next) \cup ranges' = Offsets(0, rStart) \cup known
  <2>. DEFINE rest == From(filled, next - rStart)
              left == known \ rStart..(next - 1)
              all == delivered \o UpTo(filled, next - rStart)
  <2>1. /\ next \in rStart..(rStart + Len(filled))
        /\ rest \in Seq(Bytes) /\ next + Len(rest) = rStart + Len(filled)
        /\ left \in SUBSET Nat /\ Holds(rest, next, left) /\ next \notin left
        /\ all \in Seq(Bytes) /\ Len(all) = next
        /\ \A k \in 1..next : all[k] = k - 1
        /\ Offsets(0, next) \cup left = Offsets(0, rStart) \cup known
    <3>1. /\ rStart \in Nat /\ filled \in Seq(Bytes) /\ known \in SUBSET Nat
          /\ Holds(filled, rStart, known)
          /\ delivered \in Seq(Bytes) /\ Len(delivered) = rStart
          /\ \A k \in 1..rStart : delivered[k] = k - 1
      BY <1>1, <1>6
    <3>2. PulledOK(rStart, filled, known, delivered)
      BY <3>1, PullHolds
    <3>3. QED
      BY <3>2 DEF PulledOK
  <2>2. rBuffer' = rest /\ ranges' = left /\ delivered' = all
    BY <1>4
  <2>. HIDE DEF rest, left, all, next
  <2>3. QED
    BY <2>1, <2>2
<1>. HIDE DEF next, size
<1>9. next \in Nat /\ next >= rStart
  BY <1>1, <1>8
<1>10. ReceiverTypeOK'
  <2>1. /\ receiverFinished' \in BOOLEAN /\ ended' \in BOOLEAN
        /\ stopPending' \in BOOLEAN /\ receiverGone' \in BOOLEAN
    <3>1. AtEnd(next, size) \in BOOLEAN
      BY DEF AtEnd
    <3>2. QED
      BY Zenon, <1>4, <1>5, <3>1 DEF BufferInv, ReceiverTypeOK
  <2>2. finalSize' \in Nat \cup {NoSize}
    BY <1>1, <1>3, <1>4 DEF size
  <2>3. QED
    BY <1>4, <1>8, <1>9, <2>1, <2>2 DEF ReceiverTypeOK, Bytes
<1>11. DeliveredInOrder'
  BY <1>4, <1>8 DEF DeliveredInOrder
<1>12. BufferMatchesRanges'
  <2>1. ASSUME NEW r \in ranges'
        PROVE  r > next /\ r - next < Len(rBuffer') /\ rBuffer'[r - next + 1] = r
    <3>1. r >= next /\ r - next < Len(rBuffer') /\ rBuffer'[r - next + 1] = r
      BY <1>8 DEF Holds
    <3>2. r \in Nat /\ r # next
      BY <1>8
    <3>3. QED
      BY <1>9, <3>1, <3>2
  <2>2. QED
    BY <1>4, <1>8, <2>1 DEF BufferMatchesRanges
<1>13. Took(start, stop, fin)
  <2>1. Received' = Received \cup Offsets(start, stop)
    BY <1>4, <1>7, <1>8 DEF Received
  <2>2. finalSize' = IF fin THEN stop ELSE finalSize
    BY <1>3, <1>4 DEF size
  <2>3. /\ ended => ended'
        /\ receiverFinished' => receiverFinished \/ ended'
    BY Zenon, <1>5
  <2>4. /\ ended' => ended \/ rStart' = finalSize'
        /\ rStart' = finalSize' => ended' \/ (rBuffer = << >> /\ ~fin)
    BY <1>4, <1>5 DEF AtEnd
  <2>5. /\ rStart' >= rStart
        /\ rStart' + Len(rBuffer') =
             IF rStart + Len(rBuffer) >= stop THEN rStart + Len(rBuffer) ELSE stop
    BY <1>4, <1>6, <1>8, <1>9
  <2>6. ~receiverGone'
    BY <1>4 DEF ReceiveBuffered
  <2>7. QED
    BY Zenon, <2>1, <2>2, <2>3, <2>4, <2>5, <2>6 DEF Took
<1>14. QED
  BY <1>10, <1>11, <1>12, <1>13 DEF BufferInv
----------------------------------------------------------------------------
\* The steps of the sender.

\* A step that sends nothing.
LEMMA FramesStay ==
  ASSUME SenderInv, FramesOK, sent' = sent, highestOffset' = highestOffset,
         bufferStop' \in Nat, bufferStop' >= bufferStop,
         \/ bufferFin' = bufferFin /\ bufferStop' = bufferStop
         \/ bufferFin = None /\ bufferFin' \in {None, bufferStop'},
         resetCalled => resetCalled', resetPending' => resetCalled'
  PROVE  FramesOK'
<1>1. /\ bufferStop \in Nat /\ highestOffset \in Nat /\ highestOffset <= bufferStop
      /\ bufferFin \in {None, bufferStop}
  BY DEF SenderInv, SenderTypeOK, FramesOK
<1>2. highestOffset' <= bufferStop' /\ bufferFin' \in {None, bufferStop'}
  BY <1>1
<1>3. ASSUME NEW i \in 1..Len(sent) PROVE FrameOK(sent[i])'
  <2>1. sent[i] \in Frames
    BY ElementOfSeq DEF SenderInv, SenderTypeOK
  <2>2. sent[i].stop \in Nat /\ sent[i].stop # None
    BY <2>1 DEF Frames, None
  <2>3. /\ sent[i].stop <= bufferStop /\ (sent[i].kind = "reset" => resetCalled)
        /\ (sent[i].fin => sent[i].stop = bufferFin)
    BY DEF FramesOK, FrameOK
  <2>4. sent[i].stop <= bufferStop'
    BY <1>1, <2>2, <2>3
  <2>5. sent[i].fin => sent[i].stop = bufferFin'
    BY <2>2, <2>3
  <2>6. sent[i].kind = "reset" => resetCalled'
    BY <2>3
  <2>7. QED
    BY <2>4, <2>5, <2>6 DEF FrameOK
<1>4. QED
  BY <1>2, <1>3 DEF FramesOK

\* A step that sends a frame.
LEMMA FramesGrow ==
  ASSUME SenderInv, FramesOK, NEW f \in Frames, Send(f), FrameOK(f),
         UNCHANGED <<bufferStop, bufferFin, resetCalled>>,
         highestOffset' <= bufferStop, resetPending' => resetCalled
  PROVE  FramesOK'
<1>1. sent \in Seq(Frames) /\ sent' = Append(sent, f)
  BY DEF SenderInv, SenderTypeOK, Send
<1>2. /\ Len(sent') = Len(sent) + 1 /\ sent'[Len(sent) + 1] = f /\ Len(sent) \in Nat
      /\ \A i \in 1..Len(sent) : sent'[i] = sent[i]
  BY <1>1, AppendProperties, LenProperties
<1>3. ASSUME NEW i \in 1..Len(sent') PROVE FrameOK(sent'[i])
  <2>1. CASE i \in 1..Len(sent)
    BY <1>2, <2>1 DEF FramesOK
  <2>2. CASE i = Len(sent) + 1
    BY <1>2, <2>2
  <2>3. QED
    BY <1>2, <2>1, <2>2
<1>4. ASSUME NEW i \in 1..Len(sent') PROVE FrameOK(sent[i])'
  BY <1>3 DEF FrameOK
<1>5. QED
  BY <1>4 DEF FramesOK

\* Every step of the sender keeps what its frames have in common.
LEMMA SenderKeepsFrames ==
  ASSUME SenderInv, FramesOK,
         \/ \E size \in 0..MaxBytes, end \in BOOLEAN : Write(size, end)
         \/ Reset \/ WritePacket \/ DiscardSender
         \/ \E i \in inFlight : Report(i)
         \/ UNCHANGED <<bufferVars, resetVars, sent, highestOffset>>
  PROVE  FramesOK'
<1>0. /\ bufferStop \in Nat /\ bufferStart \in Nat /\ highestOffset \in Nat
      /\ highestOffset <= bufferStop /\ bufferFin \in {None, bufferStop}
      /\ (resetPending => resetCalled)
      /\ pending \subseteq Offsets(bufferStart, bufferStop)
  BY DEF SenderInv, SenderTypeOK, SenderAccounts, FramesOK
<1>1. ASSUME NEW size \in 0..MaxBytes, NEW end \in BOOLEAN, Write(size, end)
      PROVE  FramesOK'
  <2>1. /\ sent' = sent /\ highestOffset' = highestOffset
        /\ bufferStop' = bufferStop + size /\ bufferFin = None
        /\ bufferFin' = (IF end THEN bufferStop + size ELSE None)
        /\ UNCHANGED <<resetCalled, resetPending>>
    BY <1>1 DEF Write, resetVars
  <2>2. bufferStop' \in Nat /\ bufferStop' >= bufferStop
    BY <1>0, <2>1, SenderAssumption
  <2>3. bufferFin' \in {None, bufferStop'}
    BY <2>1
  <2>4. QED
    BY <1>0, <2>1, <2>2, <2>3, FramesStay
<1>2. ASSUME NEW stop \in 1..MaxBytes, SendData(stop)
      PROVE  FramesOK'
  <2>. DEFINE start == First(pending)
              data == Slice(start, stop)
              f == DataFrame(start, stop, EndsStream(stop), data)
  <2>1. start \in pending /\ start \in Nat /\ start < stop /\ stop \in Nat
    <3>1. pending \in SUBSET Nat
      BY DEF SenderInv, SenderTypeOK
    <3>2. pending # {} /\ stop > start
      BY <1>2 DEF SendData
    <3>3. stop \in Nat
      BY SenderAssumption
    <3>4. start \in pending
      BY <3>1, <3>2, FirstIsLeast
    <3>. HIDE DEF start
    <3>5. QED
      BY <3>1, <3>2, <3>3, <3>4
  <2>2. Offsets(start, stop) \subseteq pending
    BY <1>2 DEF SendData
  <2>3. stop <= bufferStop
    <3>. HIDE DEF start
    <3>1. stop - 1 \in pending
      BY <2>1, <2>2 DEF Offsets
    <3>2. QED
      BY <1>0, <2>1, <3>1 DEF Offsets
  <2>4. data \in Seq(Nat)
    <3>1. start \in bufferStart..bufferStop
      <4>. HIDE DEF start
      <4>. QED BY <1>0, <2>1 DEF Offsets
    <3>2. stop \in start..bufferStop
      <4>. HIDE DEF start
      <4>. QED BY <1>0, <2>1, <2>3
    <3>. HIDE DEF start
    <3>3. QED
      BY <3>1, <3>2, CutHoldsItsBytes DEF Slice, SenderInv, SenderTypeOK
  <2>5. Send(f)
    BY <1>2 DEF SendData
  <2>6. /\ f \in Frames /\ f.kind = "data" /\ f.stop = stop
        /\ f.fin = EndsStream(stop)
    <3>. HIDE DEF start, data
    <3>. QED BY <2>1, <2>4 DEF DataFrame, Frames, EndsStream
  <2>. HIDE DEF f, start, data
  <2>7. FrameOK(f)
    <3>1. f.fin => f.stop = bufferFin
      BY <2>6 DEF EndsStream
    <3>2. QED
      BY <2>3, <2>6, <3>1 DEF FrameOK
  <2>8. highestOffset' <= bufferStop
    BY <1>0, <1>2, <2>3 DEF SendData
  <2>9. UNCHANGED <<bufferStop, bufferFin, resetCalled, resetPending>>
    BY <1>2 DEF SendData, bufferVars, resetVars
  <2>10. QED
    BY <1>0, <2>5, <2>6, <2>7, <2>8, <2>9, FramesGrow
<1>3. ASSUME SendFin PROVE FramesOK'
  <2>. DEFINE f == DataFrame(bufferFin, bufferFin, TRUE, << >>)
  <2>1. UNCHANGED <<bufferStop, bufferFin, resetCalled, resetPending, highestOffset>>
    BY <1>3 DEF SendFin, bufferVars, resetVars
  <2>2. bufferFin = bufferStop
    BY <1>0, <1>3 DEF SendFin, SenderInv
  <2>3. f \in Frames /\ f.kind = "data" /\ f.stop = bufferFin
    BY <1>0, <2>2 DEF DataFrame, Frames
  <2>. HIDE DEF f
  <2>4. FrameOK(f)
    BY <1>0, <2>2, <2>3 DEF FrameOK
  <2>5. CASE Send(f)
    BY <1>0, <2>1, <2>3, <2>4, <2>5, FramesGrow
  <2>6. CASE UNCHANGED <<sent, inFlight>>
    BY <1>0, <2>1, <2>6, FramesStay
  <2>7. QED
    BY <1>3, <2>5, <2>6 DEF SendFin, f
<1>4. ASSUME SendReset PROVE FramesOK'
  <2>. DEFINE f == ResetFrame(highestOffset)
  <2>1. /\ UNCHANGED <<bufferStop, bufferFin, resetCalled, highestOffset>>
        /\ resetCalled /\ Send(f)
    BY <1>0, <1>4 DEF SendReset, bufferVars
  <2>2. f \in Frames /\ FrameOK(f)
    BY <1>0, <2>1 DEF ResetFrame, Frames, FrameOK
  <2>. HIDE DEF f
  <2>3. QED
    BY <1>0, <2>1, <2>2, FramesGrow
<1>5. ASSUME NEW i \in inFlight, ResetLost(i) PROVE FramesOK'
  <2>1. /\ UNCHANGED <<bufferStop, bufferFin, resetCalled, highestOffset, sent>>
        /\ sent[i].kind = "reset"
    BY <1>5 DEF ResetLost, bufferVars
  <2>2. i \in 1..Len(sent)
    BY DEF SenderInv, SenderTypeOK
  <2>3. resetCalled
    BY <2>1, <2>2 DEF FramesOK, FrameOK
  <2>4. QED
    BY <1>0, <2>1, <2>3, FramesStay
<1>6. ASSUME Reset PROVE FramesOK'
  <2>1. /\ UNCHANGED <<bufferStop, bufferFin, highestOffset, sent>>
        /\ resetCalled'
    BY <1>6 DEF Reset, bufferVars
  <2>2. QED
    BY <1>0, <2>1, FramesStay
<1>7. ASSUME \/ NothingToSend \/ DiscardSender
             \/ \E i \in inFlight : DataAcked(i) \/ DataLost(i) \/ ResetAcked(i)
             \/ UNCHANGED <<bufferVars, resetVars, sent, highestOffset>>
      PROVE  FramesOK'
  <2>1. UNCHANGED <<bufferStop, bufferFin, resetVars, highestOffset, sent>>
    BY <1>7 DEF NothingToSend, DiscardSender, DataAcked, DataLost, ResetAcked, bufferVars
  <2>2. UNCHANGED <<resetCalled, resetPending>>
    BY <2>1 DEF resetVars
  <2>3. QED
    BY <1>0, <2>1, <2>2, FramesStay
<1>8. QED
  BY <1>1, <1>2, <1>3, <1>4, <1>5, <1>6, <1>7 DEF WritePacket, Report

----------------------------------------------------------------------------
\* The steps of the receiver, and what they keep true between the two ends.

\* A step of the sender: it may write more, or the end, and may reset.
LEMMA ReceiverStays ==
  ASSUME SenderInv, FramesOK, ReceiverInv, UNCHANGED receiverVars,
         bufferStop' \in Nat, bufferStop' >= bufferStop,
         bufferFin = None \/ bufferFin' = bufferFin,
         resetCalled => resetCalled'
  PROVE  ReceiverInv'
<1>1. /\ UNCHANGED <<rStart, rBuffer, ranges, finalSize, receiverFinished, stopPending,
                     receiverGone, delivered, ended>>
      /\ bufferStop \in Nat
  BY DEF receiverVars, SenderInv, SenderTypeOK
<1>2. BufferInv'
  BY <1>1 DEF ReceiverInv, BufferInv, ReceiverTypeOK, DeliveredInOrder,
              BufferMatchesRanges
<1>3. Received' \subseteq Offsets(0, bufferStop')
  <2>1. Offsets(0, bufferStop) \subseteq Offsets(0, bufferStop')
    <3>1. bufferStop \in Nat /\ bufferStop' \in Nat /\ bufferStop <= bufferStop'
      BY <1>1
    <3>2. QED
      BY <3>1, OffsetsGrow
  <2>2. Received' = Received
    BY <1>1 DEF Received
  <2>3. QED
    BY <2>1, <2>2 DEF ReceiverInv
<1>4. ~resetCalled' => finalSize' \in {NoSize, bufferFin'}
  BY <1>1 DEF ReceiverInv, NoSize, None
<1>5. ended' => finalSize' = rStart'
  BY <1>1 DEF ReceiverInv
<1>6. QED
  BY <1>2, <1>3, <1>4, <1>5 DEF ReceiverInv

\* Data arrives: nothing comes after the end, and nothing comes that was not
\* written.
LEMMA DataArrives ==
  ASSUME SenderInv, FramesOK, ReceiverInv, NEW i \in 1..Len(sent), sent[i].kind = "data",
         ReceiveData(sent[i].start, sent[i].data, sent[i].fin),
         UNCHANGED <<bufferStop, bufferFin, resetCalled>>
  PROVE  /\ ReceiverInv'
         /\ rStart' >= rStart
         /\ ended => ended' /\ delivered' = delivered
<1>. DEFINE start == sent[i].start
            stop == sent[i].stop
            fin == sent[i].fin
<1>1. /\ start \in Nat /\ stop \in Nat /\ start <= stop /\ fin \in BOOLEAN
      /\ sent[i].data = Stretch(start, stop)
      /\ stop <= bufferStop /\ (fin => stop = bufferFin)
      /\ bufferStop \in Nat
  <2>1. sent[i] \in Frames
    BY ElementOfSeq DEF SenderInv, SenderTypeOK
  <2>2. start \in Nat /\ stop \in Nat /\ fin \in BOOLEAN
    BY <2>1 DEF Frames
  <2>3. start <= stop /\ sent[i].data = Stretch(start, stop)
    BY DEF SenderInv, FramesCarryTheirBytes, Stretch
  <2>4. stop <= bufferStop /\ (fin => stop = bufferFin)
    BY DEF FramesOK, FrameOK
  <2>5. bufferStop \in Nat
    BY DEF SenderInv, SenderTypeOK
  <2>6. QED
    BY <2>2, <2>3, <2>4, <2>5
<1>. DEFINE data == sent[i].data
<1>2. rStart \in Nat /\ ranges \subseteq Nat /\ rStart \notin ranges
  BY DEF ReceiverInv, BufferInv, ReceiverTypeOK, BufferMatchesRanges
<1>3. CASE ReceiveIgnored(start, data, fin)
  <2>1. UNCHANGED receiverVars
    BY <1>3 DEF ReceiveIgnored
  <2>2. /\ bufferStop' \in Nat /\ bufferStop' >= bufferStop
        /\ bufferFin' = bufferFin /\ (resetCalled => resetCalled')
    BY <1>1
  <2>3. ReceiverInv'
    BY <2>1, <2>2, ReceiverStays
  <2>4. QED
    BY <1>2, <2>1, <2>3 DEF receiverVars
<1>4. CASE ReceiveInOrder(start, data, fin) \/ ReceiveBuffered(start, data, fin)
  <2>1. /\ BufferInv' /\ Took(start, stop, fin)
        /\ finalSize # NoSize => ~(stop > finalSize) /\ (fin => stop = finalSize)
    <3>1. BufferInv' /\ Took(start, stop, fin)
      <4>. HIDE DEF start, stop, fin
      <4>. QED BY <1>1, <1>4, InOrderTakes, BufferedTakes DEF ReceiverInv
    <3>2. start + Len(data) = stop
      <4>1. Len(Stretch(start, stop)) = stop - start
        BY <1>1, StretchIs
      <4>. HIDE DEF start, stop
      <4>2. QED
        BY <1>1, <4>1
    <3>3. ~BreaksFinalSize(start + Len(data), fin)
      BY Zenon, <1>4 DEF ReceiveInOrder, ReceiveBuffered
    <3>4. QED
      BY <3>1, <3>2, <3>3 DEF BreaksFinalSize
  <2>. HIDE DEF start, stop, fin
  <2>2. /\ rStart' >= rStart /\ Received' = Received \cup Offsets(start, stop)
        /\ finalSize' = (IF fin THEN stop ELSE finalSize)
        /\ (ended => ended') /\ (ended' => ended \/ rStart' = finalSize')
    BY <2>1 DEF Took
  <2>3. rStart' \in Nat /\ delivered' \in Seq(Bytes) /\ delivered \in Seq(Bytes)
    BY <2>1 DEF ReceiverInv, BufferInv, ReceiverTypeOK, Bytes
  <2>4. Received' \subseteq Offsets(0, bufferStop')
    <3>1. Offsets(start, stop) \subseteq Offsets(0, bufferStop)
      BY <1>1 DEF Offsets
    <3>2. QED
      BY <2>2, <3>1 DEF ReceiverInv
  <2>5. ~resetCalled' => finalSize' \in {NoSize, bufferFin'}
    BY <1>1, <2>2 DEF ReceiverInv
  <2>6. ended => finalSize = rStart /\ rStart' = rStart /\ finalSize' = finalSize
    <3>1. SUFFICES ASSUME ended
                   PROVE  finalSize = rStart /\ rStart' = rStart /\ finalSize' = finalSize
      OBVIOUS
    <3>2. finalSize = rStart /\ finalSize # NoSize
      BY <1>2, <3>1 DEF ReceiverInv, NoSize
    <3>3. stop <= rStart /\ finalSize' = finalSize
      BY <1>1, <1>2, <2>1, <2>2, <3>2
    <3>4. rStart \notin Received'
      BY <1>1, <1>2, <2>2, <3>3 DEF Received, Offsets
    <3>5. rStart' = rStart
      <4>1. rStart \notin Offsets(0, rStart')
        BY <3>4 DEF Received
      <4>2. rStart' <= rStart
        BY <1>2, <2>3, <4>1, OffsetsGrow
      <4>3. QED
        BY <1>2, <2>2, <2>3, <4>2
    <3>6. QED
      BY <3>2, <3>3, <3>5
  <2>7. ended' => finalSize' = rStart'
    BY <2>2, <2>6
  <2>8. ended => delivered' = delivered
    <3>1. SUFFICES ASSUME ended PROVE delivered' = delivered
      OBVIOUS
    <3>2. Len(delivered) = rStart /\ Len(delivered') = rStart
      BY <2>1, <2>6, <3>1 DEF ReceiverInv, BufferInv, DeliveredInOrder
    <3>3. \A k \in 1..rStart : delivered[k] = k - 1 /\ delivered'[k] = k - 1
      BY <2>1, <3>2 DEF ReceiverInv, BufferInv, DeliveredInOrder
    <3>4. QED
      BY <2>3, <3>2, <3>3, SeqEqual
  <2>9. QED
    BY <2>1, <2>2, <2>4, <2>5, <2>7, <2>8 DEF ReceiverInv
<1>5. QED
  BY <1>3, <1>4 DEF ReceiveData

\* A reset arrives, or the stream is stopped or discarded: the bytes stay.
LEMMA ReceiverFlags ==
  ASSUME SenderInv, FramesOK, ReceiverInv,
         \/ DiscardReceiver \/ Stop \/ SendStop \/ StopLost
         \/ \E i \in 1..Len(sent) : sent[i].kind # "data" /\ ReceiveReset(sent[i].start),
         UNCHANGED <<bufferStop, bufferFin, resetCalled>>
  PROVE  ReceiverInv' /\ UNCHANGED <<rStart, delivered, ended>>
<1>1. UNCHANGED <<rStart, rBuffer, ranges, delivered, ended>>
  BY DEF DiscardReceiver, Stop, SendStop, StopLost, ReceiveReset, receiverVars
<1>2. /\ receiverFinished' \in BOOLEAN /\ stopPending' \in BOOLEAN
      /\ receiverGone' \in BOOLEAN
  BY Zenon DEF DiscardReceiver, Stop, SendStop, StopLost, ReceiveReset, receiverVars,
     ReceiverInv, BufferInv, ReceiverTypeOK
<1>3. \/ finalSize' = finalSize
      \/ /\ finalSize' \in Nat /\ resetCalled
         /\ finalSize # NoSize => finalSize' = finalSize
  <2>1. ASSUME NEW i \in 1..Len(sent), sent[i].kind # "data", ReceiveReset(sent[i].start)
        PROVE  \/ finalSize' = finalSize
               \/ /\ finalSize' \in Nat /\ resetCalled
                  /\ finalSize # NoSize => finalSize' = finalSize
    <3>1. sent[i] \in Frames
      BY ElementOfSeq DEF SenderInv, SenderTypeOK
    <3>2. sent[i].start \in Nat /\ sent[i].kind = "reset"
      BY <2>1, <3>1 DEF Frames
    <3>3. resetCalled
      BY <3>2 DEF FramesOK, FrameOK
    <3>4. \/ finalSize' = finalSize
          \/ finalSize' = sent[i].start /\ (finalSize # NoSize => sent[i].start = finalSize)
      BY <2>1 DEF ReceiveReset, receiverVars
    <3>5. QED
      BY <3>2, <3>3, <3>4
  <2>2. QED
    BY <2>1 DEF DiscardReceiver, Stop, SendStop, StopLost
<1>4. BufferInv'
  <2>1. ReceiverTypeOK'
    BY <1>1, <1>2, <1>3 DEF ReceiverInv, BufferInv, ReceiverTypeOK
  <2>2. QED
    BY <1>1, <2>1 DEF ReceiverInv, BufferInv, DeliveredInOrder, BufferMatchesRanges
<1>5. Received' = Received
  BY <1>1 DEF Received
<1>6. ~resetCalled' => finalSize' \in {NoSize, bufferFin'}
  BY <1>3 DEF ReceiverInv
<1>7. ended' => finalSize' = rStart'
  <2>1. rStart # NoSize
    BY DEF ReceiverInv, BufferInv, ReceiverTypeOK, NoSize
  <2>2. QED
    BY <1>1, <1>3, <2>1 DEF ReceiverInv
<1>8. QED
  BY <1>1, <1>4, <1>5, <1>6, <1>7 DEF ReceiverInv

----------------------------------------------------------------------------
\* Every step of the two endpoints and the network.

SenderMoves ==
  \/ \E size \in 0..MaxBytes, end \in BOOLEAN : Write(size, end)
  \/ Reset \/ WritePacket \/ DiscardSender
  \/ \E i \in inFlight : Report(i)

LEMMA SenderMovesKeep ==
  ASSUME SenderInv, FramesOK, SenderMoves
  PROVE  /\ SenderInv' /\ FramesOK'
         /\ bufferStop' >= bufferStop
         /\ bufferFin = None \/ UNCHANGED <<bufferStop, bufferFin>>
         /\ \/ resetCalled' = resetCalled
            \/ resetCalled' /\ UNCHANGED <<bufferStop, bufferFin>>
<1>0. bufferStop \in Nat
  BY DEF SenderInv, SenderTypeOK
<1>1. SenderInv'
  <2>1. CASE Reset
    BY <2>1, FlagStepKeeps
  <2>2. CASE SenderMoves /\ ~Reset
    BY <2>2, SenderStepKeeps DEF SenderMoves, SenderNext
  <2>3. QED
    BY <2>1, <2>2
<1>2. FramesOK'
  BY SenderKeepsFrames DEF SenderMoves
<1>3. ASSUME NEW size \in 0..MaxBytes, NEW end \in BOOLEAN, Write(size, end)
      PROVE  bufferStop' >= bufferStop /\ bufferFin = None /\ resetCalled' = resetCalled
  BY <1>0, <1>3, SenderAssumption DEF Write, resetVars
<1>4. CASE Reset
  BY <1>0, <1>1, <1>2, <1>4 DEF Reset, bufferVars
<1>5. ASSUME WritePacket \/ DiscardSender \/ (\E i \in inFlight : Report(i))
      PROVE  UNCHANGED <<bufferStop, bufferFin, resetCalled>>
  BY <1>5 DEF WritePacket, SendData, SendFin, NothingToSend, SendReset, DiscardSender,
              Report, DataAcked, DataLost, ResetAcked, ResetLost, bufferVars, resetVars
<1>6. QED
  BY <1>0, <1>1, <1>2, <1>3, <1>4, <1>5 DEF SenderMoves

PipeStep == Pipe!PipeAbort \/ Pipe!PipeWrite \/ Pipe!PipeRead

\* The sender moves and the receiver does not: the writer writes or gives up.
LEMMA SenderMovesPipe ==
  ASSUME PipeInv, SenderMoves, UNCHANGED receiverVars
  PROVE  PipeInv' /\ (PipeStep \/ UNCHANGED Pipe!pipeVars)
<1>1. /\ SenderInv' /\ FramesOK' /\ bufferStop' >= bufferStop
      /\ bufferFin = None \/ UNCHANGED <<bufferStop, bufferFin>>
      /\ \/ resetCalled' = resetCalled
         \/ resetCalled' /\ UNCHANGED <<bufferStop, bufferFin>>
  BY SenderMovesKeep DEF PipeInv
<1>2. bufferStop' \in Nat
  BY <1>1 DEF SenderInv, SenderTypeOK
<1>3. ReceiverInv'
  <2>1. resetCalled => resetCalled'
    BY <1>1
  <2>2. QED
    BY <1>1, <1>2, <2>1, ReceiverStays DEF PipeInv
<1>4. UNCHANGED <<delivered, ended>>
  BY DEF receiverVars
<1>5. ASSUME resetCalled' /\ UNCHANGED <<bufferStop, bufferFin>>
      PROVE  Pipe!PipeAbort
  BY <1>4, <1>5 DEF Pipe!PipeAbort
<1>6. ASSUME resetCalled' = resetCalled /\ bufferFin = None
      PROVE  Pipe!PipeWrite
  BY <1>1, <1>4, <1>6 DEF Pipe!PipeWrite
<1>7. ASSUME resetCalled' = resetCalled /\ UNCHANGED <<bufferStop, bufferFin>>
      PROVE  UNCHANGED Pipe!pipeVars
  BY <1>4, <1>7 DEF Pipe!pipeVars
<1>8. QED
  BY <1>1, <1>3, <1>5, <1>6, <1>7 DEF PipeInv, PipeStep

\* The receiver moves and the sender does not: the reader reads.
LEMMA ReceiverMovesPipe ==
  ASSUME PipeInv, SenderInv', FramesOK', ReceiverInv', rStart' >= rStart,
         ended => ended' /\ delivered' = delivered,
         UNCHANGED <<bufferStop, bufferFin, resetCalled>>
  PROVE  PipeInv' /\ PipeStep
<1>1. /\ bufferStop \in Nat /\ rStart \in Nat /\ rStart' \in Nat
      /\ Len(delivered) = rStart /\ Len(delivered') = rStart'
      /\ bufferFin \in {None, bufferStop}
  BY DEF PipeInv, SenderInv, SenderTypeOK, ReceiverInv, BufferInv, ReceiverTypeOK,
         DeliveredInOrder, FramesOK
<1>2. Len(delivered') \in Len(delivered)..bufferStop
  <2>1. Offsets(0, rStart') \subseteq Offsets(0, bufferStop)
    BY DEF ReceiverInv, Received
  <2>2. bufferStop \notin Offsets(0, bufferStop)
    BY <1>1 DEF Offsets
  <2>3. rStart' <= bufferStop
    BY <1>1, <2>1, <2>2, OffsetsGrow
  <2>4. QED
    BY <1>1, <2>3
<1>3. \A k \in 1..Len(delivered') : delivered'[k] = k - 1
  BY DEF ReceiverInv, BufferInv, DeliveredInOrder
<1>4. ended' => resetCalled \/ (bufferFin # None /\ Len(delivered') = bufferStop)
  <2>1. SUFFICES ASSUME ended', ~resetCalled
                 PROVE  bufferFin # None /\ rStart' = bufferStop
    BY <1>1
  <2>2. finalSize' = rStart' /\ finalSize' \in {NoSize, bufferFin}
    BY <2>1 DEF ReceiverInv
  <2>3. QED
    BY <1>1, <2>2 DEF NoSize, None
<1>5. QED
  BY <1>2, <1>3, <1>4 DEF PipeInv, PipeStep, Pipe!PipeRead

LEMMA PipeStepKeeps ==
  ASSUME PipeInv, [Next]_pipe
  PROVE  PipeInv' /\ (PipeStep \/ UNCHANGED Pipe!pipeVars)
<1>0. SenderInv /\ FramesOK /\ ReceiverInv
  BY DEF PipeInv
<1>1. CASE SenderSteps
  BY <1>1, SenderMovesPipe DEF SenderSteps, SenderMoves
<1>2. ASSUME NEW i \in inFlight, FrameReported(i)
      PROVE  SenderMoves /\ UNCHANGED receiverVars
  BY <1>2 DEF FrameReported, SenderMoves, Report
<1>3. ASSUME NEW i \in 1..stopsSent, StopArrives(i), ~(senderGone \/ resetCalled)
      PROVE  SenderMoves /\ UNCHANGED receiverVars
  BY <1>3 DEF StopArrives, SenderMoves
<1>4. ASSUME UNCHANGED senderVars
      PROVE  /\ SenderInv' /\ FramesOK'
             /\ UNCHANGED <<bufferStop, bufferFin, resetCalled>>
  <2>1. SenderInv'
    BY <1>0, <1>4, FlagStepKeeps
  <2>2. UNCHANGED <<bufferVars, resetVars, sent, highestOffset>>
    BY <1>4 DEF senderVars
  <2>3. FramesOK'
    BY <1>0, <2>2, SenderKeepsFrames
  <2>4. QED
    BY <2>1, <2>2, <2>3 DEF bufferVars, resetVars
<1>5. ASSUME UNCHANGED senderVars, UNCHANGED receiverVars
      PROVE  PipeInv' /\ UNCHANGED Pipe!pipeVars
  <2>1. /\ SenderInv' /\ FramesOK' /\ UNCHANGED <<bufferStop, bufferFin, resetCalled>>
    BY <1>4, <1>5
  <2>2. bufferStop' \in Nat /\ bufferStop' >= bufferStop
    BY <2>1 DEF SenderInv, SenderTypeOK
  <2>3. ReceiverInv'
    BY <1>0, <1>5, <2>1, <2>2, ReceiverStays
  <2>4. QED
    BY <1>5, <2>1, <2>3 DEF PipeInv, receiverVars, Pipe!pipeVars
<1>6. ASSUME NEW i \in 1..Len(sent), Arrive(i)
      PROVE  PipeInv' /\ PipeStep
  <2>1. SenderInv' /\ FramesOK' /\ UNCHANGED <<bufferStop, bufferFin, resetCalled>>
    BY <1>4, <1>6 DEF Arrive
  <2>2. CASE sent[i].kind = "data"
    <3>1. ReceiveData(sent[i].start, sent[i].data, sent[i].fin)
      BY <1>6, <2>2 DEF Arrive
    <3>2. /\ ReceiverInv' /\ rStart' >= rStart
          /\ ended => ended' /\ delivered' = delivered
      BY <1>0, <2>1, <2>2, <3>1, DataArrives
    <3>3. QED
      BY <2>1, <3>2, ReceiverMovesPipe
  <2>3. CASE sent[i].kind # "data"
    <3>1. ReceiveReset(sent[i].start)
      BY <1>6, <2>3 DEF Arrive
    <3>2. ReceiverInv' /\ UNCHANGED <<rStart, delivered, ended>>
      BY <1>0, <2>1, <2>3, <3>1, ReceiverFlags
    <3>3. rStart \in Nat
      BY <1>0 DEF ReceiverInv, BufferInv, ReceiverTypeOK
    <3>4. QED
      BY <2>1, <3>2, <3>3, ReceiverMovesPipe
  <2>4. QED
    BY <2>2, <2>3
<1>7. ASSUME DiscardReceiver \/ Stop \/ SendStop \/ StopLost, UNCHANGED senderVars
      PROVE  PipeInv' /\ PipeStep
  <2>1. SenderInv' /\ FramesOK' /\ UNCHANGED <<bufferStop, bufferFin, resetCalled>>
    BY <1>4, <1>7
  <2>2. ReceiverInv' /\ UNCHANGED <<rStart, delivered, ended>>
    BY <1>0, <1>7, <2>1, ReceiverFlags
  <2>3. rStart \in Nat
    BY <1>0 DEF ReceiverInv, BufferInv, ReceiverTypeOK
  <2>4. QED
    BY <2>1, <2>2, <2>3, ReceiverMovesPipe
<1>8. ASSUME NEW i \in stopsOpen, StopReported(i)
      PROVE  PipeInv' /\ (PipeStep \/ UNCHANGED Pipe!pipeVars)
  <2>1. CASE UNCHANGED <<senderVars, receiverVars>>
    BY <1>5, <2>1
  <2>2. CASE lost' = lost + 1 /\ StopLost
    <3>1. UNCHANGED <<bufferVars, pending, acked, pendingEof, highestOffset,
                      bufferIsEmpty, senderFinished, resetVars, senderGone, sent,
                      inFlight, confirmed>>
      BY <1>8, <2>2 DEF StopReported, senderVars, SenderInv, SenderTypeOK
    <3>2. SenderInv'
      <4>1. SenderFlagsOK'
        BY <1>0, <3>1 DEF SenderInv, SenderTypeOK, SenderFlagsOK, resetVars
      <4>2. SenderTypeOK'
        BY <1>0, <2>2, <3>1, <4>1 DEF SenderInv, SenderTypeOK, bufferVars
      <4>3. SenderAccounts'
        BY <1>0, <3>1 DEF SenderInv, SenderAccounts, FlightOffsets, FrameOffsets, bufferVars
      <4>4. QED
        BY <1>0, <3>1, <4>2, <4>3
           DEF SenderInv, BufferMatches, FramesCarryTheirBytes, EmptyHasNothingToSend,
               bufferVars
    <3>3. FramesOK' /\ UNCHANGED <<bufferStop, bufferFin, resetCalled>>
      <4>1. UNCHANGED <<bufferVars, resetVars, sent, highestOffset>>
        BY <3>1
      <4>2. QED
        BY <1>0, <4>1, SenderKeepsFrames DEF bufferVars, resetVars
    <3>4. ReceiverInv' /\ UNCHANGED <<rStart, delivered, ended>>
      BY <1>0, <2>2, <3>3, ReceiverFlags
    <3>5. rStart \in Nat
      BY <1>0 DEF ReceiverInv, BufferInv, ReceiverTypeOK
    <3>6. QED
      BY <3>2, <3>3, <3>4, <3>5, ReceiverMovesPipe
  <2>3. QED
    BY <1>8, <2>1, <2>2 DEF StopReported
<1>9. CASE ReceiverSteps \/ AppStops \/ StopLeaves
  BY <1>7, <1>9 DEF ReceiverSteps, AppStops, StopLeaves
<1>10. CASE \E i \in 1..stopsSent : StopArrives(i) /\ (senderGone \/ resetCalled)
  BY <1>5, <1>10 DEF StopArrives
<1>11. CASE UNCHANGED pipe
  BY <1>5, <1>11 DEF pipe
<1>12. QED
  BY <1>1, <1>2, <1>3, <1>6, <1>8, <1>9, <1>10, <1>11, SenderMovesPipe DEF Next

LEMMA PipeStarts == ASSUME Init PROVE PipeInv /\ Pipe!PipeInit
<1>1. SenderInv
  BY InitHasInv DEF Init
<1>2. FramesOK
  BY DEF Init, SenderInit, FramesOK
<1>3. ReceiverInv
  <2>1. BufferInv
    <3>1. /\ rStart = 0 /\ rBuffer = << >> /\ ranges = {} /\ finalSize = NoSize
          /\ receiverFinished = FALSE /\ stopPending = FALSE /\ receiverGone = FALSE
          /\ delivered = << >> /\ ended = FALSE
      BY DEF Init, ReceiverInit
    <3>2. << >> \in Seq(Nat \cup {Hole}) /\ Len(<< >>) = 0
      BY EmptySeq
    <3>3. ReceiverTypeOK
      BY <3>1, <3>2 DEF ReceiverTypeOK
    <3>4. DeliveredInOrder /\ BufferMatchesRanges
      BY <3>1, <3>2 DEF DeliveredInOrder, BufferMatchesRanges
    <3>5. QED
      BY <3>3, <3>4 DEF BufferInv
  <2>2. Received = {}
    BY DEF Init, ReceiverInit, Received, Offsets
  <2>3. QED
    BY <2>1, <2>2 DEF Init, ReceiverInit, ReceiverInv
<1>4. Pipe!PipeInit
  BY DEF Init, SenderInit, ReceiverInit, Pipe!PipeInit
<1>5. QED
  BY <1>1, <1>2, <1>3, <1>4 DEF PipeInv

\* The two endpoints keep PipeInv: the sender's accounts hold also when it is
\* told to stop, and the receiver has nothing that was not written.
THEOREM PipeInvHolds == Spec => []PipeInv
<1>1. PipeInv /\ [Next]_pipe => PipeInv'
  BY PipeStepKeeps
<1>2. QED
  BY <1>1, PipeStarts, PTL DEF Spec

\* The accounts of the sender hold on this network too, where the frames it is
\* told about and the STOP_SENDING frames of the peer come from the other end.
THEOREM PipeAccountsHolds == Spec => []SenderAccounts
<1>1. PipeInv => SenderAccounts
  BY DEF PipeInv, SenderInv
<1>2. QED
  BY <1>1, PipeInvHolds, PTL

\* Whatever the network loses, repeats and reorders and whoever gives up the
\* stream, the application reads what was written, in order and once, and the
\* end of the stream after the last byte: StreamPipe implements BytePipe.
THEOREM IsBytePipeHolds == Spec => IsBytePipe
<1>1. PipeInv /\ [Next]_pipe => [PipeStep]_(Pipe!pipeVars)
  BY PipeStepKeeps
<1>2. QED
  BY <1>1, PipeStarts, PipeInvHolds, PTL DEF Spec, IsBytePipe, Pipe!PipeSpec, PipeStep

----------------------------------------------------------------------------
\* Nothing is missing at the receiver.  All of it is about streams that are not
\* reset.

\* What has arrived is there, and so is what has been acknowledged.
ArrivedIsReceived ==
  \A i \in arrived : sent[i].kind = "data" =>
    /\ Offsets(sent[i].start, sent[i].stop) \subseteq Received
    /\ sent[i].fin => finalSize = bufferFin
AckedIsReceived == Offsets(0, bufferStart) \cup acked \subseteq Received

\* Once the end is known the buffer reaches up to it, and does so in vain only
\* while bytes are missing: the path that looks for the end is taken.
TailIsBuffered ==
  /\ rStart + Len(rBuffer) <= bufferStop
  /\ finalSize # NoSize /\ ~ended => rStart + Len(rBuffer) = finalSize /\ rStart < finalSize
FlagsAgree == (receiverFinished => ended) /\ (receiverGone => receiverFinished)

Complete == ArrivedIsReceived /\ AckedIsReceived /\ TailIsBuffered /\ FlagsAgree
CompleteInv ==
  /\ arrived \subseteq 1..Len(sent)
  /\ ~resetCalled => Complete

\* Frames that have been sent stay as they are.
LEMMA SentStays ==
  ASSUME SenderInv, SenderMoves \/ UNCHANGED sent
  PROVE  /\ 1..Len(sent) \subseteq 1..Len(sent')
         /\ \A i \in 1..Len(sent) : sent'[i] = sent[i]
<1>1. sent \in Seq(Frames) /\ inFlight \subseteq 1..Len(sent) /\ Len(sent) \in Nat
  BY LenProperties DEF SenderInv, SenderTypeOK
<1>2. ASSUME NEW f, f \in Frames, Send(f)
      PROVE  Len(sent') = Len(sent) + 1 /\ \A i \in 1..Len(sent) : sent'[i] = sent[i]
  BY <1>1, <1>2, SendKeeps
<1>3. sent' \in Seq(Frames) /\ (sent' = sent \/ \E f : Send(f))
  <2>1. sent' \in Seq(Frames)
    <3>1. CASE SenderMoves
      <4>1. CASE Reset
        BY <1>1, <4>1 DEF Reset
      <4>2. CASE ~Reset
        BY <3>1, <4>2, SenderStepKeeps DEF SenderMoves, SenderNext, SenderInv, SenderTypeOK
      <4>3. QED
        BY <4>1, <4>2
    <3>2. QED
      BY <1>1, <3>1
  <2>2. sent' = sent \/ \E f : Send(f)
    <3>1. CASE WritePacket
      BY <3>1 DEF WritePacket, SendData, SendFin, NothingToSend, SendReset
    <3>2. CASE UNCHANGED sent
      BY <3>2
    <3>3. CASE SenderMoves /\ ~WritePacket
      BY <3>3 DEF SenderMoves, Write, Reset, DiscardSender, Report, DataAcked, DataLost,
                  ResetAcked, ResetLost
    <3>4. QED
      BY <3>1, <3>2, <3>3
  <2>3. QED
    BY <2>1, <2>2
<1>4. CASE sent' = sent
  BY <1>4
<1>5. ASSUME NEW f, Send(f)
      PROVE  Len(sent') = Len(sent) + 1 /\ \A i \in 1..Len(sent) : sent'[i] = sent[i]
  <2>1. sent' = Append(sent, f)
    BY <1>5 DEF Send
  <2>2. QED
    BY <1>1, <2>1
<1>6. QED
  BY <1>1, <1>3, <1>4, <1>5

\* The network reports ACKED only what has arrived.
HonestMoves ==
  \/ \E size \in 0..MaxBytes, end \in BOOLEAN : Write(size, end)
  \/ Reset \/ WritePacket \/ DiscardSender
  \/ \E i \in inFlight : DataLost(i) \/ ResetAcked(i) \/ ResetLost(i)
  \/ \E i \in inFlight \cap arrived : DataAcked(i)

LEMMA HonestMove == HonestMoves => SenderMoves
BY DEF HonestMoves, SenderMoves, Report

\* A step of the sender drops nothing that has not been received.
LEMMA SenderKeepsComplete ==
  ASSUME PipeInv, CompleteInv, ~resetCalled', UNCHANGED receiverVars, arrived' = arrived,
         HonestMoves \/ UNCHANGED <<bufferVars, acked, resetVars, sent>>
  PROVE  Complete'
<1>0. /\ SenderInv /\ FramesOK /\ ReceiverInv /\ arrived \subseteq 1..Len(sent)
      /\ bufferStop \in Nat /\ bufferStart \in Nat /\ bufferStart <= bufferStop
  BY DEF PipeInv, CompleteInv, SenderInv, SenderTypeOK, BufferMatches
<1>1. /\ bufferStop' >= bufferStop /\ bufferStop' \in Nat
      /\ bufferFin = None \/ bufferFin' = bufferFin
      /\ ~resetCalled
  <2>1. CASE HonestMoves
    <3>0. SenderMoves
      BY <2>1, HonestMove
    <3>1. /\ SenderInv' /\ bufferStop' >= bufferStop
          /\ bufferFin = None \/ UNCHANGED <<bufferStop, bufferFin>>
      BY <1>0, <3>0, SenderMovesKeep
    <3>2. resetCalled' = resetCalled \/ resetCalled'
      BY <1>0, <3>0, SenderMovesKeep
    <3>3. ~resetCalled
      BY Zenon, <3>2
    <3>4. bufferStop' \in Nat
      BY <3>1 DEF SenderInv, SenderTypeOK
    <3>5. QED
      BY <3>1, <3>3, <3>4
  <2>2. CASE UNCHANGED <<bufferVars, acked, resetVars, sent>>
    BY <1>0, <2>2 DEF bufferVars, resetVars
  <2>3. QED
    BY <2>1, <2>2
<1>2. Complete
  BY <1>1 DEF CompleteInv
<1>3. /\ Received' = Received
      /\ UNCHANGED <<rStart, rBuffer, finalSize, ended, receiverFinished, receiverGone>>
  BY DEF receiverVars, Received
<1>4. ArrivedIsReceived'
  <2>1. ASSUME NEW i \in arrived, sent'[i].kind = "data"
        PROVE  /\ Offsets(sent'[i].start, sent'[i].stop) \subseteq Received
               /\ sent'[i].fin => finalSize = bufferFin'
    <3>1. i \in 1..Len(sent) /\ sent'[i] = sent[i]
      BY <1>0, SentStays, HonestMove
    <3>2. Offsets(sent[i].start, sent[i].stop) \subseteq Received
      BY <1>2, <2>1, <3>1 DEF Complete, ArrivedIsReceived
    <3>3. sent[i].fin => finalSize = bufferFin /\ bufferFin # None
      <4>1. sent[i] \in Frames
        BY <1>0, <3>1, ElementOfSeq DEF SenderInv, SenderTypeOK
      <4>2. sent[i].stop # None
        BY <4>1 DEF Frames, None
      <4>3. sent[i].fin => sent[i].stop = bufferFin
        BY <1>0, <3>1 DEF FramesOK, FrameOK
      <4>4. sent[i].fin => finalSize = bufferFin
        BY <1>2, <2>1, <3>1 DEF Complete, ArrivedIsReceived
      <4>5. QED
        BY <4>2, <4>3, <4>4
    <3>4. QED
      BY <1>1, <3>1, <3>2, <3>3
  <2>2. QED
    BY <1>3, <2>1 DEF ArrivedIsReceived
<1>5. Offsets(0, bufferStart') \cup acked' \subseteq Received
  <2>1. ASSUME NEW i \in inFlight \cap arrived, DataAcked(i)
        PROVE  Offsets(0, bufferStart') \cup acked' \subseteq Received
    <3>. DEFINE new == Offsets(sent[i].start, sent[i].stop)
    <3>1. /\ bufferStart' \in bufferStart..bufferStop
          /\ Offsets(bufferStart, bufferStart') \subseteq acked \cup new
          /\ acked' \subseteq acked \cup new
      BY <1>0, <2>1, AckedShift
    <3>2. new \subseteq Received
      BY <1>2, <2>1 DEF Complete, ArrivedIsReceived, DataAcked
    <3>3. Offsets(0, bufferStart) \cup acked \subseteq Received
      BY <1>2 DEF Complete, AckedIsReceived
    <3>. HIDE DEF new
    <3>4. Offsets(0, bufferStart') \subseteq
            Offsets(0, bufferStart) \cup Offsets(bufferStart, bufferStart')
      BY <1>0, <3>1, OffsetsSplit
    <3>5. QED
      BY <3>1, <3>2, <3>3, <3>4
  <2>2. CASE UNCHANGED <<bufferStart, acked>>
    BY <1>2, <2>2 DEF Complete, AckedIsReceived
  <2>3. CASE HonestMoves /\ ~\E i \in inFlight \cap arrived : DataAcked(i)
    <3>1. UNCHANGED <<bufferStart, acked>>
      BY <2>3 DEF HonestMoves, Write, Reset, WritePacket, SendData, SendFin, NothingToSend,
                  SendReset, DiscardSender, DataLost, ResetAcked, ResetLost, bufferVars
    <3>2. QED
      BY <2>2, <3>1
  <2>4. QED
    BY <2>1, <2>2, <2>3 DEF bufferVars
<1>6. AckedIsReceived'
  BY <1>3, <1>5 DEF AckedIsReceived
<1>7. TailIsBuffered'
  <2>1. rStart + Len(rBuffer) \in Nat
    BY <1>0, LenProperties DEF ReceiverInv, BufferInv, ReceiverTypeOK
  <2>2. QED
    BY <1>0, <1>1, <1>2, <1>3, <2>1 DEF Complete, TailIsBuffered
<1>8. FlagsAgree'
  BY <1>2, <1>3 DEF Complete, FlagsAgree
<1>9. QED
  BY <1>4, <1>6, <1>7, <1>8 DEF Complete

\* What a data frame that was sent says, and that one that is not taken holds
\* nothing new.
LEMMA DataFrameSays ==
  ASSUME SenderInv, FramesOK, NEW i \in 1..Len(sent), sent[i].kind = "data"
  PROVE  /\ sent[i].start \in Nat /\ sent[i].stop \in Nat /\ sent[i].start <= sent[i].stop
         /\ sent[i].fin \in BOOLEAN
         /\ sent[i].data = Stretch(sent[i].start, sent[i].stop)
         /\ sent[i].start + Len(sent[i].data) = sent[i].stop
         /\ sent[i].stop <= bufferStop /\ (sent[i].fin => sent[i].stop = bufferFin)
<1>1. sent[i] \in Frames
  BY ElementOfSeq DEF SenderInv, SenderTypeOK
<1>2. sent[i].start \in Nat /\ sent[i].stop \in Nat /\ sent[i].fin \in BOOLEAN
  BY <1>1 DEF Frames
<1>3. /\ sent[i].start <= sent[i].stop
      /\ sent[i].data = Stretch(sent[i].start, sent[i].stop)
  BY DEF SenderInv, FramesCarryTheirBytes, Stretch
<1>4. sent[i].stop <= bufferStop /\ (sent[i].fin => sent[i].stop = bufferFin)
  BY DEF FramesOK, FrameOK
<1>5. Len(sent[i].data) = sent[i].stop - sent[i].start
  BY <1>2, <1>3, StretchIs
<1>6. QED
  BY <1>2, <1>3, <1>4, <1>5

LEMMA TakenIsNew ==
  ASSUME PipeInv, Complete, ~resetCalled, NEW i \in 1..Len(sent), sent[i].kind = "data",
         ReceiveData(sent[i].start, sent[i].data, sent[i].fin)
  PROVE  \/ /\ UNCHANGED receiverVars
            /\ Offsets(sent[i].start, sent[i].stop) \subseteq Received
            /\ sent[i].fin => finalSize = bufferFin
         \/ /\ Took(sent[i].start, sent[i].stop, sent[i].fin)
            /\ finalSize # NoSize => sent[i].stop <= finalSize
<1>. DEFINE start == sent[i].start
            stop == sent[i].stop
            fin == sent[i].fin
            data == sent[i].data
<1>0. SenderInv /\ FramesOK /\ ReceiverInv /\ BufferInv
  BY DEF PipeInv, ReceiverInv
<1>1. /\ start \in Nat /\ stop \in Nat /\ start <= stop /\ fin \in BOOLEAN
      /\ data = Stretch(start, stop) /\ start + Len(data) = stop
      /\ stop <= bufferStop /\ (fin => stop = bufferFin)
  BY <1>0, DataFrameSays
<1>2. /\ bufferStop \in Nat /\ bufferFin \in {None, bufferStop} /\ rStart \in Nat
      /\ finalSize \in {NoSize, bufferFin} /\ finalSize \in Nat \cup {NoSize}
      /\ ended => finalSize = rStart
  BY <1>0 DEF SenderInv, SenderTypeOK, FramesOK, ReceiverInv, BufferInv, ReceiverTypeOK
<1>. HIDE DEF start, stop, fin
<1>3. CASE ReceiveIgnored(start, data, fin)
  <2>1. UNCHANGED receiverVars /\ (receiverGone \/ BreaksFinalSize(stop, fin))
    BY <1>1, <1>3 DEF ReceiveIgnored
  <2>2. ~BreaksFinalSize(stop, fin)
    BY <1>1, <1>2 DEF BreaksFinalSize, NoSize, None
  <2>3. ended
    BY <2>1, <2>2 DEF Complete, FlagsAgree
  <2>4. finalSize = bufferFin /\ bufferFin = bufferStop /\ rStart = bufferStop
    BY <1>2, <2>3 DEF NoSize, None
  <2>5. Offsets(start, stop) \subseteq Received
    BY <1>1, <1>2, <2>4 DEF Offsets, Received
  <2>6. QED
    BY <2>1, <2>4, <2>5 DEF start, stop, fin
<1>4. CASE ReceiveInOrder(start, data, fin) \/ ReceiveBuffered(start, data, fin)
  <2>1. Took(start, stop, fin)
    BY <1>0, <1>1, <1>4, InOrderTakes, BufferedTakes
  <2>2. ~BreaksFinalSize(stop, fin)
    BY <1>1, <1>4 DEF ReceiveInOrder, ReceiveBuffered
  <2>3. finalSize # NoSize => stop <= finalSize
    BY <1>1, <1>2, <2>2 DEF BreaksFinalSize
  <2>4. QED
    BY <2>1, <2>3 DEF start, stop, fin
<1>5. QED
  BY <1>3, <1>4 DEF ReceiveData, start, fin

LEMMA DataKeepsComplete ==
  ASSUME PipeInv, Complete, ~resetCalled, arrived \subseteq 1..Len(sent),
         NEW i \in 1..Len(sent), sent[i].kind = "data", Arrive(i)
  PROVE  Complete'
<1>. DEFINE start == sent[i].start
            stop == sent[i].stop
            fin == sent[i].fin
<1>0. SenderInv /\ FramesOK /\ ReceiverInv /\ BufferInv
  BY DEF PipeInv, ReceiverInv
<1>1. /\ start \in Nat /\ stop \in Nat /\ start <= stop /\ fin \in BOOLEAN
      /\ stop <= bufferStop /\ (fin => stop = bufferFin)
  BY <1>0, DataFrameSays
<1>2. /\ bufferStop \in Nat /\ bufferFin \in {None, bufferStop} /\ rStart \in Nat
      /\ finalSize \in Nat \cup {NoSize} /\ Len(rBuffer) \in Nat
      /\ finalSize \in {NoSize, bufferFin}
  BY <1>0, LenProperties
     DEF SenderInv, SenderTypeOK, FramesOK, ReceiverInv, BufferInv, ReceiverTypeOK
<1>3. /\ arrived' = arrived \cup {i}
      /\ UNCHANGED <<bufferStart, bufferStop, bufferFin, acked, sent>>
  BY DEF Arrive, senderVars, bufferVars
<1>4. ReceiveData(start, sent[i].data, fin)
  BY DEF Arrive
<1>5. \/ /\ UNCHANGED receiverVars
         /\ Offsets(start, stop) \subseteq Received
         /\ fin => finalSize = bufferFin
      \/ /\ Took(start, stop, fin)
         /\ finalSize # NoSize => stop <= finalSize
  BY <1>4, TakenIsNew
<1>. HIDE DEF start, stop, fin
<1>6. /\ Received \subseteq Received' /\ Offsets(start, stop) \subseteq Received'
      /\ fin => finalSize' = bufferFin
      /\ finalSize = bufferFin => finalSize' = bufferFin
  BY <1>1, <1>5 DEF Took, Received, receiverVars
<1>7. ArrivedIsReceived'
  <2>1. ASSUME NEW k \in arrived', sent[k].kind = "data"
        PROVE  /\ Offsets(sent[k].start, sent[k].stop) \subseteq Received'
               /\ sent[k].fin => finalSize' = bufferFin
    <3>1. CASE k = i
      BY <1>6, <3>1 DEF start, stop, fin
    <3>2. CASE k \in arrived
      BY <1>6, <2>1, <3>2 DEF Complete, ArrivedIsReceived
    <3>3. QED
      BY <1>3, <3>1, <3>2
  <2>2. QED
    BY <1>3, <2>1 DEF ArrivedIsReceived
<1>8. AckedIsReceived'
  BY <1>3, <1>6 DEF Complete, AckedIsReceived
<1>9. CASE UNCHANGED receiverVars
  <2>1. TailIsBuffered' /\ FlagsAgree'
    BY <1>3, <1>9 DEF Complete, TailIsBuffered, FlagsAgree, receiverVars
  <2>2. QED
    BY <1>7, <1>8, <2>1 DEF Complete
<1>10. CASE Took(start, stop, fin) /\ (finalSize # NoSize => stop <= finalSize)
  <2>1. /\ rStart' >= rStart
        /\ rStart' + Len(rBuffer') =
             IF rStart + Len(rBuffer) >= stop THEN rStart + Len(rBuffer) ELSE stop
        /\ finalSize' = IF fin THEN stop ELSE finalSize
        /\ rStart' = finalSize' => ended' \/ (rBuffer = << >> /\ ~fin)
    BY <1>10 DEF Took
  <2>2. ended => ended'
    BY <1>10 DEF Took
  <2>3. FlagsAgree'
    BY <1>10 DEF Took, Complete, FlagsAgree
  <2>4. rStart' \in Nat /\ Len(rBuffer') \in Nat
    <3>1. BufferInv'
      <4>1. sent[i].kind = "data" /\ UNCHANGED <<bufferStop, bufferFin, resetCalled>>
        BY DEF Arrive, senderVars, bufferVars, resetVars
      <4>2. ReceiverInv'
        BY <1>0, <1>4, <4>1, DataArrives DEF start, fin
      <4>3. QED
        BY <4>2 DEF ReceiverInv
    <3>2. QED
      BY <3>1, LenProperties DEF BufferInv, ReceiverTypeOK
  <2>5. rStart + Len(rBuffer) <= bufferStop
    BY DEF Complete, TailIsBuffered
  <2>6. rStart' + Len(rBuffer') <= bufferStop
    BY <1>1, <1>2, <2>1, <2>5
  <2>7. ASSUME finalSize' # NoSize, ~ended'
        PROVE  rStart' + Len(rBuffer') = finalSize' /\ rStart' < finalSize'
    <3>1. ~ended
      BY <2>2, <2>7
    <3>2. finalSize # NoSize => rStart + Len(rBuffer) = finalSize /\ rStart < finalSize
      BY <3>1 DEF Complete, TailIsBuffered
    <3>3. rStart' + Len(rBuffer') = finalSize'
      <4>1. CASE fin
        <5>1. stop = bufferStop /\ finalSize' = stop
          BY <1>1, <1>2, <2>1, <4>1 DEF None
        <5>2. QED
          BY <1>1, <1>2, <2>1, <2>5, <5>1
      <4>2. CASE ~fin
        <5>1. finalSize' = finalSize /\ stop <= finalSize /\ rStart + Len(rBuffer) = finalSize
          BY <1>10, <2>1, <2>7, <3>2, <4>2
        <5>2. QED
          BY <1>1, <1>2, <2>1, <5>1
      <4>3. QED
        BY <4>1, <4>2
    <3>4. rStart' # finalSize'
      <4>1. SUFFICES ASSUME rStart' = finalSize' PROVE FALSE
        OBVIOUS
      <4>2. rBuffer = << >> /\ ~fin
        BY <2>1, <2>7, <4>1
      <4>3. finalSize # NoSize /\ Len(rBuffer) = 0
        BY <2>1, <2>7, <4>2, EmptySeq
      <4>4. QED
        BY <1>2, <3>2, <4>3
    <3>5. QED
      BY <2>4, <3>3, <3>4
  <2>8. TailIsBuffered'
    BY <1>3, <2>6, <2>7 DEF TailIsBuffered
  <2>9. QED
    BY <1>7, <1>8, <2>3, <2>8 DEF Complete
<1>11. QED
  BY <1>5, <1>9, <1>10

LEMMA FlagsKeepComplete ==
  ASSUME Complete, UNCHANGED <<arrived, sent, bufferVars, acked>>,
         DiscardReceiver \/ Stop \/ SendStop \/ StopLost
  PROVE  Complete'
<1>1. UNCHANGED <<rStart, rBuffer, ranges, finalSize, receiverFinished, ended>>
  BY DEF DiscardReceiver, Stop, SendStop, StopLost
<1>2. Received' = Received /\ UNCHANGED <<bufferStart, bufferStop, bufferFin>>
  BY <1>1 DEF Received, bufferVars
<1>3. ArrivedIsReceived' /\ AckedIsReceived'
  BY <1>1, <1>2 DEF Complete, ArrivedIsReceived, AckedIsReceived
<1>4. TailIsBuffered'
  BY <1>1, <1>2 DEF Complete, TailIsBuffered
<1>5. receiverGone' => receiverGone \/ receiverFinished
  BY DEF DiscardReceiver, Stop, SendStop, StopLost
<1>6. FlagsAgree'
  BY <1>1, <1>5 DEF Complete, FlagsAgree
<1>7. QED
  BY <1>3, <1>4, <1>6 DEF Complete

\* Unless the end was written apart from the last byte, who has received that
\* byte has been told the end, and a sender is done only when the end was read.
OpenFrames ==
  bufferFin = None =>
    \A i \in 1..Len(sent) : sent[i].kind = "data" => sent[i].start < sent[i].stop
LastIsSent ==
  bufferStop - 1 \in Received =>
    \E i \in 1..Len(sent) : sent[i].kind = "data" /\ sent[i].stop = bufferStop
EndIsTold == bufferFin # None /\ bufferFin - 1 \in Received => finalSize = bufferFin
DoneIsEnded == senderFinished => ended

Marked == OpenFrames /\ LastIsSent /\ (EndApart \/ (EndIsTold /\ DoneIsEnded))
MarkedInv == ~resetCalled => Marked

\* A step that touches none of it.
LEMMA MarkedStays ==
  ASSUME Marked, UNCHANGED <<sent, bufferStop, bufferFin, senderFinished, rStart, ranges,
                             finalSize, ended>>
  PROVE  Marked'
<1>1. Received' = Received
  BY DEF Received
<1>2. OpenFrames' /\ LastIsSent' /\ (EndApart => EndApart')
  BY <1>1 DEF Marked, OpenFrames, LastIsSent, EndApart
<1>3. EndIsTold /\ DoneIsEnded => EndIsTold' /\ DoneIsEnded'
  BY <1>1 DEF EndIsTold, DoneIsEnded
<1>4. QED
  BY <1>2, <1>3 DEF Marked

\* A step that sends a frame.
LEMMA MarkedGrows ==
  ASSUME SenderInv, Marked, NEW f \in Frames, Send(f), f.kind = "data",
         f.start < f.stop \/ bufferFin # None,
         UNCHANGED <<bufferStop, bufferFin, senderFinished, rStart, ranges, finalSize, ended>>
  PROVE  Marked'
<1>1. /\ Len(sent') = Len(sent) + 1 /\ sent'[Len(sent) + 1] = f /\ Len(sent) \in Nat
      /\ \A i \in 1..Len(sent) : sent'[i] = sent[i]
  BY SendKeeps, LenProperties DEF SenderInv, SenderTypeOK
<1>2. ASSUME NEW i \in 1..Len(sent'), sent'[i].kind = "data", bufferFin = None
      PROVE  sent'[i].start < sent'[i].stop
  <2>1. CASE i \in 1..Len(sent)
    BY <1>1, <1>2, <2>1 DEF Marked, OpenFrames
  <2>2. CASE i = Len(sent) + 1
    BY <1>1, <1>2, <2>2
  <2>3. QED
    BY <1>1, <2>1, <2>2
<1>3. OpenFrames'
  BY <1>2 DEF OpenFrames
<1>4. Received' = Received
  BY DEF Received
<1>5. LastIsSent'
  BY <1>1, <1>4 DEF Marked, LastIsSent
<1>6. EndApart => EndApart'
  BY <1>1 DEF EndApart
<1>7. EndIsTold /\ DoneIsEnded => EndIsTold' /\ DoneIsEnded'
  BY <1>4 DEF EndIsTold, DoneIsEnded
<1>8. QED
  BY <1>3, <1>5, <1>6, <1>7 DEF Marked

LEMMA WriteKeepsMarked ==
  ASSUME PipeInv, Marked, UNCHANGED receiverVars,
         NEW size \in 0..MaxBytes, NEW end \in BOOLEAN, Write(size, end)
  PROVE  Marked'
<1>0. SenderInv /\ FramesOK /\ ReceiverInv /\ bufferStop \in Nat /\ size \in Nat
  BY SenderAssumption DEF PipeInv, SenderInv, SenderTypeOK
<1>1. /\ bufferFin = None /\ sent' = sent /\ senderFinished' = senderFinished
      /\ bufferFin' = IF end THEN bufferStop + size ELSE None
      /\ bufferStop' = bufferStop + size
  BY DEF Write
<1>2. /\ Received' = Received /\ UNCHANGED <<finalSize, ended>>
      /\ Received \subseteq Offsets(0, bufferStop)
  BY <1>0 DEF Received, receiverVars, ReceiverInv
<1>3. ASSUME NEW i \in 1..Len(sent), sent[i].kind = "data"
      PROVE  ~sent[i].fin /\ sent[i].stop # bufferFin
  <2>1. sent[i].stop \in Nat /\ (sent[i].fin => sent[i].stop = bufferFin)
    BY <1>0, <1>3, DataFrameSays
  <2>2. QED
    BY <1>1, <2>1 DEF None
<1>4. OpenFrames'
  BY <1>1 DEF Marked, OpenFrames
<1>5. bufferStop' - 1 \in Received => bufferStop' = bufferStop
  BY <1>0, <1>1, <1>2 DEF Offsets
<1>6. LastIsSent'
  BY <1>1, <1>2, <1>5 DEF Marked, LastIsSent
<1>7. ~EndApart
  BY <1>3 DEF EndApart
<1>8. DoneIsEnded'
  BY <1>1, <1>2, <1>7 DEF Marked, DoneIsEnded
<1>9. ASSUME bufferFin' # None, bufferFin' - 1 \in Received PROVE EndApart'
  <2>1. bufferFin' = bufferStop' /\ bufferStop' = bufferStop
    BY <1>1, <1>5, <1>9
  <2>2. PICK i \in 1..Len(sent) : sent[i].kind = "data" /\ sent[i].stop = bufferStop
    BY <1>9, <2>1 DEF Marked, LastIsSent
  <2>3. QED
    BY <1>1, <1>3, <2>1, <2>2 DEF EndApart
<1>10. EndApart' \/ EndIsTold'
  BY <1>2, <1>9 DEF EndIsTold
<1>11. QED
  BY <1>4, <1>6, <1>8, <1>10 DEF Marked

\* The sender is done when the start of its buffer reaches the end of the stream.
\* Then everything has arrived, and a frame with the FIN bit among it.
LEMMA AckKeepsMarked ==
  ASSUME PipeInv, Complete, Complete', Marked, ~resetCalled, UNCHANGED receiverVars,
         NEW i \in inFlight, i \in arrived, DataAcked(i)
  PROVE  Marked'
<1>0. /\ SenderInv /\ SenderInv' /\ FramesOK /\ ReceiverInv /\ i \in 1..Len(sent)
      /\ sent[i].kind = "data"
      /\ bufferStart \in Nat /\ bufferStop \in Nat /\ bufferFin \in {None, bufferStop}
      /\ rStart \in Nat /\ rStart \notin ranges
      /\ finalSize \in {NoSize, bufferFin}
  <2>1. SenderInv'
    BY DataAckedKeeps DEF PipeInv
  <2>2. QED
    BY <2>1 DEF PipeInv, SenderInv, SenderTypeOK, FramesOK, ReceiverInv, BufferInv,
                ReceiverTypeOK, BufferMatchesRanges, DataAcked
<1>1. /\ Received' = Received
      /\ UNCHANGED <<rStart, rBuffer, ranges, finalSize, ended>>
      /\ UNCHANGED <<sent, bufferFin, bufferStop>>
      /\ senderFinished' = (senderFinished \/ bufferStart' = bufferFin)
  BY DEF Received, receiverVars, DataAcked
<1>2. bufferStart' \in Nat
  BY <1>0 DEF SenderInv, SenderTypeOK
<1>3. ASSUME bufferStart' = bufferFin, ~EndApart PROVE ended
  <2>0. EndIsTold /\ (sent[i].stop = bufferFin => sent[i].fin)
    BY <1>0, <1>3 DEF Marked, EndApart
  <2>1. bufferFin = bufferStop /\ bufferFin \in Nat
    BY <1>0, <1>2, <1>3 DEF None
  <2>2. Offsets(0, bufferFin) \subseteq Received
    BY <1>1, <1>3 DEF Complete, AckedIsReceived
  <2>3. rStart \notin Offsets(0, bufferFin)
    BY <1>0, <2>2 DEF Received, Offsets
  <2>4. bufferFin <= rStart
    BY <1>0, <2>1, <2>3, OffsetsGrow
  <2>5. finalSize = bufferFin
    <3>1. CASE bufferFin = 0
      <4>1. sent[i].stop = bufferFin
        BY <1>0, <2>1, <3>1, DataFrameSays
      <4>2. sent[i].fin
        BY <2>0, <4>1
      <4>3. QED
        BY <1>0, <4>2 DEF Complete, ArrivedIsReceived
    <3>2. CASE bufferFin # 0
      <4>1. bufferFin - 1 \in Offsets(0, bufferFin)
        BY <2>1, <3>2 DEF Offsets
      <4>2. bufferFin # None
        BY <2>1 DEF None
      <4>3. QED
        BY <2>0, <2>2, <4>1, <4>2 DEF EndIsTold
    <3>3. QED
      BY <3>1, <3>2
  <2>6. finalSize # NoSize /\ ~(rStart < finalSize)
    BY <1>0, <2>1, <2>4, <2>5 DEF NoSize
  <2>7. QED
    BY <2>6 DEF Complete, TailIsBuffered
<1>4. OpenFrames' /\ LastIsSent' /\ (EndApart => EndApart')
  BY <1>1 DEF Marked, OpenFrames, LastIsSent, EndApart
<1>5. ~EndApart => EndIsTold' /\ DoneIsEnded'
  BY <1>1, <1>3 DEF Marked, EndIsTold, DoneIsEnded
<1>6. QED
  BY <1>4, <1>5 DEF Marked

LEMMA SenderKeepsMarked ==
  ASSUME PipeInv, CompleteInv, Complete', Marked, ~resetCalled, ~resetCalled',
         UNCHANGED receiverVars, HonestMoves
  PROVE  Marked'
<1>0. /\ SenderInv /\ FramesOK /\ Complete
      /\ bufferStop \in Nat /\ bufferStart \in Nat /\ bufferFin \in {None, bufferStop}
      /\ UNCHANGED <<rStart, ranges, finalSize, ended>>
      /\ (resetPending => resetCalled)
  BY DEF PipeInv, CompleteInv, SenderInv, SenderTypeOK, FramesOK, receiverVars
<1>1. ASSUME NEW stop \in 1..MaxBytes, SendData(stop)
      PROVE  Marked'
  <2>. DEFINE start == First(pending)
              f == DataFrame(start, stop, EndsStream(stop), Slice(start, stop))
  <2>1. Send(f) /\ start < stop /\ UNCHANGED <<bufferStop, bufferFin, senderFinished>>
    <3>1. stop \in Nat /\ pending \in SUBSET Nat /\ pending # {} /\ stop > start
      BY <1>0, <1>1, SenderAssumption DEF SendData, SenderInv, SenderTypeOK
    <3>2. start \in pending
      BY <3>1, FirstIsLeast
    <3>3. Send(f) /\ UNCHANGED <<bufferStop, bufferFin, senderFinished>>
      BY <1>1 DEF SendData, bufferVars
    <3>. HIDE DEF f, start
    <3>4. QED
      BY <3>1, <3>2, <3>3
  <2>2. /\ f.kind = "data" /\ f.start = start /\ f.stop = stop /\ f.fin = EndsStream(stop)
    BY DEF DataFrame
  <2>3. f \in Frames
    <3>1. SenderInv'
      BY <1>0, SenderMovesKeep, HonestMove
    <3>2. sent' = Append(sent, f) /\ sent \in Seq(Frames) /\ sent' \in Seq(Frames)
      BY <1>0, <2>1, <3>1 DEF Send, SenderInv, SenderTypeOK
    <3>. HIDE DEF f
    <3>3. Len(sent') = Len(sent) + 1 /\ sent'[Len(sent) + 1] = f /\ Len(sent) \in Nat
      BY <3>2
    <3>4. QED
      BY <3>2, <3>3, ElementOfSeq
  <2>. HIDE DEF f, start
  <2>4. QED
    BY <1>0, <2>1, <2>2, <2>3, MarkedGrows
<1>2. ASSUME SendFin PROVE Marked'
  <2>. DEFINE f == DataFrame(bufferFin, bufferFin, TRUE, << >>)
  <2>1. UNCHANGED <<bufferStop, bufferFin, senderFinished>>
    BY <1>2 DEF SendFin, bufferVars
  <2>2. bufferFin # None /\ bufferFin \in Nat
    BY <1>0, <1>2 DEF SendFin, SenderInv
  <2>3. f \in Frames /\ f.kind = "data" /\ f.fin
    BY <2>2 DEF DataFrame, Frames
  <2>. HIDE DEF f
  <2>4. CASE Send(f)
    BY <1>0, <2>1, <2>2, <2>3, <2>4, MarkedGrows
  <2>5. CASE UNCHANGED <<sent, inFlight>>
    BY <1>0, <2>1, <2>5, MarkedStays
  <2>6. QED
    BY <1>2, <2>4, <2>5 DEF SendFin, f
<1>3. ASSUME NEW i \in inFlight, sent[i].kind = "reset" PROVE FALSE
  <2>1. i \in 1..Len(sent)
    BY <1>0 DEF SenderInv, SenderTypeOK
  <2>2. QED
    BY <1>0, <1>3, <2>1 DEF FramesOK, FrameOK
<1>4. ~SendReset /\ \A i \in inFlight : ~ResetAcked(i) /\ ~ResetLost(i)
  BY <1>0, <1>3 DEF SendReset, ResetAcked, ResetLost
<1>5. ~Reset
  BY DEF Reset
<1>6. ASSUME \/ NothingToSend \/ DiscardSender
             \/ \E i \in inFlight : DataLost(i)
      PROVE  Marked'
  <2>1. UNCHANGED <<sent, bufferStop, bufferFin, senderFinished>>
    BY <1>6 DEF NothingToSend, DiscardSender, DataLost, bufferVars
  <2>2. QED
    BY <1>0, <2>1, MarkedStays
<1>7. QED
  BY <1>0, <1>1, <1>2, <1>4, <1>5, <1>6, WriteKeepsMarked, AckKeepsMarked
     DEF HonestMoves, WritePacket

\* A frame that arrives tells of the end when it reaches it.
LEMMA DataKeepsMarked ==
  ASSUME PipeInv, Complete, Marked, ~resetCalled, NEW i \in 1..Len(sent),
         sent[i].kind = "data", Arrive(i)
  PROVE  Marked'
<1>. DEFINE start == sent[i].start
            stop == sent[i].stop
            fin == sent[i].fin
<1>0. SenderInv /\ FramesOK /\ ReceiverInv
  BY DEF PipeInv
<1>1. /\ start \in Nat /\ stop \in Nat /\ stop <= bufferStop
      /\ bufferStop \in Nat /\ bufferFin \in {None, bufferStop}
      /\ finalSize \in {NoSize, bufferFin}
      /\ fin => stop = bufferFin
  BY <1>0, DataFrameSays
     DEF SenderInv, SenderTypeOK, FramesOK, ReceiverInv
<1>2. UNCHANGED <<sent, bufferStop, bufferFin, senderFinished>>
  BY DEF Arrive, senderVars, bufferVars
<1>3. CASE UNCHANGED receiverVars
  BY <1>2, <1>3, MarkedStays DEF receiverVars
<1>4. CASE Took(start, stop, fin)
  <2>1. OpenFrames' /\ (EndApart => EndApart')
    BY <1>2 DEF Marked, OpenFrames, EndApart
  <2>2. DoneIsEnded => DoneIsEnded'
    BY <1>2, <1>4 DEF Took, DoneIsEnded
  <2>3. Received' = Received \cup Offsets(start, stop)
        /\ finalSize' = IF fin THEN stop ELSE finalSize
    BY <1>4 DEF Took
  <2>4. ~EndApart => (stop = bufferFin => fin)
    BY DEF EndApart
  <2>5. LastIsSent'
    <3>1. ASSUME bufferStop - 1 \in Offsets(start, stop)
          PROVE  \E k \in 1..Len(sent) : sent[k].kind = "data" /\ sent[k].stop = bufferStop
      BY <1>1, <3>1 DEF Offsets
    <3>2. QED
      BY <1>2, <2>3, <3>1 DEF Marked, LastIsSent
  <2>. HIDE DEF start, stop, fin
  <2>6. ASSUME ~EndApart, bufferFin # None, bufferFin - 1 \in Received'
        PROVE  finalSize' = bufferFin
    <3>1. CASE bufferFin - 1 \in Received
      BY <1>1, <2>3, <2>6, <3>1 DEF Marked, EndIsTold
    <3>2. CASE bufferFin - 1 \in Offsets(start, stop)
      <4>1. stop = bufferFin
        BY <1>1, <2>6, <3>2 DEF Offsets
      <4>2. QED
        BY <1>1, <2>3, <2>4, <2>6, <4>1
    <3>3. QED
      BY <2>3, <2>6, <3>1, <3>2
  <2>7. ~EndApart => EndIsTold'
    BY <1>2, <2>6 DEF EndIsTold
  <2>8. QED
    BY <2>1, <2>2, <2>5, <2>7 DEF Marked
<1>5. QED
  <2>1. ReceiveData(start, sent[i].data, fin)
    BY DEF Arrive
  <2>2. QED
    BY <1>3, <1>4, <2>1, TakenIsNew

LEMMA FlagsKeepMarked ==
  ASSUME Marked, UNCHANGED <<sent, bufferVars, senderFinished>>,
         DiscardReceiver \/ Stop \/ SendStop \/ StopLost
  PROVE  Marked'
<1>1. UNCHANGED <<rStart, ranges, finalSize, ended, bufferStop, bufferFin>>
  BY DEF DiscardReceiver, Stop, SendStop, StopLost, bufferVars
<1>2. QED
  BY <1>1, MarkedStays

\* Every step keeps both.
LEMMA CompleteStepKeeps ==
  ASSUME PipeInv, CompleteInv, [Next]_pipe
  PROVE  CompleteInv' /\ (MarkedInv => MarkedInv')
<1>0. SenderInv /\ FramesOK /\ ReceiverInv /\ arrived \subseteq 1..Len(sent)
  BY DEF PipeInv, CompleteInv
<1>1. ASSUME UNCHANGED receiverVars, arrived' = arrived, HonestMoves
      PROVE  CompleteInv' /\ (MarkedInv => MarkedInv')
  <2>1. arrived' \subseteq 1..Len(sent')
    BY <1>0, <1>1, SentStays, HonestMove
  <2>2. resetCalled => resetCalled'
    <3>1. resetCalled' = resetCalled \/ resetCalled'
      BY <1>0, <1>1, SenderMovesKeep, HonestMove
    <3>2. QED
      BY Zenon, <3>1
  <2>3. ~resetCalled' => Complete'
    BY <1>1, SenderKeepsComplete
  <2>4. MarkedInv /\ ~resetCalled' => Marked'
    BY <1>1, <2>2, <2>3, SenderKeepsMarked DEF MarkedInv
  <2>5. QED
    BY <2>1, <2>3, <2>4 DEF CompleteInv, MarkedInv
<1>2. ASSUME UNCHANGED receiverVars, arrived' = arrived,
             UNCHANGED <<bufferVars, acked, resetVars, sent, senderFinished>>
      PROVE  CompleteInv' /\ (MarkedInv => MarkedInv')
  <2>1. arrived' \subseteq 1..Len(sent') /\ resetCalled' = resetCalled
    BY <1>0, <1>2 DEF resetVars
  <2>2. ~resetCalled' => Complete'
    BY <1>2, SenderKeepsComplete
  <2>3. Marked => Marked'
    BY <1>2, MarkedStays DEF bufferVars, receiverVars
  <2>4. QED
    BY <2>1, <2>2, <2>3 DEF CompleteInv, MarkedInv
<1>3. ASSUME DiscardReceiver \/ Stop \/ SendStop \/ StopLost, arrived' = arrived,
             UNCHANGED <<bufferVars, acked, resetVars, sent, senderFinished>>
      PROVE  CompleteInv' /\ (MarkedInv => MarkedInv')
  <2>1. arrived' \subseteq 1..Len(sent') /\ resetCalled' = resetCalled
    BY <1>0, <1>3 DEF resetVars
  <2>2. Complete => Complete'
    BY <1>3, FlagsKeepComplete
  <2>3. Marked => Marked'
    BY <1>3, FlagsKeepMarked
  <2>4. QED
    BY <2>1, <2>2, <2>3 DEF CompleteInv, MarkedInv
<1>4. ASSUME NEW i \in 1..Len(sent), Arrive(i)
      PROVE  CompleteInv' /\ (MarkedInv => MarkedInv')
  <2>1. arrived' \subseteq 1..Len(sent') /\ resetCalled' = resetCalled
    BY <1>0, <1>4 DEF Arrive, senderVars, resetVars
  <2>2. CASE sent[i].kind = "data"
    <3>1. ~resetCalled => Complete'
      BY <1>0, <1>4, <2>2, DataKeepsComplete DEF CompleteInv
    <3>2. ~resetCalled /\ Marked => Marked'
      BY <1>4, <2>2, DataKeepsMarked DEF CompleteInv
    <3>3. QED
      BY <2>1, <3>1, <3>2 DEF CompleteInv, MarkedInv
  <2>3. CASE sent[i].kind # "data"
    <3>0. sent[i] \in Frames
      BY <1>0, ElementOfSeq DEF SenderInv, SenderTypeOK
    <3>1. sent[i].kind = "reset"
      BY <2>3, <3>0 DEF Frames
    <3>2. resetCalled
      BY <1>0, <3>1 DEF FramesOK, FrameOK
    <3>3. QED
      BY <2>1, <3>2 DEF CompleteInv, MarkedInv
  <2>4. QED
    BY <2>2, <2>3
<1>5. CASE SenderSteps
  BY <1>1, <1>5 DEF SenderSteps, HonestMoves, networkVars
<1>6. ASSUME NEW i \in inFlight, FrameReported(i)
      PROVE  CompleteInv' /\ (MarkedInv => MarkedInv')
  <2>1. HonestMoves /\ UNCHANGED receiverVars /\ arrived' = arrived
    BY <1>6 DEF FrameReported, HonestMoves, networkVars
  <2>2. QED
    BY <1>1, <2>1
<1>7. ASSUME NEW i \in 1..stopsSent, StopArrives(i)
      PROVE  CompleteInv' /\ (MarkedInv => MarkedInv')
  <2>1. CASE Reset
    BY <1>1, <1>7, <2>1 DEF StopArrives, HonestMoves
  <2>2. CASE UNCHANGED senderVars
    BY <1>2, <1>7, <2>2 DEF StopArrives, senderVars
  <2>3. QED
    BY <1>7, <2>1, <2>2 DEF StopArrives
<1>8. ASSUME NEW i \in stopsOpen, StopReported(i)
      PROVE  CompleteInv' /\ (MarkedInv => MarkedInv')
  <2>1. /\ UNCHANGED <<bufferVars, acked, resetVars, sent, senderFinished>>
        /\ arrived' = arrived
        /\ UNCHANGED receiverVars \/ StopLost
    BY <1>8 DEF StopReported, senderVars
  <2>2. QED
    BY <1>2, <1>3, <2>1
<1>9. CASE ReceiverSteps \/ AppStops \/ StopLeaves
  <2>1. /\ UNCHANGED <<bufferVars, acked, resetVars, sent, senderFinished>>
        /\ arrived' = arrived
        /\ DiscardReceiver \/ Stop \/ SendStop
    BY <1>9 DEF ReceiverSteps, AppStops, StopLeaves, senderVars, networkVars
  <2>2. QED
    BY <1>3, <2>1
<1>10. CASE UNCHANGED pipe
  <2>1. /\ UNCHANGED <<bufferVars, acked, resetVars, sent, senderFinished>>
        /\ arrived' = arrived /\ UNCHANGED receiverVars
    BY <1>10 DEF pipe, senderVars, networkVars
  <2>2. QED
    BY <1>2, <2>1
<1>11. QED
  BY <1>4, <1>5, <1>6, <1>7, <1>8, <1>9, <1>10 DEF Next

LEMMA CompleteStarts == ASSUME Init PROVE CompleteInv /\ MarkedInv
<1>1. /\ rStart = 0 /\ rBuffer = << >> /\ ranges = {} /\ finalSize = NoSize
      /\ receiverFinished = FALSE /\ receiverGone = FALSE
      /\ bufferStart = 0 /\ bufferStop = 0 /\ bufferFin = None /\ acked = {}
      /\ sent = << >> /\ senderFinished = FALSE /\ arrived = {}
  BY DEF Init, SenderInit, ReceiverInit
<1>2. Len(<< >>) = 0 /\ Offsets(0, 0) = {} /\ 1..0 = {}
  BY EmptySeq DEF Offsets
<1>3. Complete
  BY <1>1, <1>2
     DEF Complete, ArrivedIsReceived, AckedIsReceived, TailIsBuffered, FlagsAgree
<1>4. Marked
  BY <1>1, <1>2 DEF Marked, OpenFrames, LastIsSent, EndIsTold, DoneIsEnded, Received, Offsets
<1>5. QED
  BY <1>1, <1>3, <1>4 DEF CompleteInv, MarkedInv

\* What the sender has dropped from its buffer has been received, as long as
\* nobody gives up the stream.
THEOREM DroppedWasReceivedHolds == Spec => []DroppedWasReceived
<1>1. Init => PipeInv /\ CompleteInv
  BY PipeStarts, CompleteStarts
<1>2. PipeInv /\ CompleteInv /\ [Next]_pipe => (PipeInv /\ CompleteInv)'
  BY PipeStepKeeps, CompleteStepKeeps
<1>3. PipeInv /\ CompleteInv => DroppedWasReceived
  <2>1. SUFFICES ASSUME PipeInv, CompleteInv, ~resetCalled, NEW k \in 0..(bufferStart - 1)
                 PROVE  k < rStart \/ k \in ranges
    BY DEF DroppedWasReceived
  <2>2. k \in Received
    <3>1. Offsets(0, bufferStart) \subseteq Received
      BY <2>1 DEF CompleteInv, Complete, AckedIsReceived
    <3>2. k \in Offsets(0, bufferStart)
      BY <2>1 DEF Offsets
    <3>3. QED
      BY <3>1, <3>2
  <2>3. rStart \in Nat
    BY <2>1 DEF PipeInv, ReceiverInv, BufferInv, ReceiverTypeOK
  <2>4. QED
    BY <2>2, <2>3 DEF Received, Offsets
<1>4. QED
  BY <1>1, <1>2, <1>3, PTL DEF Spec

\* A sender that is done has left nothing out: the reader has been told the end
\* of the stream, unless that end was written after the last byte had left.
THEOREM FinishedMeansReceivedHolds == Spec => []FinishedMeansReceived
<1>. DEFINE Inv == PipeInv /\ CompleteInv /\ MarkedInv
<1>1. Init => Inv
  BY PipeStarts, CompleteStarts
<1>2. Inv /\ [Next]_pipe => Inv'
  BY PipeStepKeeps, CompleteStepKeeps
<1>3. Inv => FinishedMeansReceived
  BY DEF MarkedInv, Marked, DoneIsEnded, FinishedMeansReceived
<1>. HIDE DEF Inv
<1>4. QED
  BY <1>1, <1>2, <1>3, PTL DEF Spec
====
