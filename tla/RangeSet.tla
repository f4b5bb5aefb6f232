---- MODULE RangeSet ----
(***************************************************************************)
(* Sets of numbers kept as lists of ranges (quic/rangeset.py), the ACK     *)
(* frame made from one and read back (quic/packet.py), and the recovery of *)
(* a packet number from its last bits.                                     *)
(*                                                                         *)
(* A range covers start..stop-1.  A list is in ascending order and its     *)
(* ranges do not touch.  The delay in an ACK frame is left out.            *)
(***************************************************************************)
EXTENDS Integers, SequencesExt

Run(start, stop) == [start |-> start, stop |-> stop]
Smaller(a, b) == IF a < b THEN a ELSE b
Larger(a, b) == IF a < b THEN b ELSE a

\* The numbers a list covers: the reference its operations are compared with.
Covered(ranges) == UNION {ranges[i].start..(ranges[i].stop - 1) : i \in DOMAIN ranges}
----
\* add(): where the ranges that start reaches begin, and what is put there instead
\* of the ranges i..k.  A range that is reached grows the new one.
FirstFrom(ranges, start) ==
  Min({i \in DOMAIN ranges : start <= ranges[i].stop} \cup {Len(ranges) + 1})
Reach(ranges, stop, i, k) == IF k < i THEN stop ELSE Larger(stop, ranges[k].stop)
Merged(ranges, start, stop, i, k) ==
  SubSeq(ranges, 1, i - 1)
    \o <<Run(IF k < i THEN start ELSE Smaller(start, ranges[i].start), Reach(ranges, stop, i, k))>>
    \o SubSeq(ranges, k + 1, Len(ranges))

\* (mutant)
AddWithoutMerge(ranges, start, stop) ==
  LET i == FirstFrom(ranges, start)
  IN Merged(ranges, start, stop, i,
            IF i <= Len(ranges) /\ ranges[i].start < stop THEN i ELSE i - 1)

\* Ranges are swallowed until the next one is out of reach.
LastReached(ranges, stop, i) ==
  Min({k \in (i - 1)..Len(ranges) :
         k = Len(ranges) \/ Reach(ranges, stop, i, k) < ranges[k + 1].start})
Add(ranges, start, stop) ==
  LET i == FirstFrom(ranges, start)
  IN Merged(ranges, start, stop, i, LastReached(ranges, stop, i))

\* subtract(): of the ranges i..k only what sticks out remains.
FirstAfter(ranges, stop) ==
  Min({i \in DOMAIN ranges : stop <= ranges[i].start} \cup {Len(ranges) + 1})
Unless(gone, run) == IF gone THEN << >> ELSE <<run>>

Subtract(ranges, start, stop) ==
  LET i == FirstFrom(ranges, start + 1)
      k == FirstAfter(ranges, stop) - 1
  IN SubSeq(ranges, 1, i - 1)
       \o Unless(k < i \/ start <= ranges[i].start, Run(ranges[i].start, start))
       \o Unless(k < i \/ ranges[k].stop <= stop, Run(stop, ranges[k].stop))
       \o SubSeq(ranges, k + 1, Len(ranges))
----
\* push_ack_frame: the highest range, then the gap to each next one and its
\* length.  The list must not be empty: rangeset[-1] would raise.
Gap(above, r) == above.start - r.stop - 1

PushAck(ranges) ==
  LET down == Reverse(ranges)
  IN [largest |-> down[1].stop - 1, first |-> down[1].stop - 1 - down[1].start,
      rest |-> [k \in 1..(Len(down) - 1) |->
                  [gap |-> Gap(down[k], down[k + 1]),
                   length |-> down[k + 1].stop - down[k + 1].start - 1]]]

\* pull_ack_frame, which adds the ranges from the highest one down.
PullRange(read, gap, length) ==
  LET end == read.end - gap
  IN [ranges |-> Add(read.ranges, end - length, end + 1), end |-> end - length]
PullAck(frame) ==
  LET read[k \in 0..Len(frame.rest)] ==
        IF k = 0 THEN PullRange([ranges |-> << >>, end |-> frame.largest], 0, frame.first)
        ELSE PullRange(read[k - 1], frame.rest[k].gap + 2, frame.rest[k].length)
  IN read[Len(frame.rest)].ranges
----
\* decode_packet_number: the number nearest to the expected one.
Nearest(candidate, window, expected, bound) ==
  IF candidate <= expected - window \div 2 /\ candidate < bound - window
    THEN candidate + window
  ELSE IF candidate > expected + window \div 2 /\ candidate >= window
    THEN candidate - window
  ELSE candidate

\* (mutant)
DecodeWithoutCarry(truncated, window, expected, bound) ==
  (expected \div window) * window + truncated

DecodePacketNumber(truncated, window, expected, bound) ==
  Nearest((expected \div window) * window + truncated, window, expected, bound)
====
