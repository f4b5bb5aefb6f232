---- MODULE ConnectionIds ----
(***************************************************************************)
(* The connection IDs of both ends, by their sequence numbers, as the      *)
(* frame handlers, the delivery handlers and the letters of the mapper     *)
(* change them.  The operators take and give the record of one client.     *)
(***************************************************************************)
EXTENDS Naturals, FiniteSets, Sequences, SequencesExt

\* host: the IDs the client answers to, and unsent: those of them no packet
\* names yet; next: _host_cid_seq; dst: the server's ID in use, and orig: its
\* bytes were replaced by those of the first Initial packet; known: the IDs that
\* ever came from the server, in the order they came in; available: those kept for
\* later, a list there, in the order of known; retire: _retire_connection_ids, a
\* list there, whose order and repetitions no property tells apart.
FreshIds ==
  [host |-> {0}, unsent |-> {}, next |-> 1, dst |-> 0, orig |-> FALSE,
   available |-> {}, known |-> <<0>>, retire |-> {}]

IdRecords ==
  [host : SUBSET Nat, unsent : SUBSET Nat, next : Nat, dst : Nat, orig : BOOLEAN,
   available : SUBSET Nat, known : Seq(Nat), retire : SUBSET Nat]

\* Issue IDs until the client holds n.
Issue(i, n) ==
  LET held == Cardinality(i.host)
      new == IF held < n THEN i.next..(i.next + n - held - 1) ELSE {}
  IN [i EXCEPT !.host = @ \cup new, !.unsent = @ \cup new, !.next = @ + Cardinality(new)]

\* _replenish_connection_ids.  limit: the server's active_connection_id_limit.
Replenish(i, limit) == Issue(i, IF limit < 8 THEN limit ELSE 8)

\* sendInvalidNCID: one ID more than the server allows.
IssueTooMany(i, limit) == Issue(i, IF limit < 8 THEN 9 ELSE limit + 1)

\* changeDestinationConnectionID.
UseOriginal(i) == [i EXCEPT !.orig = TRUE]

\* The available ID that came first.
IsFirst(i, k) == i.known[k] \in i.available /\ \A j \in 1..(k - 1) : i.known[j] \notin i.available
FirstAvailable(i) == i.known[CHOOSE k \in DOMAIN i.known : IsFirst(i, k)]

\* _consume_peer_cid: the original ID stays in use, the new one is used up.
Consume(i) ==
  [i EXCEPT !.dst = IF i.orig THEN @ ELSE FirstAvailable(i),
            !.available = @ \ {FirstAvailable(i)}]

\* A new ID joins the available ones; only its first frame counts.
Known(i) == {i.known[k] : k \in DOMAIN i.known}
Noted(i, seq) == IF seq \in Known(i) THEN i.known ELSE Append(i.known, seq)
Kept(i, seq, prior) == {a \in i.available : a >= prior} \cup ({seq} \ Known(i))
InUse(i, prior) == IF i.dst < prior THEN {i.dst} ELSE {}

\* Mutant: the ID in use stays in use.
NewIdKeepsCurrent(i, seq, prior) ==
  [i EXCEPT !.available = Kept(i, seq, prior),
            !.known = Noted(i, seq),
            !.retire = @ \cup InUse(i, prior) \cup {a \in i.available : a < prior}]

\* _handle_new_connection_id_frame; the check of the number of IDs comes last
\* and its error is dropped.
NewId(i, seq, prior) ==
  LET kept == [i EXCEPT !.available = Kept(i, seq, prior),
                        !.known = Noted(i, seq),
                        !.retire = @ \cup InUse(i, prior) \cup {a \in i.available : a < prior}]
  IN IF InUse(i, prior) # {} /\ kept.available # {} THEN Consume(kept) ELSE kept

\* _handle_retire_connection_id_frame, in a packet sent to the ID "to".
RetireRefused(i, seq, to) == seq >= i.next \/ (seq = to /\ seq \in i.host)
RetireId(i, seq, to, limit) ==
  IF RetireRefused(i, seq, to) THEN i
  ELSE Replenish([i EXCEPT !.host = @ \ {seq}, !.unsent = @ \ {seq}], limit)

(***************************************************************************)
(* Frames: what _write_application writes and what its loss brings back.   *)
(***************************************************************************)
IdFrames(i) ==
  {[kind |-> "newId", value |-> n] : n \in i.unsent}
  \cup {[kind |-> "retire", value |-> n] : n \in i.retire}

IdsWritten(i) == [i EXCEPT !.unsent = {}, !.retire = {}]

\* Mutant: RETIRE_CONNECTION_ID is not repeated.
IdsLostForgets(i, back) ==
  [i EXCEPT !.unsent = @ \cup {n \in i.host : [kind |-> "newId", value |-> n] \in back}]

\* _on_new_connection_id_delivery and _on_retire_connection_id_delivery for the
\* frames of lost packets.  An ID that was retired meanwhile is no longer in the list.
IdsLost(i, back) ==
  [i EXCEPT !.unsent = @ \cup {n \in i.host : [kind |-> "newId", value |-> n] \in back},
            !.retire = @ \cup {f.value : f \in {g \in back : g.kind = "retire"}}]
====
