---- MODULE OneRtt ----
(***************************************************************************)
(* What a packet does to a connection besides its frames: the phase of the *)
(* 1-RTT keys (quic/crypto.py) and the network paths a server knows.       *)
(***************************************************************************)
EXTENDS Integers, Sequences, SequencesExt

(***************************************************************************)
(* CryptoPair, keys being counted by the updates they came from: recv,     *)
(* send and _update_key_requested.  heard: the other side is known to have *)
(* the keys of this phase, having used them or from the handshake, which   *)
(* the application can tell.  hasty is of the model only: an update was    *)
(* asked for when that was not so.                                         *)
(***************************************************************************)
FreshKeys ==
  [recv |-> 0, send |-> 0, requested |-> FALSE, heard |-> TRUE, hasty |-> FALSE]

\* update_key; a request on top of one that waits changes nothing.
Request(keys) ==
  [keys EXCEPT !.requested = TRUE, !.hasty = @ \/ (~keys.requested /\ ~keys.heard)]

\* Mutant: the keys to send with stay.
UpdateRecvOnly(keys) ==
  [keys EXCEPT !.recv = @ + 1, !.requested = FALSE, !.heard = FALSE]

\* _update_key
Update(keys) ==
  [keys EXCEPT !.recv = @ + 1, !.send = @ + 1, !.requested = FALSE, !.heard = FALSE]

\* encrypt_packet; the header was given the bit of key_phase before.
Encrypt(keys) == IF keys.requested THEN Update(keys) ELSE keys
Phase(keys) == (keys.recv + (IF keys.requested THEN 1 ELSE 0)) % 2

\* decrypt_packet: the other bit stands for the next keys, whatever they are.
Decrypts(keys, p) ==
  p.gen = IF p.bit = keys.recv % 2 THEN keys.recv ELSE keys.recv + 1
Decrypt(keys, p) ==
  [(IF p.bit = keys.recv % 2 THEN keys ELSE Update(keys)) EXCEPT !.heard = TRUE]

(***************************************************************************)
(* _network_paths, the one in use first.                                   *)
(***************************************************************************)
FreshPath(addr) == [addr |-> addr, validated |-> FALSE, byEcho |-> FALSE, challenged |-> FALSE]

\* _find_network_path, and the path joins the list.
Find(paths, addr) ==
  IF \E n \in DOMAIN paths : paths[n].addr = addr THEN paths
  ELSE Append(paths, FreshPath(addr))
IndexOf(paths, addr) == CHOOSE n \in DOMAIN paths : paths[n].addr = addr

\* A HANDSHAKE packet shows that the client got the server's INITIAL.
ByHandshake(paths, n) == [paths EXCEPT ![n].validated = TRUE]

\* _handle_path_response_frame.  A challenge is named by the address it was
\* sent to.
Response(paths, n, echo) ==
  IF paths[n].challenged /\ echo = paths[n].addr
  THEN [paths EXCEPT ![n].validated = TRUE, ![n].byEcho = ~paths[n].validated \/ @]
  ELSE paths

\* Mutant: an old packet moves the path as well.
PromoteAlways(paths, n, probing, newest) ==
  IF n > 1 /\ ~probing THEN <<paths[n]>> \o RemoveAt(paths, n) ELSE paths

\* The path of a packet newer than all of its packet number space is used next.
Promote(paths, n, probing, newest) ==
  IF n > 1 /\ ~probing /\ newest THEN <<paths[n]>> \o RemoveAt(paths, n) ELSE paths

\* PATH_CHALLENGE, on the path in use.
MustChallenge(paths) == ~paths[1].validated /\ ~paths[1].challenged
Challenge(paths) ==
  IF MustChallenge(paths) THEN [paths EXCEPT ![1].challenged = TRUE] ELSE paths
====
