---- MODULE QuicServerProofs ----
(***************************************************************************)
(* The asyncio server keeps one connection for its client, knows it by the *)
(* IDs that connection holds, never locks it out and answers where it is,  *)
(* for any numbers of datagrams, key updates, IDs and addresses.           *)
(***************************************************************************)
EXTENDS QuicServer, FiniteSetTheorems, SequenceTheorems, TLAPS

----------------------------------------------------------------------------
\* The inductive invariant.

\* 1-RTT keys.  Both directions are in one phase, and an update that is not hasty
\* is asked for in a phase in which the other side was heard.
KeyStates ==
  [recv : Nat, send : Nat, requested : BOOLEAN, heard : BOOLEAN, hasty : BOOLEAN]
KeysOK(keys) ==
  /\ keys \in KeyStates /\ keys.send = keys.recv
  /\ keys.requested /\ ~keys.hasty => keys.heard

\* One side is at most one phase ahead if it was never hasty, and not when it heard
\* the other there.
InStep(keys, others) ==
  /\ ~keys.hasty => keys.recv <= others.recv + 1
  /\ keys.heard => keys.recv <= others.recv

\* A packet of the owner of these keys.
OfPhase(d, keys) == d.gen \in Nat /\ d.gen <= keys.send /\ d.bit = d.gen % 2

\* An ID in the table: the one of the hello or one the connection made.
OwnId(id) == Len(id) = 3 /\ id = HostId(1, id[3])
HelloId(id) == id = First \/ id \in RetryIds

Spaces == {"initial", "handshake", "one"}
UpOK(d) ==
  /\ d.space \in Spaces /\ d.from \in Addrs /\ d.version = client.version
  /\ d.pn \in Nat /\ d.pn < client.pn /\ d.probing \in BOOLEAN
  /\ (d.space = "initial" /\ d.hello) =>
       \/ d.id = First /\ d.token = None
       \/ d.id = client.retried /\ client.retried # None /\ d.token = client.token
  /\ (d.space = "initial" /\ d.hello) => d.secret = d.id
  /\ (d.space = "initial" /\ ~d.hello) =>
       /\ conns # <<>> /\ d.id = HostId(1, 0) /\ HelloId(d.secret)
       /\ d.token = client.token
  /\ d.space = "one" =>
       /\ conns # <<>> /\ OwnId(d.id) /\ OfPhase(d, client.keys)
       /\ d.echo \in client.reached \cup {None}
       /\ \A e \in ToServer : e.space = "one" /\ e.pn = d.pn => e = d

DownOK(d) ==
  /\ d.to \in Addrs /\ d.kind \in {"versions", "retry", "hello", "one"}
  /\ d.kind = "retry" =>
       conf.retry /\ d.id \in RetryIds
       /\ d.token = [addr |-> d.to, original |-> First, retried |-> d.id]
  /\ d.kind = "hello" =>
       conns # <<>> /\ d.id = HostId(1, 0) /\ d.original = First /\ d.retried = client.retried
  /\ d.kind = "one" => conns # <<>> /\ OfPhase(d, conns[1].keys)

SentOK ==
  /\ IsFiniteSet(sent)
  /\ \A d \in sent : IF d.dir = "up" THEN UpOK(d) ELSE d.dir = "down" /\ DownOK(d)

\* The client.
ClientFields ==
  {"stage", "addr", "version", "pn", "id", "token", "retried", "of", "ids", "keys", "echo",
   "moves", "reached"}
IdFields == DOMAIN FreshIds
IdsFine(i) ==
  DOMAIN i = IdFields /\ IsFiniteSet(i.host) /\ i.next \in Nat \ {0} /\ 0 \notin i.unsent
Reconnected ==
  /\ client.retried = None => client.token = None
  /\ client.retried # None =>
       /\ conf.retry /\ client.retried \in RetryIds
       /\ client.token \in Tokens /\ client.token.retried = client.retried
       /\ client.token.addr \in client.reached
  /\ client.version = "old" =>
       /\ conns = <<>> /\ client.retried = None /\ sent \subseteq ToServer \cup
            {d \in sent : d.dir = "down" /\ d.kind = "versions"}

ClientFits ==
  /\ DOMAIN client = ClientFields /\ IdsFine(client.ids) /\ KeysOK(client.keys)
  /\ client.addr \in Addrs /\ client.version \in {"old", "new"} /\ client.pn \in Nat
  /\ client.reached \subseteq Addrs /\ client.echo \in client.reached \cup {None}
  /\ client.stage \in {"initial", "answer", "one"}
  /\ client.stage = "initial" =>
       client.id = IF client.retried = None THEN First ELSE client.retried
  /\ client.stage # "initial" => conns # <<>> /\ client.of = 1 /\ client.id = HostId(1, 0)
  /\ conns = <<>> => client.keys = FreshKeys /\ client.echo = None
ClientOK == ClientFits /\ Reconnected

\* The connection.
PathRecords == [addr : Addrs, validated : BOOLEAN, byEcho : BOOLEAN, challenged : BOOLEAN]
PathsOK(paths) ==
  /\ paths \in Seq(PathRecords) /\ paths # <<>>
  /\ \A n \in DOMAIN paths : paths[n].byEcho => paths[n].addr \in client.reached

\* The newest 1-RTT packet, and that the path in use is its path.
NewestOK(c) ==
  c.largest.one >= 0 =>
    \E d \in ToServer : /\ d.space = "one" /\ d.pn = c.largest.one
                        /\ (~d.probing /\ ~c.late) => c.paths[1].addr = d.from

ConnFields ==
  {"first", "secret", "original", "retried", "host", "ids", "keys", "paths", "complete",
   "greeted", "again", "issued", "largest", "late"}
InPhase(keys) == KeysOK(keys) /\ InStep(keys, client.keys) /\ InStep(client.keys, keys)
FlagsOK(c) ==
  c.complete \in BOOLEAN /\ c.greeted \in BOOLEAN /\ c.again \in BOOLEAN /\ c.late \in BOOLEAN
ConnOK(c) ==
  /\ DOMAIN c = ConnFields /\ c.original = First /\ c.retried = client.retried
  /\ FlagsOK(c) /\ InPhase(c.keys) /\ PathsOK(c.paths)
  /\ c.largest \in [Spaces -> Int] /\ NewestOK(c)

\* Its IDs, and the table.  An ID it holds is in the table, not yet sent, or its
\* event waits.
Opening == IF conf.retry THEN client.retried ELSE First
IdsOK(c) ==
  /\ IdsFine(c.ids) /\ c.host \in c.ids.host
  /\ c.issued \subseteq c.ids.host /\ c.ids.unsent \subseteq c.ids.host
  /\ 0 \notin c.issued
Strays == {HostId(1, 0), HostId(2, 0)}
Routes(table, id, host) ==
  \/ table[id] = 1 /\ (HelloId(id) \/ (OwnId(id) /\ id[3] \in host))
  \/ table[id] = 2 /\ id \in Strays /\ 0 \notin host
TableOK(table, c) ==
  /\ Opening \in DOMAIN table
  /\ \A id \in DOMAIN table : Routes(table, id, c.ids.host)
  /\ \A s \in c.ids.host :
       HostId(1, s) \in DOMAIN table \/ s \in c.ids.unsent \/ s \in c.issued

\* A connection beside the first one, made when that one had retired its first ID.
Unread(c) ==
  /\ DOMAIN c = ConnFields /\ c.first /\ c.complete = FALSE /\ c.greeted = FALSE
  /\ c.again = FALSE /\ c.issued = {} /\ c.host = 0 /\ c.ids = FreshIds
  /\ c.largest.one = -1 /\ c.late = FALSE /\ ~c.paths[1].byEcho /\ DOMAIN c.paths = {1}
Numbered(all, table) ==
  /\ Len(all) \in {1, 2} /\ DOMAIN all = 1..Len(all) /\ ~all[1].first
  /\ Len(all) = 2 =>
       Unread(all[2]) /\ Strays \subseteq DOMAIN table /\ table[HostId(1, 0)] = 2
  /\ \A id \in DOMAIN table : table[id] = 2 => Len(all) = 2

ConnsOK ==
  \/ conns = <<>> /\ DOMAIN routes = {}
  \/ /\ Numbered(conns, routes)
     /\ ConnOK(conns[1]) /\ IdsOK(conns[1]) /\ TableOK(routes, conns[1])
     /\ conf.retry <=> client.retried # None

ServerInv == conf \in Settings /\ SentOK /\ ClientOK /\ ConnsOK

----------------------------------------------------------------------------
\* Keys.

\* An update of the keys goes to the next phase, in both directions.
LEMMA UpdateIs ==
  ASSUME NEW keys \in KeyStates
  PROVE  /\ Update(keys) \in KeyStates
         /\ Update(keys).recv = keys.recv + 1 /\ Update(keys).send = keys.send + 1
         /\ Update(keys).requested = FALSE /\ Update(keys).heard = FALSE
         /\ Update(keys).hasty = keys.hasty
<1> DEFINE recv == keys.recv + 1  send == keys.send + 1
<1>1. recv \in Nat /\ send \in Nat
  BY DEF KeyStates
<1>2. Update(keys) = [keys EXCEPT !.recv = recv, !.send = send, !.requested = FALSE,
                                  !.heard = FALSE]
  BY DEF Update
<1>3. recv = keys.recv + 1 /\ send = keys.send + 1
  OBVIOUS
<1> HIDE DEF recv, send
<1>4. /\ Update(keys) \in KeyStates /\ Update(keys).recv = recv /\ Update(keys).send = send
      /\ Update(keys).requested = FALSE /\ Update(keys).heard = FALSE
      /\ Update(keys).hasty = keys.hasty
  BY <1>1, <1>2 DEF KeyStates
<1>5. QED
  BY <1>3, <1>4

LEMMA UpdateOK ==
  ASSUME NEW keys, KeysOK(keys)
  PROVE  /\ KeysOK(Update(keys)) /\ Update(keys).recv = keys.recv + 1
         /\ Update(keys).send = keys.send + 1
         /\ ~Update(keys).heard /\ Update(keys).hasty = keys.hasty
<1>1. keys \in KeyStates /\ keys.send = keys.recv
  BY DEF KeysOK
<1>2. /\ Update(keys) \in KeyStates
      /\ Update(keys).recv = keys.recv + 1 /\ Update(keys).send = keys.send + 1
      /\ Update(keys).requested = FALSE /\ Update(keys).heard = FALSE
      /\ Update(keys).hasty = keys.hasty
  BY <1>1, UpdateIs
<1>3. QED
  BY <1>1, <1>2 DEF KeysOK

\* Writing a packet starts the phase that was asked for, which the other side has
\* reached before.
LEMMA EncryptOK ==
  ASSUME NEW keys, KeysOK(keys), NEW others, KeysOK(others),
         InStep(keys, others), InStep(others, keys)
  PROVE  LET after == Encrypt(keys)
         IN /\ KeysOK(after) /\ InStep(after, others) /\ InStep(others, after)
            /\ after.send >= keys.send
            /\ Phase(keys) = after.send % 2 /\ after.send \in Nat
<1>0. /\ keys.recv \in Nat /\ keys.send = keys.recv /\ keys.requested \in BOOLEAN
      /\ keys.heard \in BOOLEAN /\ others.recv \in Nat
      /\ keys.requested /\ ~keys.hasty => keys.heard
  BY DEF KeysOK, KeyStates
<1>1. CASE keys.requested
  <2>1. Encrypt(keys) = Update(keys) /\ Phase(keys) = (keys.recv + 1) % 2
    BY <1>1 DEF Encrypt, Phase
  <2>2. /\ KeysOK(Update(keys)) /\ Update(keys).recv = keys.recv + 1 /\ ~Update(keys).heard
        /\ Update(keys).hasty = keys.hasty
    BY UpdateOK
  <2>3. Update(keys).send = Update(keys).recv
    BY <2>2 DEF KeysOK
  <2>4. ~keys.hasty => keys.recv <= others.recv
    BY <1>0, <1>1 DEF InStep
  <2>5. InStep(Update(keys), others)
    BY <1>0, <2>2, <2>4 DEF InStep
  <2>6. InStep(others, Update(keys))
    BY <1>0, <2>2 DEF InStep
  <2>7. QED
    BY <1>0, <2>1, <2>2, <2>3, <2>5, <2>6
<1>2. CASE ~keys.requested
  <2>1. Encrypt(keys) = keys
    BY <1>2 DEF Encrypt
  <2>2. Phase(keys) = keys.recv % 2
    BY <1>0, <1>2 DEF Phase
  <2>3. QED
    BY <1>0, <2>1, <2>2
<1>3. QED
  BY <1>0, <1>1, <1>2

\* Reading a packet of the other side follows it into its phase.
LEMMA DecryptOK ==
  ASSUME NEW keys, KeysOK(keys), NEW others, KeysOK(others),
         InStep(keys, others), InStep(others, keys),
         NEW d, OfPhase(d, others), Decrypts(keys, d)
  PROVE  LET after == Decrypt(keys, d)
         IN /\ KeysOK(after) /\ InStep(after, others) /\ InStep(others, after)
            /\ after.send >= keys.send
<1> DEFINE before == IF d.bit = keys.recv % 2 THEN keys ELSE Update(keys)
<1>0. /\ keys.recv \in Nat /\ keys.send = keys.recv /\ others.recv \in Nat
      /\ d.gen \in Nat /\ d.gen <= others.recv
  BY DEF KeysOK, KeyStates, OfPhase
<1>1. KeysOK(before) /\ before.recv = d.gen /\ before.send >= keys.send
      /\ before.recv >= keys.recv
  <2>1. CASE d.bit = keys.recv % 2
    BY <1>0, <2>1 DEF Decrypts
  <2>2. CASE d.bit # keys.recv % 2
    <3>1. before = Update(keys) /\ d.gen = keys.recv + 1
      BY <2>2 DEF Decrypts
    <3>2. KeysOK(Update(keys)) /\ Update(keys).send = keys.send + 1
          /\ Update(keys).recv = keys.recv + 1
      BY UpdateOK
    <3>3. QED
      BY <1>0, <3>1, <3>2
  <2>3. QED
    BY <2>1, <2>2
<1>2. before \in KeyStates /\ before.send = before.recv
  BY <1>1 DEF KeysOK
<1>3. Decrypt(keys, d) = [before EXCEPT !.heard = TRUE]
  BY DEF Decrypt
<1> HIDE DEF before
<1>4. /\ Decrypt(keys, d).recv = before.recv /\ Decrypt(keys, d).send = before.send
      /\ Decrypt(keys, d).requested = before.requested
  BY <1>2, <1>3 DEF KeyStates
<1>5. Decrypt(keys, d).heard
  BY <1>2, <1>3 DEF KeyStates
<1>6. Decrypt(keys, d) \in KeyStates
  BY <1>2, <1>3 DEF KeyStates
<1>7. KeysOK(Decrypt(keys, d))
  BY <1>2, <1>4, <1>5, <1>6 DEF KeysOK
<1>8. InStep(Decrypt(keys, d), others) /\ InStep(others, Decrypt(keys, d))
  <2>1. before.recv \in Nat
    BY <1>2 DEF KeyStates
  <2>2. QED
    BY <1>0, <1>1, <1>4, <2>1 DEF InStep
<1>9. QED
  BY <1>1, <1>4, <1>7, <1>8

\* Asking for an update, hasty or not.
LEMMA RequestOK ==
  ASSUME NEW keys, KeysOK(keys)
  PROVE  /\ KeysOK(Request(keys))
         /\ Request(keys).recv = keys.recv /\ Request(keys).send = keys.send
         /\ Request(keys).heard = keys.heard
         /\ ~Request(keys).hasty => ~keys.hasty
<1> DEFINE hasty == keys.hasty \/ (~keys.requested /\ ~keys.heard)
<1>1. keys \in KeyStates /\ hasty \in BOOLEAN
  BY DEF KeysOK, KeyStates
<1>2. Request(keys) = [keys EXCEPT !.requested = TRUE, !.hasty = hasty]
  BY DEF Request
<1>3. (~hasty => ~keys.hasty /\ keys.heard) /\ keys.send = keys.recv
  BY DEF KeysOK
<1> HIDE DEF hasty
<1>4. /\ Request(keys).recv = keys.recv /\ Request(keys).send = keys.send
      /\ Request(keys).heard = keys.heard /\ Request(keys).hasty = hasty
      /\ Request(keys) \in KeyStates
  BY <1>1, <1>2 DEF KeyStates
<1>5. QED
  BY <1>3, <1>4 DEF KeysOK

LEMMA FreshKeysOK ==
  KeysOK(FreshKeys) /\ InStep(FreshKeys, FreshKeys)
<1>1. FreshKeys \in KeyStates
  BY DEF KeyStates, FreshKeys
<1>2. FreshKeys.recv = 0 /\ FreshKeys.send = 0 /\ ~FreshKeys.requested
  BY DEF FreshKeys
<1>3. QED
  BY <1>1, <1>2 DEF KeysOK, InStep

\* Whatever phases two sides that are never hasty are in, one of them reads what the
\* other sends next.
LEMMA OneReadsTheOther ==
  ASSUME NEW a, KeysOK(a), NEW b, KeysOK(b), InStep(a, b), InStep(b, a), ~a.hasty, ~b.hasty
  PROVE  CanRead(a, b) \/ CanRead(b, a)
<1> DEFINE next(keys) == [bit |-> Phase(keys), gen |-> Encrypt(keys).send]
<1>0. /\ a.recv \in Nat /\ a.send = a.recv /\ b.recv \in Nat /\ b.send = b.recv
      /\ a.requested \in BOOLEAN /\ b.requested \in BOOLEAN
      /\ a.recv <= b.recv + 1 /\ b.recv <= a.recv + 1
      /\ a.requested => a.recv <= b.recv
      /\ b.requested => b.recv <= a.recv
  BY DEF KeysOK, KeyStates, InStep
<1>1. ASSUME NEW keys, KeysOK(keys)
      PROVE  /\ next(keys).gen = IF keys.requested THEN keys.recv + 1 ELSE keys.recv
             /\ next(keys).bit = next(keys).gen % 2
  <2>1. keys.recv \in Nat /\ keys.send = keys.recv
    BY <1>1 DEF KeysOK, KeyStates
  <2>2. CASE keys.requested
    BY <1>1, <2>1, <2>2, UpdateOK DEF Encrypt, Phase
  <2>3. CASE ~keys.requested
    BY <2>1, <2>3 DEF Encrypt, Phase
  <2>4. QED
    BY <2>2, <2>3
<1>2. ASSUME NEW keys, KeysOK(keys), NEW p, p.bit = p.gen % 2,
             p.gen = keys.recv \/ p.gen = keys.recv + 1
      PROVE  Decrypts(keys, p)
  <2>1. keys.recv \in Nat
    BY <1>2 DEF KeysOK, KeyStates
  <2>2. (keys.recv + 1) % 2 # keys.recv % 2
    BY <2>1
  <2>3. QED
    BY <1>2, <2>2 DEF Decrypts
<1> HIDE DEF next
<1>3. CASE a.recv <= b.recv
  <2>1. next(b).gen = a.recv \/ next(b).gen = a.recv + 1
    BY <1>0, <1>1, <1>3
  <2>2. Decrypts(a, next(b))
    BY <1>1, <1>2, <2>1
  <2>3. QED
    BY <2>2 DEF next, CanRead
<1>4. CASE a.recv > b.recv
  <2>1. next(a).gen = b.recv + 1
    BY <1>0, <1>1, <1>4
  <2>2. Decrypts(b, next(a))
    BY <1>1, <1>2, <2>1
  <2>3. QED
    BY <2>2 DEF next, CanRead
<1>5. QED
  BY <1>0, <1>3, <1>4

----------------------------------------------------------------------------
\* Paths.

\* The same paths, but for what is known of them.
SameAddrs(before, after) ==
  DOMAIN after = DOMAIN before /\ \A n \in DOMAIN before : after[n].addr = before[n].addr

LEMMA PathFacts ==
  ASSUME NEW paths, PathsOK(paths)
  PROVE  /\ paths \in Seq(PathRecords) /\ Len(paths) \in Nat /\ Len(paths) >= 1
         /\ DOMAIN paths = 1..Len(paths) /\ 1 \in DOMAIN paths
         /\ \A n \in DOMAIN paths :
              /\ paths[n] \in PathRecords /\ paths[n].addr \in Addrs
              /\ paths[n].byEcho => paths[n].addr \in client.reached
<1>1. paths \in Seq(PathRecords) /\ paths # <<>>
  BY DEF PathsOK
<1>2. Len(paths) \in Nat /\ DOMAIN paths = 1..Len(paths) /\ Len(paths) # 0
  BY <1>1, EmptySeq, LenProperties
<1>3. \A n \in DOMAIN paths : paths[n] \in PathRecords
  BY <1>1, <1>2, ElementOfSeq
<1>4. QED
  BY <1>1, <1>2, <1>3 DEF PathsOK, PathRecords

LEMMA IndexIs ==
  ASSUME NEW paths, NEW addr, \E n \in DOMAIN paths : paths[n].addr = addr
  PROVE  IndexOf(paths, addr) \in DOMAIN paths /\ paths[IndexOf(paths, addr)].addr = addr
BY DEF IndexOf

LEMMA FreshPathOK ==
  ASSUME NEW addr \in Addrs
  PROVE  /\ FreshPath(addr) \in PathRecords /\ FreshPath(addr).addr = addr
         /\ ~FreshPath(addr).byEcho
<1>1. FreshPath(addr) \in PathRecords
  BY DEF FreshPath, PathRecords
<1>2. QED
  BY <1>1 DEF FreshPath

LEMMA FindOK ==
  ASSUME NEW paths, PathsOK(paths), NEW addr \in Addrs
  PROVE  /\ PathsOK(Find(paths, addr)) /\ Find(paths, addr)[1] = paths[1]
         /\ \E n \in DOMAIN Find(paths, addr) : Find(paths, addr)[n].addr = addr
<1> DEFINE after == Append(paths, FreshPath(addr))
<1>0. PathsOK(paths)
  OBVIOUS
<1>1. CASE \E n \in DOMAIN paths : paths[n].addr = addr
  BY <1>1 DEF Find
<1>2. CASE ~ \E n \in DOMAIN paths : paths[n].addr = addr
  <2>1. Find(paths, addr) = after
    BY <1>2 DEF Find
  <2>2. /\ after \in Seq(PathRecords) /\ Len(after) = Len(paths) + 1
        /\ \A n \in 1..Len(paths) : after[n] = paths[n]
        /\ after[Len(paths) + 1] = FreshPath(addr)
    BY <1>0, PathFacts, FreshPathOK, AppendProperties
  <2> HIDE DEF after
  <2>3. DOMAIN after = 1..(Len(paths) + 1) /\ after # <<>>
    BY <1>0, <2>2, PathFacts, LenProperties, EmptySeq
  <2>4. \A n \in DOMAIN after : after[n].byEcho => after[n].addr \in client.reached
    <3> SUFFICES ASSUME NEW n \in DOMAIN after
                 PROVE  after[n].byEcho => after[n].addr \in client.reached
      OBVIOUS
    <3>1. CASE n = Len(paths) + 1
      BY <2>2, <3>1, FreshPathOK
    <3>2. CASE n # Len(paths) + 1
      <4>1. n \in 1..Len(paths)
        BY <1>0, <2>3, <3>2, PathFacts
      <4>2. QED
        BY <1>0, <2>2, <4>1, PathFacts
    <3>3. QED
      BY <3>1, <3>2
  <2>5. after[1] = paths[1]
    BY <1>0, <2>2, PathFacts
  <2>6. Len(paths) + 1 \in DOMAIN after /\ after[Len(paths) + 1].addr = addr
    BY <1>0, <2>2, <2>3, PathFacts, FreshPathOK
  <2>7. QED
    BY <2>1, <2>2, <2>3, <2>4, <2>5, <2>6 DEF PathsOK
<1>3. QED
  BY <1>1, <1>2

\* A path is changed in what is known of it.
LEMMA PathChanged ==
  ASSUME NEW paths, PathsOK(paths), NEW n \in DOMAIN paths, NEW p \in PathRecords,
         p.addr = paths[n].addr, p.byEcho => p.addr \in client.reached
  PROVE  PathsOK([paths EXCEPT ![n] = p]) /\ SameAddrs(paths, [paths EXCEPT ![n] = p])
<1> DEFINE after == [paths EXCEPT ![n] = p]
<1>0. PathsOK(paths)
  OBVIOUS
<1>1. /\ DOMAIN after = DOMAIN paths
      /\ \A m \in DOMAIN paths : after[m] = IF m = n THEN p ELSE paths[m]
  OBVIOUS
<1>2. after \in Seq(PathRecords) /\ after # <<>>
  <2>1. paths \in Seq(PathRecords) /\ n \in 1..Len(paths) /\ DOMAIN paths = 1..Len(paths)
    BY <1>0, PathFacts
  <2>2. after \in Seq(PathRecords)
    BY <2>1, ExceptSeq
  <2>3. DOMAIN after # {}
    BY <1>1
  <2>4. QED
    BY <2>2, <2>3
<1> HIDE DEF after
<1>3. \A m \in DOMAIN after :
        /\ after[m].byEcho => after[m].addr \in client.reached
        /\ after[m].addr = paths[m].addr
  <2> SUFFICES ASSUME NEW m \in DOMAIN after
               PROVE  /\ after[m].byEcho => after[m].addr \in client.reached
                      /\ after[m].addr = paths[m].addr
    OBVIOUS
  <2>1. CASE m = n
    BY <1>1, <2>1
  <2>2. CASE m # n
    BY <1>0, <1>1, <2>2, PathFacts
  <2>3. QED
    BY <2>1, <2>2
<1>4. PathsOK(after) /\ SameAddrs(paths, after)
  BY <1>1, <1>2, <1>3 DEF PathsOK, SameAddrs
<1>5. QED
  BY <1>4 DEF after

LEMMA ByHandshakeOK ==
  ASSUME NEW paths, PathsOK(paths), NEW n \in DOMAIN paths
  PROVE  PathsOK(ByHandshake(paths, n)) /\ SameAddrs(paths, ByHandshake(paths, n))
<1> DEFINE p == [paths[n] EXCEPT !.validated = TRUE]
<1>1. paths[n] \in PathRecords /\ (paths[n].byEcho => paths[n].addr \in client.reached)
  BY PathFacts
<1>2. p \in PathRecords /\ p.addr = paths[n].addr /\ p.byEcho = paths[n].byEcho
  BY <1>1 DEF PathRecords
<1>3. ByHandshake(paths, n) = [paths EXCEPT ![n] = p]
  BY DEF ByHandshake
<1> HIDE DEF p
<1>4. PathsOK([paths EXCEPT ![n] = p]) /\ SameAddrs(paths, [paths EXCEPT ![n] = p])
  BY <1>1, <1>2, PathChanged
<1>5. QED
  BY <1>3, <1>4

\* A PATH_RESPONSE comes from an address only if the challenge came there.
LEMMA ResponseOK ==
  ASSUME NEW paths, PathsOK(paths), NEW n \in DOMAIN paths,
         NEW echo \in client.reached \cup {None}
  PROVE  PathsOK(Response(paths, n, echo)) /\ SameAddrs(paths, Response(paths, n, echo))
<1> DEFINE b == ~paths[n].validated \/ paths[n].byEcho
           p == [paths[n] EXCEPT !.validated = TRUE, !.byEcho = b]
<1>1. paths[n] \in PathRecords /\ paths[n].addr \in Addrs
  BY PathFacts
<1>2. CASE paths[n].challenged /\ echo = paths[n].addr
  <2>1. b \in BOOLEAN
    OBVIOUS
  <2>2. Response(paths, n, echo) = [paths EXCEPT ![n] = p]
    BY <1>2 DEF Response
  <2> HIDE DEF b
  <2>3. p \in PathRecords /\ p.addr = paths[n].addr
    BY <1>1, <2>1 DEF PathRecords
  <2>4. paths[n].addr \in client.reached
    BY <1>1, <1>2, ServerAssumption
  <2> HIDE DEF p
  <2>5. PathsOK([paths EXCEPT ![n] = p]) /\ SameAddrs(paths, [paths EXCEPT ![n] = p])
    BY <2>3, <2>4, PathChanged
  <2>6. QED
    BY <2>2, <2>5
<1>3. CASE ~(paths[n].challenged /\ echo = paths[n].addr)
  BY <1>3 DEF Response, SameAddrs
<1>4. QED
  BY <1>2, <1>3

LEMMA ChallengeOK ==
  ASSUME NEW paths, PathsOK(paths)
  PROVE  PathsOK(Challenge(paths)) /\ SameAddrs(paths, Challenge(paths))
<1> DEFINE p == [paths[1] EXCEPT !.challenged = TRUE]
<1>1. /\ 1 \in DOMAIN paths /\ paths[1] \in PathRecords
      /\ paths[1].byEcho => paths[1].addr \in client.reached
  BY PathFacts
<1>2. CASE MustChallenge(paths)
  <2>1. p \in PathRecords /\ p.addr = paths[1].addr /\ p.byEcho = paths[1].byEcho
    BY <1>1 DEF PathRecords
  <2>2. Challenge(paths) = [paths EXCEPT ![1] = p]
    BY <1>2 DEF Challenge
  <2> HIDE DEF p
  <2>3. PathsOK([paths EXCEPT ![1] = p]) /\ SameAddrs(paths, [paths EXCEPT ![1] = p])
    BY <1>1, <2>1, PathChanged
  <2>4. QED
    BY <2>2, <2>3
<1>3. CASE ~MustChallenge(paths)
  BY <1>3 DEF Challenge, SameAddrs
<1>4. QED
  BY <1>2, <1>3

\* The path of the newest packet comes to the front, if the packet does not probe.
LEMMA PromoteOK ==
  ASSUME NEW paths, PathsOK(paths), NEW n \in DOMAIN paths, NEW probing, NEW newest
  PROVE  LET after == Promote(paths, n, probing, newest)
         IN /\ PathsOK(after)
            /\ ~probing /\ newest => after[1] = paths[n]
            /\ probing \/ ~newest => after = paths
<1> DEFINE front == <<paths[n]>>
           left == SubSeq(paths, 1, n - 1)  right == SubSeq(paths, n + 1, Len(paths))
           rest == left \o right
           after == front \o rest
<1>0. /\ paths \in Seq(PathRecords) /\ Len(paths) \in Nat /\ DOMAIN paths = 1..Len(paths)
      /\ n \in 1..Len(paths) /\ paths[n] \in PathRecords
      /\ \A m \in 1..Len(paths) :
           paths[m] \in PathRecords /\ (paths[m].byEcho => paths[m].addr \in client.reached)
  BY PathFacts
<1>1. CASE n > 1 /\ ~probing /\ newest
  <2>1. Promote(paths, n, probing, newest) = after
    BY <1>1 DEF Promote, RemoveAt
  <2>2. /\ left \in Seq(PathRecords) /\ Len(left) = n - 1
        /\ \A i \in 1..(n - 1) : left[i] = paths[i]
    <3>1. /\ 1 \in Int /\ n - 1 \in Int /\ 1 <= n - 1
          /\ \A i \in 1..(n - 1) : paths[i] \in PathRecords
      BY <1>0, <1>1
    <3>2. /\ left \in Seq(PathRecords)
          /\ Len(left) = IF 1 <= n - 1 THEN (n - 1) - 1 + 1 ELSE 0
          /\ \A i \in 1..((n - 1) - 1 + 1) : left[i] = paths[1 + i - 1]
      BY <3>1, SubSeqProperties
    <3> HIDE DEF left
    <3>3. QED
      BY <1>0, <3>1, <3>2
  <2>3. /\ right \in Seq(PathRecords) /\ Len(right) = Len(paths) - n
        /\ \A i \in 1..(Len(paths) - n) : right[i] = paths[n + i]
    <3>1. /\ n + 1 \in Int /\ Len(paths) \in Int
          /\ \A i \in (n + 1)..Len(paths) : paths[i] \in PathRecords
      BY <1>0
    <3>2. /\ right \in Seq(PathRecords)
          /\ Len(right) = IF n + 1 <= Len(paths) THEN Len(paths) - (n + 1) + 1 ELSE 0
          /\ \A i \in 1..(Len(paths) - (n + 1) + 1) : right[i] = paths[(n + 1) + i - 1]
      BY <3>1, SubSeqProperties
    <3> HIDE DEF right
    <3>3. ASSUME NEW i \in 1..(Len(paths) - n) PROVE right[i] = paths[n + i]
      <4>1. i \in 1..(Len(paths) - (n + 1) + 1) /\ (n + 1) + i - 1 = n + i
        BY <1>0
      <4>2. QED
        BY <3>2, <4>1
    <3>4. Len(right) = Len(paths) - n
      BY <1>0, <3>2
    <3>5. QED
      BY <3>2, <3>3, <3>4
  <2> HIDE DEF left, right
  <2>4. /\ rest \in Seq(PathRecords) /\ Len(rest) = Len(paths) - 1
        /\ \A i \in 1..(Len(paths) - 1) : rest[i] = IF i < n THEN paths[i] ELSE paths[i + 1]
    <3>1. /\ rest \in Seq(PathRecords) /\ Len(rest) = Len(left) + Len(right)
          /\ \A i \in 1..(Len(left) + Len(right)) :
               rest[i] = IF i <= Len(left) THEN left[i] ELSE right[i - Len(left)]
      BY <2>2, <2>3, ConcatProperties
    <3> HIDE DEF rest
    <3>2. Len(left) + Len(right) = Len(paths) - 1
      BY <1>0, <2>2, <2>3
    <3>3. ASSUME NEW i \in 1..(Len(paths) - 1)
          PROVE  rest[i] = IF i < n THEN paths[i] ELSE paths[i + 1]
      <4>1. CASE i < n
        <5>1. i \in 1..(n - 1) /\ i <= Len(left)
          BY <1>0, <2>2, <4>1
        <5>2. QED
          BY <2>2, <3>1, <3>2, <4>1, <5>1
      <4>2. CASE ~(i < n)
        <5>1. /\ ~(i <= Len(left)) /\ i - Len(left) \in 1..(Len(paths) - n)
              /\ n + (i - Len(left)) = i + 1
          BY <1>0, <2>2, <4>2
        <5>2. QED
          BY <2>3, <3>1, <3>2, <4>2, <5>1
      <4>3. QED
        BY <4>1, <4>2
    <3>4. QED
      BY <3>1, <3>2, <3>3
  <2> HIDE DEF rest
  <2>5. front \in Seq(PathRecords) /\ Len(front) = 1 /\ front[1] = paths[n]
    BY <1>0
  <2> HIDE DEF front
  <2>6. /\ after \in Seq(PathRecords) /\ Len(after) = Len(paths)
        /\ \A i \in 1..Len(paths) : after[i] = IF i = 1 THEN paths[n] ELSE rest[i - 1]
    <3>1. /\ after \in Seq(PathRecords) /\ Len(after) = Len(front) + Len(rest)
          /\ \A i \in 1..(Len(front) + Len(rest)) :
               after[i] = IF i <= Len(front) THEN front[i] ELSE rest[i - Len(front)]
      BY <2>4, <2>5, ConcatProperties
    <3> HIDE DEF after
    <3>2. QED
      BY <1>0, <2>4, <2>5, <3>1
  <2> HIDE DEF after
  <2>7. after # <<>> /\ DOMAIN after = 1..Len(paths)
    BY <1>0, <2>6, LenProperties, EmptySeq
  <2>8. \A i \in DOMAIN after : after[i].byEcho => after[i].addr \in client.reached
    <3> SUFFICES ASSUME NEW i \in 1..Len(paths)
                 PROVE  after[i].byEcho => after[i].addr \in client.reached
      BY <2>7
    <3>1. CASE i = 1
      BY <1>0, <2>6, <3>1
    <3>2. CASE i # 1
      <4>1. i - 1 \in 1..(Len(paths) - 1)
        BY <1>0, <3>2
      <4>2. \E m \in 1..Len(paths) : rest[i - 1] = paths[m]
        BY <1>0, <2>4, <4>1
      <4>3. QED
        BY <1>0, <2>6, <3>2, <4>2
    <3>3. QED
      BY <3>1, <3>2
  <2>9. after[1] = paths[n]
    BY <1>0, <2>6
  <2>10. QED
    BY <1>1, <2>1, <2>6, <2>7, <2>8, <2>9 DEF PathsOK
<1>2. CASE ~(n > 1 /\ ~probing /\ newest)
  <2>1. Promote(paths, n, probing, newest) = paths
    BY <1>2 DEF Promote
  <2>2. ~probing /\ newest => n = 1
    BY <1>0, <1>2
  <2>3. QED
    BY <2>1, <2>2
<1>3. QED
  BY <1>1, <1>2

----------------------------------------------------------------------------
\* Connection IDs.

LEMMA FreshIdsAre ==
  IdsFine(FreshIds) /\ FreshIds.host = {0} /\ FreshIds.unsent = {}
<1>1. FreshIds.host = {0} /\ FreshIds.unsent = {} /\ FreshIds.next = 1
  BY DEF FreshIds
<1>2. IsFiniteSet({0})
  BY FS_Singleton
<1>3. QED
  BY <1>1, <1>2 DEF IdsFine, IdFields

LEMMA IdFieldsAre ==
  IdFields = {"host", "unsent", "next", "dst", "orig", "available", "known", "retire"}
BY DEF FreshIds, IdFields

\* New IDs are not sent yet.
LEMMA ReplenishIs ==
  ASSUME NEW i, IdsFine(i)
  PROVE  /\ IdsFine(Replenish(i, IdLimit))
         /\ \E new : /\ Replenish(i, IdLimit).host = i.host \cup new
                     /\ Replenish(i, IdLimit).unsent = i.unsent \cup new
<1> DEFINE n == IF IdLimit < 8 THEN IdLimit ELSE 8
           held == Cardinality(i.host)
           new == IF held < n THEN i.next..(i.next + n - held - 1) ELSE {}
           r == [i EXCEPT !.host = i.host \cup new, !.unsent = i.unsent \cup new,
                          !.next = i.next + Cardinality(new)]
<1>1. Replenish(i, IdLimit) = r
  BY DEF Replenish, Issue
<1>2. IsFiniteSet(new) /\ 0 \notin new
  <2>1. i.next \in Nat /\ i.next # 0 /\ held \in Nat /\ n \in Nat
    BY FS_CardinalityType, ServerAssumption DEF IdsFine
  <2> HIDE DEF n, held
  <2>2. i.next + n - held - 1 \in Int
    BY <2>1
  <2>3. IsFiniteSet(i.next..(i.next + n - held - 1))
    BY <2>1, <2>2, FS_Interval
  <2>4. 0 \notin i.next..(i.next + n - held - 1)
    BY <2>1, <2>2
  <2>5. QED
    BY <2>3, <2>4, FS_EmptySet
<1> HIDE DEF new
<1>4. IsFiniteSet(i.host \cup new) /\ i.next + Cardinality(new) \in Nat \ {0}
  <2>1. IsFiniteSet(i.host \cup new)
    BY <1>2, FS_Union DEF IdsFine
  <2>2. Cardinality(new) \in Nat
    BY <1>2, FS_CardinalityType
  <2>3. i.next \in Nat /\ i.next # 0
    BY DEF IdsFine
  <2>4. QED
    BY <2>1, <2>2, <2>3
<1>5. /\ DOMAIN r = IdFields /\ r.host = i.host \cup new /\ r.unsent = i.unsent \cup new
      /\ r.next = i.next + Cardinality(new)
  BY IdFieldsAre DEF IdsFine
<1>6. IdsFine(r)
  BY <1>2, <1>4, <1>5 DEF IdsFine
<1> HIDE DEF r
<1>3. QED
  BY <1>1, <1>5, <1>6

LEMMA LearnAllIs ==
  ASSUME NEW i, IdsFine(i), NEW seqs
  PROVE  /\ IdsFine(LearnAll(i, seqs))
         /\ LearnAll(i, seqs).host = i.host /\ LearnAll(i, seqs).unsent = i.unsent
<1> DEFINE new == seqs \ Known(i)  order == i.known \o SetToSortSeq(new, <)
           r == [i EXCEPT !.available = i.available \cup new, !.known = order]
<1>1. LearnAll(i, seqs) = r
  BY DEF LearnAll
<1> HIDE DEF new, order
<1>2. DOMAIN r = IdFields /\ r.host = i.host /\ r.unsent = i.unsent /\ r.next = i.next
  BY IdFieldsAre DEF IdsFine
<1>4. IdsFine(r)
  BY <1>2 DEF IdsFine
<1> HIDE DEF r
<1>3. QED
  BY <1>1, <1>2, <1>4

\* The ID a packet came with is not retired by it.
LEMMA RetireAllIs ==
  ASSUME NEW i, IdsFine(i), NEW seqs, NEW to
  PROVE  LET r == RetireAll(i, seqs, to)
         IN /\ IdsFine(r)
            /\ to \in i.host => to \in r.host
            /\ i.unsent \subseteq i.host => r.unsent \subseteq r.host
            /\ \A s \in r.host : s \in r.unsent \/ (s \in i.host /\ s \notin i.unsent)
<1> DEFINE gone == {s \in seqs : ~RetireRefused(i, s, to)}
           left == [i EXCEPT !.host = i.host \ gone, !.unsent = i.unsent \ gone]
           r == RetireAll(i, seqs, to)
<1>1. r = Replenish(left, IdLimit)
  BY DEF RetireAll
<1>2. to \in i.host => to \notin gone
  BY DEF RetireRefused
<1> HIDE DEF gone
<1>3. IdsFine(left) /\ left.host = i.host \ gone /\ left.unsent = i.unsent \ gone
  <2>1. /\ DOMAIN left = IdFields /\ left.host = i.host \ gone /\ left.unsent = i.unsent \ gone
        /\ left.next = i.next
    BY IdFieldsAre DEF IdsFine
  <2>2. IsFiniteSet(i.host \ gone)
    BY FS_Subset DEF IdsFine
  <2>3. QED
    BY <2>1, <2>2 DEF IdsFine
<1> HIDE DEF left, r
<1>4. IdsFine(r)
  BY <1>1, <1>3, ReplenishIs
<1>5. PICK new : r.host = left.host \cup new /\ r.unsent = left.unsent \cup new
  BY <1>1, <1>3, ReplenishIs
<1>6. QED
  BY <1>2, <1>3, <1>4, <1>5 DEF r

LEMMA ChangeIdIs ==
  ASSUME NEW i, IdsFine(i)
  PROVE  /\ IdsFine(ChangeId(i))
         /\ ChangeId(i).host = i.host /\ ChangeId(i).unsent = i.unsent
<1> DEFINE given == [i EXCEPT !.retire = i.retire \cup {i.dst}]
           used == FirstAvailable(given)
           dst == IF given.orig THEN given.dst ELSE used
           r == [given EXCEPT !.dst = dst, !.available = given.available \ {used}]
<1>1. CASE i.available = {}
  BY <1>1 DEF ChangeId
<1>2. CASE i.available # {}
  <2>1. ChangeId(i) = r
    BY <1>2 DEF ChangeId, Consume
  <2>2. DOMAIN given = IdFields /\ given.host = i.host /\ given.unsent = i.unsent
        /\ given.next = i.next
    BY IdFieldsAre DEF IdsFine
  <2> HIDE DEF given, used, dst
  <2>3. DOMAIN r = IdFields /\ r.host = given.host /\ r.unsent = given.unsent
        /\ r.next = given.next
    BY <2>2, IdFieldsAre
  <2> HIDE DEF r
  <2>4. IdsFine(r)
    BY <2>2, <2>3 DEF IdsFine
  <2>5. QED
    BY <2>1, <2>2, <2>3, <2>4
<1>3. QED
  BY <1>1, <1>2

LEMMA IdsWrittenIs ==
  ASSUME NEW i, IdsFine(i)
  PROVE  /\ IdsFine(IdsWritten(i))
         /\ IdsWritten(i).host = i.host /\ IdsWritten(i).unsent = {}
<1> DEFINE r == [i EXCEPT !.unsent = {}, !.retire = {}]
<1>1. IdsFine(r) /\ r.host = i.host /\ r.unsent = {}
  <2>1. DOMAIN r = IdFields /\ r.host = i.host /\ r.unsent = {} /\ r.next = i.next
    BY IdFieldsAre DEF IdsFine
  <2>2. QED
    BY <2>1 DEF IdsFine
<1>2. IdsWritten(i) = r
  BY DEF IdsWritten
<1> HIDE DEF r
<1>3. QED
  BY <1>1, <1>2

----------------------------------------------------------------------------
\* What a packet makes of the connection.

\* The fields F of a connection may have changed.
Changes(c, r, F) ==
  DOMAIN r = ConnFields /\ \A f \in ConnFields \ F : r[f] = c[f]

\* What becomes of its IDs: it goes by one it holds, and those that are new are
\* not sent yet.
Follows(c, r) ==
  /\ IdsFine(r.ids) /\ r.issued = c.issued
  /\ r.host \in r.ids.host /\ r.ids.unsent \subseteq r.ids.host
  /\ \A s \in r.ids.host : s \in r.ids.unsent \/ (s \in c.ids.host /\ s \notin c.ids.unsent)

LEMMA GreetIs ==
  ASSUME NEW c, DOMAIN c = ConnFields, FlagsOK(c), NEW d
  PROVE  Changes(c, Greet(c, d), {"greeted", "again"}) /\ FlagsOK(Greet(c, d))
<1> DEFINE again == c.again \/ c.greeted
           r == [c EXCEPT !.greeted = TRUE, !.again = again]
<1>1. CASE d.hello
  <2>1. Greet(c, d) = r
    BY <1>1 DEF Greet
  <2>2. again \in BOOLEAN
    OBVIOUS
  <2> HIDE DEF again
  <2>3. Changes(c, r, {"greeted", "again"})
    BY DEF Changes, ConnFields
  <2>4. r.greeted \in BOOLEAN /\ r.again = again
    BY DEF ConnFields
  <2>5. r.complete = c.complete /\ r.late = c.late
    BY DEF ConnFields
  <2> HIDE DEF r
  <2>6. FlagsOK(r)
    BY <2>2, <2>4, <2>5 DEF FlagsOK
  <2>7. QED
    BY <2>1, <2>3, <2>6
<1>2. CASE ~d.hello
  BY <1>2 DEF Greet, Changes
<1>3. QED
  BY <1>1, <1>2

LEMMA CompleteIs ==
  ASSUME NEW c, DOMAIN c = ConnFields, FlagsOK(c), IdsOK(c)
  PROVE  LET r == Complete(c)
         IN /\ Changes(c, r, {"complete", "ids"}) /\ FlagsOK(r)
            /\ Follows(c, r)
<1> DEFINE ids == Replenish(c.ids, IdLimit)
           r == [c EXCEPT !.complete = TRUE, !.ids = ids]
<1>1. Complete(c) = r
  BY DEF Complete
<1>2. IdsFine(ids)
  BY ReplenishIs DEF IdsOK
<1>3. PICK new : ids.host = c.ids.host \cup new /\ ids.unsent = c.ids.unsent \cup new
  BY ReplenishIs DEF IdsOK
<1> HIDE DEF ids
<1>4. Changes(c, r, {"complete", "ids"})
  BY DEF Changes, ConnFields
<1>5. r.complete \in BOOLEAN /\ r.ids = ids
  BY DEF ConnFields
<1>6. r.greeted = c.greeted /\ r.again = c.again /\ r.late = c.late /\ r.host = c.host
      /\ r.issued = c.issued
  BY DEF ConnFields
<1> HIDE DEF r
<1>7. FlagsOK(r)
  BY <1>5, <1>6 DEF FlagsOK
<1>8. Follows(c, r)
  BY <1>2, <1>3, <1>5, <1>6 DEF Follows, IdsOK
<1>9. QED
  BY <1>1, <1>4, <1>7, <1>8

\* A step that does not move the path.
Mutable ==
  {"first", "secret", "complete", "greeted", "again", "ids", "host", "issued", "paths", "keys"}
LEMMA ConnKept ==
  ASSUME NEW c, ConnOK(c), NEW r, FlagsOK(r), InPhase(r.keys), PathsOK(r.paths),
         Changes(c, r, Mutable),
         r.paths[1].addr = c.paths[1].addr
  PROVE  ConnOK(r)
<1>1. /\ DOMAIN r = ConnFields /\ r.original = c.original /\ r.retried = c.retried
      /\ r.largest = c.largest /\ r.late = c.late
  BY DEF Changes, ConnFields, Mutable
<1>2. NewestOK(c)
  BY DEF ConnOK
<1>3. NewestOK(r)
  BY <1>1, <1>2 DEF NewestOK
<1>4. QED
  BY <1>1, <1>3 DEF ConnOK

LEMMA FoundOK ==
  ASSUME NEW c, ConnOK(c), NEW d, d.from \in Addrs
  PROVE  LET r == Found(c, d)
         IN /\ ConnOK(r) /\ Changes(c, r, {"paths", "first"}) /\ r.first = FALSE
            /\ \E n \in DOMAIN r.paths : r.paths[n].addr = d.from
<1> DEFINE paths == Find(c.paths, d.from)
           r == [c EXCEPT !.paths = paths, !.first = FALSE]
<1>1. DOMAIN c = ConnFields /\ PathsOK(c.paths) /\ FlagsOK(c) /\ InPhase(c.keys)
  BY DEF ConnOK
<1>2. /\ PathsOK(paths) /\ paths[1] = c.paths[1]
      /\ \E n \in DOMAIN paths : paths[n].addr = d.from
  BY <1>1, FindOK
<1>9. Found(c, d) = r
  BY DEF Found
<1> HIDE DEF paths
<1>3. Changes(c, r, {"paths", "first"}) /\ r.paths = paths /\ r.first = FALSE
  BY <1>1 DEF Changes, ConnFields
<1> HIDE DEF r
<1>4. r.keys = c.keys /\ r.complete = c.complete /\ r.greeted = c.greeted /\ r.again = c.again
      /\ r.late = c.late
  BY <1>3 DEF Changes, ConnFields
<1>5. FlagsOK(r) /\ InPhase(r.keys)
  BY <1>1, <1>4 DEF FlagsOK
<1>6. Changes(c, r, Mutable)
  BY <1>3 DEF Changes, Mutable
<1>7. ConnOK(r)
  BY <1>2, <1>3, <1>5, <1>6, ConnKept
<1>8. QED
  BY <1>2, <1>3, <1>7, <1>9

LEMMA ToldIdsIs ==
  ASSUME NEW c, DOMAIN c = ConnFields, IdsOK(c), NEW d, d.id[3] \in c.ids.host
  PROVE  LET r == ToldIds(c, d)
         IN /\ Changes(c, r, {"ids"}) /\ IdsFine(r.ids)
            /\ d.id[3] \in r.ids.host /\ r.ids.unsent \subseteq r.ids.host
            /\ \A s \in r.ids.host :
                 s \in r.ids.unsent \/ (s \in c.ids.host /\ s \notin c.ids.unsent)
<1> DEFINE learnt == LearnAll(c.ids, d.new)
           ids == RetireAll(learnt, d.retire, d.id[3])
           r == [c EXCEPT !.ids = ids]
<1>1. ToldIds(c, d) = r
  BY DEF ToldIds
<1>2. IdsFine(learnt) /\ learnt.host = c.ids.host /\ learnt.unsent = c.ids.unsent
  BY LearnAllIs DEF IdsOK
<1> HIDE DEF learnt
<1>3. /\ IdsFine(ids) /\ d.id[3] \in ids.host /\ ids.unsent \subseteq ids.host
      /\ \A s \in ids.host : s \in ids.unsent \/ (s \in learnt.host /\ s \notin learnt.unsent)
  BY <1>2, RetireAllIs DEF IdsOK
<1> HIDE DEF ids
<1>4. Changes(c, r, {"ids"}) /\ r.ids = ids
  BY DEF Changes, ConnFields
<1> HIDE DEF r
<1>5. QED
  BY <1>1, <1>2, <1>3, <1>4

LEMMA MigrateIs ==
  ASSUME NEW c, DOMAIN c = ConnFields, IdsFine(c.ids), NEW d
  PROVE  LET r == Migrate(c, d)
         IN /\ Changes(c, r, {"host", "ids"}) /\ r.host = d.id[3]
            /\ IdsFine(r.ids)
            /\ r.ids.host = c.ids.host /\ r.ids.unsent = c.ids.unsent
<1> DEFINE ids == ChangeId(c.ids)
           r == [c EXCEPT !.host = d.id[3], !.ids = ids]
<1>1. CASE d.id[3] = c.host
  BY <1>1 DEF Migrate, Changes
<1>2. CASE d.id[3] # c.host
  <2>1. Migrate(c, d) = r
    BY <1>2 DEF Migrate
  <2>2. IdsFine(ids) /\ ids.host = c.ids.host /\ ids.unsent = c.ids.unsent
    BY ChangeIdIs
  <2> HIDE DEF ids
  <2>3. Changes(c, r, {"host", "ids"}) /\ r.host = d.id[3] /\ r.ids = ids
    BY DEF Changes, ConnFields
  <2> HIDE DEF r
  <2>4. QED
    BY <2>1, <2>2, <2>3
<1>3. QED
  BY <1>1, <1>2

\* The frames of a 1-RTT packet and the ID it came to.
LEMMA FramesOK ==
  ASSUME NEW c, ConnOK(c), IdsOK(c), NEW d, d.id[3] \in c.ids.host, d.from \in Addrs,
         d.echo \in client.reached \cup {None},
         \E n \in DOMAIN c.paths : c.paths[n].addr = d.from
  PROVE  LET r == Migrate(OneRttFrames(c, d), d)
         IN /\ ConnOK(r) /\ Follows(c, r) /\ r.keys = c.keys /\ r.first = c.first
            /\ \E n \in DOMAIN r.paths : r.paths[n].addr = d.from
<1> DEFINE told == ToldIds(c, d)
           paths == Response(told.paths, IndexOf(told.paths, d.from), d.echo)
           f == [told EXCEPT !.paths = paths]
           r == Migrate(f, d)
<1>0. DOMAIN c = ConnFields /\ PathsOK(c.paths) /\ FlagsOK(c) /\ InPhase(c.keys)
  BY DEF ConnOK
<1>1. /\ Changes(c, told, {"ids"}) /\ IdsFine(told.ids)
      /\ d.id[3] \in told.ids.host /\ told.ids.unsent \subseteq told.ids.host
      /\ \A s \in told.ids.host :
           s \in told.ids.unsent \/ (s \in c.ids.host /\ s \notin c.ids.unsent)
  BY <1>0, ToldIdsIs
<1>2. OneRttFrames(c, d) = f
  BY DEF OneRttFrames
<1> HIDE DEF told
<1>3. DOMAIN told = ConnFields /\ told.paths = c.paths
  BY <1>1 DEF Changes, ConnFields
<1>4. PathsOK(paths) /\ SameAddrs(c.paths, paths)
  <2>1. IndexOf(told.paths, d.from) \in DOMAIN c.paths
    BY <1>3, IndexIs
  <2>2. QED
    BY <1>0, <1>3, <2>1, ResponseOK
<1> HIDE DEF paths
<1>5. Changes(told, f, {"paths"}) /\ f.paths = paths
  BY <1>3 DEF Changes, ConnFields
<1> HIDE DEF f
<1>6. DOMAIN f = ConnFields /\ f.ids = told.ids
  BY <1>5 DEF Changes, ConnFields
<1>7. /\ Changes(f, r, {"host", "ids"}) /\ r.host = d.id[3] /\ IdsFine(r.ids)
      /\ r.ids.host = told.ids.host /\ r.ids.unsent = told.ids.unsent
  BY <1>1, <1>6, MigrateIs
<1> HIDE DEF r
<1>8. Changes(c, r, {"ids", "host", "paths"}) /\ r.paths = paths
  BY <1>1, <1>5, <1>7 DEF Changes, ConnFields
<1>9. /\ r.keys = c.keys /\ r.complete = c.complete /\ r.greeted = c.greeted
      /\ r.again = c.again /\ r.late = c.late /\ r.issued = c.issued /\ r.first = c.first
  BY <1>8 DEF Changes, ConnFields
<1>10. FlagsOK(r) /\ InPhase(r.keys)
  BY <1>0, <1>9 DEF FlagsOK
<1>11. Changes(c, r, Mutable)
  BY <1>8 DEF Changes, Mutable
<1>12. 1 \in DOMAIN c.paths
  BY <1>0, PathFacts
<1>13. r.paths[1].addr = c.paths[1].addr
  BY <1>4, <1>8, <1>12 DEF SameAddrs
<1>14. ConnOK(r)
  BY <1>4, <1>8, <1>10, <1>11, <1>13, ConnKept
<1>15. Follows(c, r)
  BY <1>1, <1>7, <1>9 DEF Follows
<1>16. \E n \in DOMAIN r.paths : r.paths[n].addr = d.from
  BY <1>4, <1>8 DEF SameAddrs
<1>17. QED
  BY <1>2, <1>9, <1>14, <1>15, <1>16 DEF r

\* The path of the packet and its number.
LEMMA OnPathOK ==
  ASSUME NEW c, ConnOK(c), NEW d \in ToServer, UpOK(d),
         \E n \in DOMAIN c.paths : c.paths[n].addr = d.from
  PROVE  ConnOK(OnPath(c, d)) /\ Changes(c, OnPath(c, d), {"paths", "largest", "late"})
<1> DEFINE n == IndexOf(c.paths, d.from)
           newest == d.pn > c.largest[d.space]
           seen == IF d.space = "handshake" THEN ByHandshake(c.paths, n) ELSE c.paths
           paths == Promote(seen, n, d.probing, newest)
           last == IF newest THEN d.pn ELSE c.largest[d.space]
           largest == [c.largest EXCEPT ![d.space] = last]
           late == IF newest /\ ~d.probing THEN d.space # "one" /\ c.largest.one >= 0 ELSE c.late
           r == [c EXCEPT !.paths = paths, !.largest = largest, !.late = late]
<1>0. /\ DOMAIN c = ConnFields /\ PathsOK(c.paths) /\ FlagsOK(c) /\ InPhase(c.keys)
      /\ c.largest \in [Spaces -> Int] /\ NewestOK(c)
      /\ d.space \in Spaces /\ d.pn \in Nat /\ d.probing \in BOOLEAN
  BY DEF ConnOK, UpOK
<1>1. OnPath(c, d) = r
  BY DEF OnPath
<1>2. n \in DOMAIN c.paths /\ c.paths[n].addr = d.from
  BY IndexIs
<1>3. PathsOK(seen) /\ SameAddrs(c.paths, seen)
  <2>1. CASE d.space = "handshake"
    BY <1>0, <1>2, <2>1, ByHandshakeOK
  <2>2. CASE d.space # "handshake"
    BY <1>0, <2>2 DEF SameAddrs
  <2>3. QED
    BY <2>1, <2>2
<1> HIDE DEF n, seen
<1>4. n \in DOMAIN seen /\ seen[n].addr = d.from /\ seen[1].addr = c.paths[1].addr
  <2>1. 1 \in DOMAIN c.paths
    BY <1>0, PathFacts
  <2>2. QED
    BY <1>2, <1>3, <2>1 DEF SameAddrs
<1>5. /\ PathsOK(paths)
      /\ ~d.probing /\ newest => paths[1] = seen[n]
      /\ d.probing \/ ~newest => paths = seen
  BY <1>3, <1>4, PromoteOK
<1>6. /\ last \in Int /\ largest \in [Spaces -> Int]
      /\ largest.one = IF d.space = "one" THEN last ELSE c.largest.one
      /\ c.largest.one \in Int /\ late \in BOOLEAN
  <2>1. last \in Int
    BY <1>0
  <2>2. "one" \in Spaces
    BY DEF Spaces
  <2> HIDE DEF last
  <2>3. largest \in [Spaces -> Int]
    BY <1>0, <2>1
  <2>4. largest.one = IF d.space = "one" THEN last ELSE c.largest.one
    BY <1>0, <2>2
  <2>5. c.largest.one \in Int
    BY <1>0, <2>2
  <2>6. late \in BOOLEAN
    BY <1>0 DEF FlagsOK
  <2>7. QED
    BY <2>1, <2>3, <2>4, <2>5, <2>6
<1>7. largest.one >= 0 =>
        \E e \in ToServer : /\ e.space = "one" /\ e.pn = largest.one
                            /\ (~e.probing /\ ~late) => paths[1].addr = e.from
  <2> SUFFICES ASSUME largest.one >= 0
               PROVE  \E e \in ToServer :
                        /\ e.space = "one" /\ e.pn = largest.one
                        /\ (~e.probing /\ ~late) => paths[1].addr = e.from
    OBVIOUS
  <2>1. CASE newest /\ d.space = "one"
    <3>1. largest.one = d.pn
      BY <1>6, <2>1
    <3>2. ~d.probing => paths[1].addr = d.from
      BY <1>4, <1>5, <2>1
    <3>3. QED
      BY <2>1, <3>1, <3>2
  <2>2. CASE ~(newest /\ d.space = "one")
    <3>1. largest.one = c.largest.one
      <4>1. d.space = "one" => last = c.largest.one
        BY <2>2
      <4>2. QED
        BY <1>6, <4>1
    <3>2. PICK e \in ToServer :
            /\ e.space = "one" /\ e.pn = c.largest.one
            /\ (~e.probing /\ ~c.late) => c.paths[1].addr = e.from
      BY <1>0, <3>1 DEF NewestOK
    <3>3. ~late => ~c.late /\ (d.probing \/ ~newest)
      BY <2>2, <3>1
    <3>4. (~e.probing /\ ~late) => paths[1].addr = e.from
      BY <1>4, <1>5, <3>2, <3>3
    <3>5. QED
      BY <3>1, <3>2, <3>4
  <2>3. QED
    BY <2>1, <2>2
<1> HIDE DEF paths, largest, late
<1>8. Changes(c, r, {"paths", "largest", "late"})
  BY <1>0 DEF Changes, ConnFields
<1>9. r.paths = paths /\ r.largest = largest /\ r.late = late
  BY <1>0 DEF ConnFields
<1> HIDE DEF r
<1>10. /\ DOMAIN r = ConnFields /\ r.original = c.original /\ r.retried = c.retried
       /\ r.keys = c.keys /\ r.complete = c.complete /\ r.greeted = c.greeted
       /\ r.again = c.again
  BY <1>8 DEF Changes, ConnFields
<1>11. NewestOK(r)
  BY <1>7, <1>9 DEF NewestOK
<1>12. FlagsOK(r)
  BY <1>0, <1>6, <1>9, <1>10 DEF FlagsOK
<1>13. ConnOK(r)
  BY <1>0, <1>5, <1>6, <1>9, <1>10, <1>11, <1>12 DEF ConnOK
<1>14. QED
  BY <1>1, <1>8, <1>13

\* The path and the number do not touch the IDs.
LEMMA FollowsOnPath ==
  ASSUME NEW c, NEW m, Follows(c, m), NEW r, Changes(m, r, {"paths", "largest", "late"})
  PROVE  Follows(c, r)
<1>1. r.ids = m.ids /\ r.host = m.host /\ r.issued = m.issued
  BY DEF Changes, ConnFields
<1>2. QED
  BY <1>1 DEF Follows

\* A packet that can be read.
LEMMA ReadOK ==
  ASSUME NEW c, ConnOK(c), IdsOK(c), NEW d \in ToServer, UpOK(d), KeysOK(client.keys),
         d.space = "one" => d.id[3] \in c.ids.host, Readable(c, d)
  PROVE  /\ ConnOK(Read(c, d)) /\ Follows(c, Read(c, d))
         /\ Read(c, d).keys.send >= c.keys.send /\ ~Read(c, d).first
<1> DEFINE found == Found(c, d)
<1>0. d.space \in Spaces /\ d.from \in Addrs
  BY DEF UpOK
<1>2. /\ ConnOK(found) /\ Changes(c, found, {"paths", "first"}) /\ found.first = FALSE
      /\ \E n \in DOMAIN found.paths : found.paths[n].addr = d.from
  BY <1>0, FoundOK
<1>3. /\ found.keys = c.keys /\ found.ids = c.ids /\ found.host = c.host
      /\ found.issued = c.issued
  BY <1>2 DEF Changes, ConnFields
<1>4. IdsOK(found)
  BY <1>3 DEF IdsOK
<1>5. Read(c, d) =
        CASE d.space = "initial" -> OnPath(Greet(found, d), d)
          [] d.space = "handshake" -> OnPath(Complete(found), d)
          [] d.space = "one" ->
               OnPath(Migrate(OneRttFrames([found EXCEPT !.keys = Decrypt(@, d)], d), d), d)
  BY DEF Read
<1> HIDE DEF found
<1>6. DOMAIN found = ConnFields /\ FlagsOK(found) /\ InPhase(found.keys) /\ PathsOK(found.paths)
  BY <1>2 DEF ConnOK
<1>11. c.keys.send \in Nat
  BY <1>3, <1>6 DEF InPhase, KeysOK, KeyStates
<1>12. ASSUME NEW m, Changes(m, OnPath(m, d), {"paths", "largest", "late"})
       PROVE  OnPath(m, d).keys = m.keys /\ OnPath(m, d).first = m.first
  BY <1>12 DEF Changes, ConnFields
<1>7. CASE d.space = "initial"
  <2> DEFINE m == Greet(found, d)
  <2>1. Changes(found, m, {"greeted", "again"}) /\ FlagsOK(m)
    BY <1>6, GreetIs
  <2>2. Read(c, d) = OnPath(m, d)
    BY <1>5, <1>7
  <2> HIDE DEF m
  <2>3. /\ m.keys = found.keys /\ m.paths = found.paths /\ m.ids = found.ids
        /\ m.host = found.host /\ m.issued = found.issued /\ m.first = found.first
    BY <2>1 DEF Changes, ConnFields
  <2>4. Changes(found, m, Mutable)
    BY <2>1 DEF Changes, Mutable
  <2>5. ConnOK(m)
    BY <1>2, <1>6, <2>1, <2>3, <2>4, ConnKept
  <2>6. Follows(c, m)
    BY <1>3, <2>3 DEF Follows, IdsOK
  <2>7. \E n \in DOMAIN m.paths : m.paths[n].addr = d.from
    BY <1>2, <2>3
  <2>8. ConnOK(OnPath(m, d)) /\ Changes(m, OnPath(m, d), {"paths", "largest", "late"})
    BY <2>5, <2>7, OnPathOK
  <2>9. QED
    BY <1>2, <1>3, <1>11, <1>12, <2>2, <2>3, <2>6, <2>8, FollowsOnPath
<1>8. CASE d.space = "handshake"
  <2> DEFINE m == Complete(found)
  <2>1. /\ Changes(found, m, {"complete", "ids"}) /\ FlagsOK(m)
        /\ Follows(found, m)
    BY <1>4, <1>6, CompleteIs
  <2>2. Read(c, d) = OnPath(m, d)
    BY <1>5, <1>8
  <2> HIDE DEF m
  <2>3. m.keys = found.keys /\ m.paths = found.paths /\ m.first = found.first
    BY <2>1 DEF Changes, ConnFields
  <2>4. Changes(found, m, Mutable)
    BY <2>1 DEF Changes, Mutable
  <2>5. ConnOK(m)
    BY <1>2, <1>6, <2>1, <2>3, <2>4, ConnKept
  <2>6. Follows(c, m)
    BY <1>3, <2>1 DEF Follows
  <2>7. \E n \in DOMAIN m.paths : m.paths[n].addr = d.from
    BY <1>2, <2>3
  <2>8. ConnOK(OnPath(m, d)) /\ Changes(m, OnPath(m, d), {"paths", "largest", "late"})
    BY <2>5, <2>7, OnPathOK
  <2>9. QED
    BY <1>2, <1>3, <1>11, <1>12, <2>2, <2>3, <2>6, <2>8, FollowsOnPath
<1>9. CASE d.space = "one"
  <2> DEFINE keys == Decrypt(found.keys, d)
             k == [found EXCEPT !.keys = keys]
             m == Migrate(OneRttFrames(k, d), d)
  <2>1. InPhase(keys) /\ keys.send >= found.keys.send
    <3>1. OfPhase(d, client.keys)
      BY <1>9 DEF UpOK
    <3>2. Decrypts(found.keys, d)
      BY <1>3, <1>9 DEF Readable
    <3>3. KeysOK(found.keys) /\ InStep(found.keys, client.keys) /\ InStep(client.keys, found.keys)
      BY <1>6 DEF InPhase
    <3>4. QED
      BY <3>1, <3>2, <3>3, DecryptOK DEF InPhase
  <2>2. Read(c, d) = OnPath(m, d)
    BY <1>5, <1>9
  <2> HIDE DEF keys
  <2>3. Changes(found, k, {"keys"}) /\ k.keys = keys
    BY <1>6 DEF Changes, ConnFields
  <2> HIDE DEF k
  <2>4. /\ k.paths = found.paths /\ k.ids = found.ids /\ k.host = found.host
        /\ k.issued = found.issued /\ k.complete = found.complete
        /\ k.greeted = found.greeted /\ k.again = found.again /\ k.late = found.late
        /\ k.first = found.first
    BY <2>3 DEF Changes, ConnFields
  <2>5. FlagsOK(k) /\ IdsOK(k)
    BY <1>4, <1>6, <2>4 DEF FlagsOK, IdsOK
  <2>6. Changes(found, k, Mutable)
    BY <2>3 DEF Changes, Mutable
  <2>7. ConnOK(k)
    BY <1>2, <1>6, <2>1, <2>3, <2>4, <2>5, <2>6, ConnKept
  <2>8. /\ d.id[3] \in k.ids.host /\ d.echo \in client.reached \cup {None}
        /\ \E n \in DOMAIN k.paths : k.paths[n].addr = d.from
    BY <1>2, <1>3, <1>9, <2>4 DEF UpOK
  <2>9. /\ ConnOK(m) /\ Follows(k, m) /\ m.keys = k.keys /\ m.first = k.first
        /\ \E n \in DOMAIN m.paths : m.paths[n].addr = d.from
    BY <1>0, <2>5, <2>7, <2>8, FramesOK
  <2> HIDE DEF m
  <2>10. Follows(c, m)
    BY <1>3, <2>4, <2>9 DEF Follows
  <2>11. ConnOK(OnPath(m, d)) /\ Changes(m, OnPath(m, d), {"paths", "largest", "late"})
    BY <2>9, OnPathOK
  <2>12. QED
    BY <1>2, <1>3, <1>12, <2>1, <2>2, <2>3, <2>4, <2>9, <2>10, <2>11, FollowsOnPath
<1>10. QED
  BY <1>0, <1>7, <1>8, <1>9 DEF Spaces

\* A connection that has read nothing takes up its keys and its path from the packet.
Ready(c, d) ==
  c.first =>
    /\ d.space = "initial" /\ d.secret = d.id
    /\ c.paths = <<FreshPath(d.from)>>

LEMMA InitializeOK ==
  ASSUME NEW c, ConnOK(c), IdsOK(c), NEW d, Ready(c, d)
  PROVE  LET r == Initialize(c, d)
         IN /\ ConnOK(r) /\ IdsOK(r) /\ r.ids = c.ids /\ r.issued = c.issued /\ r.keys = c.keys
            /\ r.first = c.first /\ (c.first => Readable(r, d))
<1> DEFINE r == [c EXCEPT !.secret = d.id, !.paths = <<FreshPath(d.from)>>]
<1>1. CASE ~c.first
  BY <1>1 DEF Initialize
<1>2. CASE c.first
  <2>1. Initialize(c, d) = r
    BY <1>2 DEF Initialize
  <2>2. DOMAIN c = ConnFields /\ PathsOK(c.paths) /\ FlagsOK(c) /\ InPhase(c.keys)
    BY DEF ConnOK
  <2>3. Changes(c, r, {"secret", "paths"}) /\ r.secret = d.id /\ r.paths = c.paths
    BY <1>2, <2>2 DEF Changes, ConnFields, Ready
  <2> HIDE DEF r
  <2>4. /\ r.keys = c.keys /\ r.complete = c.complete /\ r.greeted = c.greeted
        /\ r.again = c.again /\ r.late = c.late /\ r.ids = c.ids /\ r.issued = c.issued
        /\ r.host = c.host /\ r.first = c.first
    BY <2>3 DEF Changes, ConnFields
  <2>5. FlagsOK(r) /\ IdsOK(r)
    BY <2>2, <2>4 DEF FlagsOK, IdsOK
  <2>6. Changes(c, r, Mutable)
    BY <2>3 DEF Changes, Mutable
  <2>7. ConnOK(r)
    BY <2>2, <2>3, <2>4, <2>5, <2>6, ConnKept
  <2>8. Readable(r, d)
    BY <1>2, <2>3 DEF Readable, Ready
  <2>9. QED
    BY <2>1, <2>4, <2>5, <2>7, <2>8
<1>3. QED
  BY <1>1, <1>2

LEMMA ReceiveOK ==
  ASSUME NEW c, ConnOK(c), IdsOK(c), NEW d \in ToServer, UpOK(d), KeysOK(client.keys),
         d.space = "one" => d.id[3] \in c.ids.host, Ready(c, d)
  PROVE  /\ ConnOK(Receive(c, d)) /\ Follows(c, Receive(c, d))
         /\ Receive(c, d).keys.send >= c.keys.send /\ ~Receive(c, d).first
<1> DEFINE ready == Initialize(c, d)
<1>1. Receive(c, d) = IF Readable(ready, d) THEN Read(ready, d) ELSE ready
  BY DEF Receive, Unexpected, Ready
<1>2. /\ ConnOK(ready) /\ IdsOK(ready) /\ ready.ids = c.ids /\ ready.issued = c.issued
      /\ ready.keys = c.keys /\ ready.first = c.first /\ (c.first => Readable(ready, d))
  BY InitializeOK
<1> HIDE DEF ready
<1>3. CASE Readable(ready, d)
  <2>1. d.space = "one" => d.id[3] \in ready.ids.host
    BY <1>2
  <2>2. /\ ConnOK(Read(ready, d)) /\ Follows(ready, Read(ready, d))
        /\ Read(ready, d).keys.send >= ready.keys.send /\ ~Read(ready, d).first
    BY <1>2, <1>3, <2>1, ReadOK
  <2>3. Follows(c, Read(ready, d))
    BY <1>2, <2>2 DEF Follows
  <2>4. QED
    BY <1>1, <1>2, <1>3, <2>2, <2>3
<1>4. CASE ~Readable(ready, d)
  <2>1. Receive(c, d) = ready
    BY <1>1, <1>4
  <2>2. Follows(c, ready)
    BY <1>2 DEF Follows, IdsOK
  <2>3. c.keys.send \in Nat
    BY DEF ConnOK, InPhase, KeysOK, KeyStates
  <2>4. QED
    BY <1>2, <1>4, <2>1, <2>2, <2>3
<1>5. QED
  BY <1>3, <1>4

----------------------------------------------------------------------------
\* What a datagram makes of the table, and what is sent.

LEMMA IdsDiffer ==
  /\ \A id : HelloId(id) => \A s : id # HostId(1, s)
  /\ \A s, t : HostId(1, s) = HostId(1, t) => s = t
  /\ \A s : OwnId(HostId(1, s)) /\ HostId(1, s)[3] = s
  /\ \A s : HostId(2, 0) # HostId(1, s)
  /\ ~HelloId(HostId(2, 0)) /\ ~OwnId(HostId(2, 0))
  /\ Strays \subseteq {HostId(1, 0), HostId(2, 0)}
BY DEF HelloId, RetryIds, First, RetryId, HostId, OwnId, Strays

\* The events that waited come first, then those of the IDs that are gone.  What leads
\* to the other connection goes on doing so.
LEMMA EventsOK ==
  ASSUME NEW c, IdsOK(c), NEW table, TableOK(table, c), NEW r, Follows(c, r), HelloId(Opening)
  PROVE  LET t == ProcessEvents(table, c, r, 1)
         IN /\ Opening \in DOMAIN t
            /\ \A id \in DOMAIN t : Routes(t, id, r.ids.host)
            /\ \A s \in r.ids.host : HostId(1, s) \in DOMAIN t \/ s \in r.ids.unsent
            /\ \A id \in DOMAIN t : t[id] = 2 => id \in DOMAIN table /\ table[id] = 2
            /\ \A id \in Strays \cap DOMAIN table :
                 table[id] = 2 => id \in DOMAIN t /\ t[id] = 2
<1> DEFINE gone == c.ids.host \ r.ids.host
           now == {HostId(1, s) : s \in c.issued}
           left == {HostId(1, s) : s \in gone}
           with == Issued(table, 1, c.issued)
           t == Retired(with, 1, gone)
<1>1. /\ DOMAIN with = DOMAIN table \cup now
      /\ \A id \in DOMAIN with : with[id] = IF id \in now THEN 1 ELSE table[id]
  BY DEF Issued, Routed
<1>3. ProcessEvents(table, c, r, 1) = t
  BY DEF ProcessEvents
<1> HIDE DEF with
<1>2. /\ DOMAIN t = DOMAIN with \ left
      /\ \A id \in DOMAIN t : t[id] = with[id]
  BY DEF Retired, Restrict
<1> HIDE DEF t
<1>0. /\ \A s : HostId(1, s) \in now => s \in c.issued
      /\ \A s : HostId(1, s) \in left => s \in gone
      /\ Opening \notin now /\ Opening \notin left
      /\ HostId(2, 0) \notin now /\ HostId(2, 0) \notin left
  BY IdsDiffer
<1>4. Opening \in DOMAIN t
  BY <1>0, <1>1, <1>2 DEF TableOK
<1>9. 0 \notin c.ids.host => 0 \notin r.ids.host
  BY DEF Follows, IdsFine
<1>5. ASSUME NEW id \in DOMAIN t
      PROVE  Routes(t, id, r.ids.host) /\ (t[id] = 2 => id \in DOMAIN table /\ table[id] = 2)
  <2>1. id \in DOMAIN with /\ id \notin left /\ t[id] = with[id]
    BY <1>2
  <2>2. CASE id \notin now
    <3>1. id \in DOMAIN table /\ t[id] = table[id] /\ Routes(table, id, c.ids.host)
      BY <1>1, <2>1, <2>2 DEF TableOK
    <3>2. OwnId(id) => id = HostId(1, id[3])
      BY DEF OwnId
    <3>3. OwnId(id) /\ id[3] \in c.ids.host => id[3] \in r.ids.host
      BY <2>1, <3>2
    <3>4. QED
      BY <1>9, <3>1, <3>3 DEF Routes
  <2>3. CASE id \in now
    <3>1. PICK s \in c.issued : id = HostId(1, s)
      BY <2>3
    <3>2. s \in r.ids.host
      BY <2>1, <3>1 DEF IdsOK
    <3>3. OwnId(id) /\ id[3] = s
      BY <3>1, IdsDiffer
    <3>4. t[id] = 1
      BY <1>1, <2>1, <2>3
    <3>5. QED
      BY <3>2, <3>3, <3>4 DEF Routes
  <2>4. QED
    BY <2>2, <2>3
<1>6. ASSUME NEW s \in r.ids.host, s \notin r.ids.unsent
      PROVE  HostId(1, s) \in DOMAIN t
  <2>1. s \in c.ids.host /\ s \notin c.ids.unsent
    BY <1>6 DEF Follows
  <2>2. HostId(1, s) \in DOMAIN table \/ s \in c.issued
    BY <2>1 DEF TableOK
  <2>3. HostId(1, s) \notin left
    BY <1>0
  <2>4. QED
    BY <1>1, <1>2, <2>2, <2>3
<1>7. ASSUME NEW id \in Strays \cap DOMAIN table, table[id] = 2
      PROVE  id \in DOMAIN t /\ t[id] = 2
  <2>1. CASE id = HostId(2, 0)
    BY <1>0, <1>1, <1>2, <1>7, <2>1
  <2>2. CASE id = HostId(1, 0)
    <3>1. 0 \notin c.ids.host
      BY <1>7 DEF TableOK, Routes
    <3>2. id \notin now /\ id \notin left
      BY <1>0, <2>2, <3>1 DEF IdsOK
    <3>3. QED
      BY <1>1, <1>2, <1>7, <3>2
  <2>3. QED
    BY <2>1, <2>2, IdsDiffer
<1>8. QED
  BY <1>3, <1>4, <1>5, <1>6, <1>7

\* A 1-RTT packet is written.
LEMMA TransmitOK ==
  ASSUME NEW c, ConnOK(c), IdsFine(c.ids), KeysOK(client.keys)
  PROVE  /\ ConnOK(Transmit(c)) /\ Transmit(c).keys.send >= c.keys.send
         /\ Transmit(c).host = c.host /\ Transmit(c).issued = c.issued \cup c.ids.unsent
         /\ Transmit(c).first = c.first
         /\ IdsFine(Transmit(c).ids) /\ Transmit(c).ids.host = c.ids.host
         /\ Transmit(c).ids.unsent = {}
         /\ OneRttPacket(c).dir = "down" /\ OneRttPacket(c).kind = "one"
         /\ OneRttPacket(c).to \in Addrs /\ OfPhase(OneRttPacket(c), Transmit(c).keys)
<1> DEFINE keys == Encrypt(c.keys)  ids == IdsWritten(c.ids)
           issued == c.issued \cup c.ids.unsent
           paths == IF c.complete THEN Challenge(c.paths) ELSE c.paths
           r == [c EXCEPT !.keys = keys, !.ids = ids, !.issued = issued, !.paths = paths]
<1>0. DOMAIN c = ConnFields /\ PathsOK(c.paths) /\ FlagsOK(c) /\ InPhase(c.keys)
  BY DEF ConnOK
<1>1. Transmit(c) = r
  BY DEF Transmit
<1>2. /\ InPhase(keys) /\ keys.send >= c.keys.send
      /\ Phase(c.keys) = keys.send % 2 /\ keys.send \in Nat
  BY <1>0, EncryptOK DEF InPhase
<1>3. IdsFine(ids) /\ ids.host = c.ids.host /\ ids.unsent = {}
  BY IdsWrittenIs
<1>4. PathsOK(paths) /\ SameAddrs(c.paths, paths) /\ 1 \in DOMAIN c.paths /\ c.paths[1].addr \in Addrs
  <2>1. SameAddrs(c.paths, c.paths)
    BY DEF SameAddrs
  <2>2. QED
    BY <1>0, <2>1, ChallengeOK, PathFacts
<1>5. /\ OneRttPacket(c).dir = "down" /\ OneRttPacket(c).kind = "one"
      /\ OneRttPacket(c).to \in Addrs /\ OfPhase(OneRttPacket(c), keys)
  <2>1. /\ OneRttPacket(c).dir = "down" /\ OneRttPacket(c).kind = "one"
        /\ OneRttPacket(c).to = c.paths[1].addr
        /\ OneRttPacket(c).bit = Phase(c.keys) /\ OneRttPacket(c).gen = keys.send
    BY DEF OneRttPacket
  <2> HIDE DEF keys
  <2>2. QED
    BY <1>2, <1>4, <2>1 DEF OfPhase
<1> HIDE DEF keys, ids, issued, paths
<1>6. /\ Changes(c, r, {"keys", "ids", "issued", "paths"})
      /\ r.keys = keys /\ r.ids = ids /\ r.issued = issued /\ r.paths = paths
  BY <1>0 DEF Changes, ConnFields
<1> HIDE DEF r
<1>7. /\ r.host = c.host /\ r.complete = c.complete /\ r.greeted = c.greeted
      /\ r.again = c.again /\ r.late = c.late /\ r.first = c.first
  BY <1>6 DEF Changes, ConnFields
<1>8. FlagsOK(r)
  BY <1>0, <1>7 DEF FlagsOK
<1>9. Changes(c, r, Mutable)
  BY <1>6 DEF Changes, Mutable
<1>10. r.paths[1].addr = c.paths[1].addr
  BY <1>4, <1>6 DEF SameAddrs
<1>11. ConnOK(r)
  BY <1>2, <1>4, <1>6, <1>8, <1>9, <1>10, ConnKept
<1>12. QED
  BY <1>1, <1>2, <1>3, <1>5, <1>6, <1>7, <1>11 DEF issued

\* The state in which a datagram finds the server, for the first connection.
Holds(c, table) ==
  \/ conns = <<>> /\ \A id \in DOMAIN table : table[id] # 2
  \/ Numbered(conns, table) /\ conns[1] = c

\* The connections after the first one has changed.
LEMMA FirstChanges ==
  ASSUME NEW c, NEW table, Holds(c, table), NEW after, ~after.first,
         conns' = [j \in DOMAIN conns \cup {1} |-> IF j # 1 THEN conns[j] ELSE after],
         \A id \in DOMAIN routes' : routes'[id] = 2 => id \in DOMAIN table /\ table[id] = 2,
         \A id \in Strays \cap DOMAIN table :
           table[id] = 2 => id \in DOMAIN routes' /\ routes'[id] = 2,
         \A id \in DOMAIN table : id = HostId(2, 0) => table[id] = 2
  PROVE  Numbered(conns', routes') /\ conns'[1] = after
         /\ (conns # <<>> => Len(conns') = Len(conns))
<1>1. CASE DOMAIN conns \cup {1} = 1..1
  <2>1. conns' = [j \in 1..1 |-> after]
    BY <1>1
  <2>2. conns' = <<after>>
    BY <2>1
  <2>3. Len(conns') = 1 /\ conns'[1] = after
    BY <2>2
  <2>4. DOMAIN conns' = 1..1
    BY <2>1
  <2>5. conns # <<>> => Len(conns) = 1
    BY <1>1 DEF Holds, Numbered
  <2>6. \A id \in DOMAIN table : table[id] # 2
    BY <1>1, <2>5 DEF Holds, Numbered
  <2>7. \A id \in DOMAIN routes' : routes'[id] # 2
    BY <2>6
  <2>8. QED
    BY <2>3, <2>4, <2>5, <2>7 DEF Numbered
<1>2. CASE conns # <<>> /\ DOMAIN conns = 1..2 /\ Len(conns) = 2
  <2>1. Numbered(conns, table) /\ conns[1] = c
    BY <1>2 DEF Holds
  <2>2. 1 \in DOMAIN conns /\ 2 \in DOMAIN conns
    BY <1>2
  <2>3. conns' = [j \in 1..2 |-> IF j # 1 THEN conns[j] ELSE after]
    BY <1>2, <2>2
  <2>4. conns' = <<after, conns[2]>>
    BY <2>3
  <2>5. Len(conns') = 2 /\ conns'[1] = after /\ conns'[2] = conns[2]
    BY <2>4
  <2>6. DOMAIN conns' = 1..2
    BY <2>3
  <2>7. Unread(conns[2]) /\ Strays \subseteq DOMAIN table /\ table[HostId(1, 0)] = 2
    BY <1>2, <2>1 DEF Numbered
  <2>8. HostId(2, 0) \in Strays /\ HostId(1, 0) \in Strays
    BY DEF Strays
  <2>9. Strays \subseteq DOMAIN routes' /\ routes'[HostId(1, 0)] = 2
    BY <2>7, <2>8 DEF Strays
  <2>10. QED
    BY <1>2, <2>5, <2>6, <2>7, <2>9 DEF Numbered
<1>3. CASE conns = <<>>
  <2>1. DOMAIN conns \cup {1} = 1..1
    BY <1>3
  <2>2. QED
    BY <1>1, <2>1
<1>4. CASE conns # <<>> /\ Len(conns) = 1
  <2>1. DOMAIN conns \cup {1} = 1..1
    BY <1>4 DEF Holds, Numbered
  <2>2. QED
    BY <1>1, <2>1
<1>5. QED
  BY <1>2, <1>3, <1>4 DEF Holds, Numbered

\* datagram_received in the connection.
LEMMA DeliverIs ==
  ASSUME NEW c, ConnOK(c), IdsOK(c), NEW table, TableOK(table, c), NEW d \in ToServer, UpOK(d),
         d.space = "one" => d.id[3] \in c.ids.host, Ready(c, d),
         KeysOK(client.keys), HelloId(Opening), Deliver(c, 1, table, d), Holds(c, table)
  PROVE  /\ client' = client /\ conf' = conf
         /\ Numbered(conns', routes') /\ (conns # <<>> => Len(conns') = Len(conns))
         /\ ConnOK(conns'[1]) /\ IdsOK(conns'[1]) /\ TableOK(routes', conns'[1])
         /\ conns'[1].keys.send >= c.keys.send
         /\ \E new : /\ sent' = sent \cup new /\ IsFiniteSet(new)
                     /\ \A p \in new :
                          /\ p.dir = "down" /\ p.to \in Addrs
                          /\ \/ p.kind = "hello" /\ p.id = HostId(1, 0)
                                /\ p.original = First /\ p.retried = client.retried
                             \/ p.kind = "one" /\ OfPhase(p, conns'[1].keys)
<1> DEFINE got == Receive(c, d)
           next == [got EXCEPT !.issued = {}]
           due == Due(c, got, d)
           after == IF due THEN Transmit(next) ELSE next
           new == (IF got.greeted # c.greeted THEN {Hello(got, 1)} ELSE {})
                    \cup (IF due THEN {OneRttPacket(next)} ELSE {})
<1>1. /\ ConnOK(got) /\ Follows(c, got) /\ got.keys.send >= c.keys.send /\ ~got.first
  BY ReceiveOK
<1>2. /\ routes' = ProcessEvents(table, c, got, 1)
      /\ conns' = [j \in DOMAIN conns \cup {1} |-> IF j # 1 THEN conns[j] ELSE after]
      /\ sent' = sent \cup new
      /\ client' = client /\ conf' = conf
  BY DEF Deliver
<1> HIDE DEF got
<1>3. /\ Opening \in DOMAIN routes'
      /\ \A id \in DOMAIN routes' : Routes(routes', id, got.ids.host)
      /\ \A s \in got.ids.host : HostId(1, s) \in DOMAIN routes' \/ s \in got.ids.unsent
      /\ \A id \in DOMAIN routes' : routes'[id] = 2 => id \in DOMAIN table /\ table[id] = 2
      /\ \A id \in Strays \cap DOMAIN table :
           table[id] = 2 => id \in DOMAIN routes' /\ routes'[id] = 2
  BY <1>1, <1>2, EventsOK
<1>4. /\ ConnOK(next) /\ next.keys = got.keys /\ next.ids = got.ids
      /\ next.host = got.host /\ next.issued = {} /\ next.first = got.first
  <2>1. DOMAIN got = ConnFields /\ FlagsOK(got) /\ InPhase(got.keys) /\ PathsOK(got.paths)
    BY <1>1 DEF ConnOK
  <2>2. Changes(got, next, {"issued"}) /\ next.issued = {}
    BY <2>1 DEF Changes, ConnFields
  <2> HIDE DEF next
  <2>3. /\ next.keys = got.keys /\ next.ids = got.ids /\ next.host = got.host
        /\ next.complete = got.complete /\ next.greeted = got.greeted
        /\ next.again = got.again /\ next.late = got.late /\ next.paths = got.paths
        /\ next.first = got.first
    BY <2>2 DEF Changes, ConnFields
  <2>4. FlagsOK(next)
    BY <2>1, <2>3 DEF FlagsOK
  <2>5. Changes(got, next,
                Mutable)
    BY <2>2 DEF Changes, Mutable
  <2>6. ConnOK(next)
    BY <1>1, <2>1, <2>3, <2>4, <2>5, ConnKept
  <2>7. QED
    BY <2>2, <2>3, <2>6
<1>5. /\ IdsFine(got.ids) /\ got.host \in got.ids.host
      /\ got.ids.unsent \subseteq got.ids.host
  BY <1>1 DEF Follows
<1> HIDE DEF next
<1>6. /\ ConnOK(Transmit(next)) /\ Transmit(next).keys.send >= next.keys.send
      /\ Transmit(next).host = next.host /\ Transmit(next).issued = next.ids.unsent
      /\ Transmit(next).first = next.first
      /\ IdsFine(Transmit(next).ids) /\ Transmit(next).ids.host = next.ids.host
      /\ Transmit(next).ids.unsent = {}
      /\ OneRttPacket(next).dir = "down" /\ OneRttPacket(next).kind = "one"
      /\ OneRttPacket(next).to \in Addrs /\ OfPhase(OneRttPacket(next), Transmit(next).keys)
  <2>1. ConnOK(next) /\ IdsFine(next.ids) /\ KeysOK(client.keys)
    BY <1>4, <1>5
  <2>2. Transmit(next).issued = next.issued \cup next.ids.unsent
    BY <2>1, TransmitOK
  <2>3. QED
    BY <1>4, <2>1, <2>2, TransmitOK
<1> HIDE DEF due
<1>7. ConnOK(after) /\ IdsOK(after) /\ TableOK(routes', after)
  <2>1. CASE due
    <3>1. after = Transmit(next)
      BY <2>1
    <3> HIDE DEF after
    <3>2. IdsOK(after)
      BY <1>4, <1>5, <1>6, <3>1 DEF IdsOK, IdsFine
    <3>3. TableOK(routes', after)
      BY <1>3, <1>4, <1>6, <3>1 DEF TableOK
    <3>4. QED
      BY <1>6, <3>1, <3>2, <3>3
  <2>2. CASE ~due
    <3>1. after = next
      BY <2>2
    <3> HIDE DEF after
    <3>2. IdsOK(after)
      BY <1>4, <1>5, <3>1 DEF IdsOK
    <3>3. TableOK(routes', after)
      BY <1>3, <1>4, <3>1 DEF TableOK
    <3>4. QED
      BY <1>4, <3>1, <3>2, <3>3
  <2>3. QED
    BY <2>1, <2>2
<1>8. after.keys.send >= c.keys.send
  <2>1. /\ c.keys.send \in Nat /\ got.keys.send \in Nat /\ Transmit(next).keys.send \in Nat
    BY <1>1, <1>6 DEF ConnOK, InPhase, KeysOK, KeyStates
  <2>2. QED
    BY <1>1, <1>4, <1>6, <2>1
<1>9. Numbered(conns', routes') /\ conns'[1] = after
      /\ (conns # <<>> => Len(conns') = Len(conns))
  <2>1. ~after.first
    BY <1>1, <1>4, <1>6
  <2>2. \A id \in DOMAIN table : id = HostId(2, 0) => table[id] = 2
    BY IdsDiffer DEF TableOK, Routes
  <2> HIDE DEF after
  <2>3. conns' = [j \in DOMAIN conns \cup {1} |-> IF j # 1 THEN conns[j] ELSE after]
    BY <1>2
  <2>4. QED
    BY <1>3, <2>1, <2>2, <2>3, FirstChanges
<1>11. /\ IsFiniteSet(new)
       /\ \A p \in new :
            /\ p.dir = "down" /\ p.to \in Addrs
            /\ \/ p.kind = "hello" /\ p.id = HostId(1, 0)
                  /\ p.original = First /\ p.retried = client.retried
               \/ p.kind = "one" /\ OfPhase(p, after.keys)
  <2>1. IsFiniteSet({}) /\ IsFiniteSet({Hello(got, 1)}) /\ IsFiniteSet({OneRttPacket(next)})
    BY FS_EmptySet, FS_Singleton
  <2>2. IsFiniteSet(new)
    BY <2>1, FS_Union
  <2>3. /\ Hello(got, 1).dir = "down" /\ Hello(got, 1).kind = "hello"
        /\ Hello(got, 1).to \in Addrs /\ Hello(got, 1).id = HostId(1, 0)
        /\ Hello(got, 1).original = First /\ Hello(got, 1).retried = client.retried
    <3>1. got.original = First /\ got.retried = client.retried /\ got.paths[1].addr \in Addrs
      BY <1>1, PathFacts DEF ConnOK
    <3>2. QED
      BY <3>1 DEF Hello
  <2>4. due => OfPhase(OneRttPacket(next), after.keys)
    BY <1>6
  <2> HIDE DEF after
  <2>5. QED
    BY <1>6, <2>2, <2>3, <2>4
<1> HIDE DEF after, new
<1>12. QED
  BY <1>2, <1>7, <1>8, <1>9, <1>11

----------------------------------------------------------------------------
\* Steps of the server.

LEMMA ConnCarried ==
  ASSUME ConnOK(conns'[1]), client'.retried = client.retried,
         client.reached \subseteq client'.reached, ToServer \subseteq ToServer',
         InStep(conns'[1].keys, client'.keys), InStep(client'.keys, conns'[1].keys)
  PROVE  ConnOK(conns[1])'
<1>1. PathsOK(conns[1].paths)'
  BY DEF ConnOK, PathsOK
<1>2. NewestOK(conns[1])'
  BY DEF ConnOK, NewestOK
<1>3. InPhase(conns[1].keys)'
  BY DEF ConnOK, InPhase, KeysOK, InStep
<1>4. FlagsOK(conns[1])'
  BY DEF ConnOK, FlagsOK
<1>5. QED
  BY <1>1, <1>2, <1>3, <1>4 DEF ConnOK

LEMMA TableCarried ==
  ASSUME IdsOK(conns'[1]), TableOK(routes', conns'[1]), client'.retried = client.retried,
         conf' = conf
  PROVE  IdsOK(conns[1])' /\ TableOK(routes, conns[1])'
<1>1. Opening' = Opening
  BY DEF Opening
<1>2. IdsOK(conns[1])'
  BY DEF IdsOK
<1>3. TableOK(routes, conns[1])'
  BY <1>1 DEF TableOK, Routes
<1>4. QED
  BY <1>2, <1>3

\* Packets the server adds are not among those sent to it.
LEMMA DownApart ==
  ASSUME NEW new, \A p \in new : p.dir = "down", sent' = sent \cup new
  PROVE  ToServer' = ToServer
BY DEF ToServer

\* What the client sent stays what it was.
LEMMA UpCarried ==
  ASSUME NEW d, UpOK(d), ToServer' = ToServer, client' = client, conns # <<>> => conns' # <<>>
  PROVE  UpOK(d)'
BY DEF UpOK, OfPhase

LEMMA NotEmpty ==
  ASSUME NEW all, NEW table, Numbered(all, table)
  PROVE  all # <<>> /\ 1 \in DOMAIN all
<1>1. Len(all) # 0
  BY DEF Numbered
<1>2. all # <<>>
  BY <1>1
<1>3. QED
  BY <1>2 DEF Numbered

LEMMA NumberedCarried ==
  ASSUME Numbered(conns', routes')
  PROVE  Numbered(conns, routes)'
BY DEF Numbered, Unread

LEMMA AnswerKeeps ==
  ASSUME ServerInv, NEW p, Answer(p), p.dir = "down", DownOK(p),
         client.version = "old" => p.kind = "versions"
  PROVE  ServerInv'
<1>0. /\ conf \in Settings /\ SentOK /\ ClientOK /\ ConnsOK
      /\ sent' = sent \cup {p} /\ conf' = conf /\ routes' = routes /\ conns' = conns
      /\ client' = client
  BY DEF ServerInv, Answer
<1>1. ToServer' = ToServer
  BY <1>0 DEF ToServer
<1>2. SentOK'
  <2>1. IsFiniteSet(sent')
    <3>1. IsFiniteSet(sent)
      BY <1>0 DEF SentOK
    <3>2. IsFiniteSet(sent \cup {p})
      BY <3>1, FS_AddElement
    <3>3. QED
      BY <1>0, <3>2
  <2>2. \A d : DownOK(d) => DownOK(d)'
    BY <1>0 DEF DownOK, OfPhase
  <2>3. \A d : UpOK(d) => UpOK(d)'
    BY <1>0, <1>1, UpCarried
  <2>4. \A d \in sent' : IF d.dir = "up" THEN UpOK(d)' ELSE d.dir = "down" /\ DownOK(d)'
    BY <1>0, <2>2, <2>3 DEF SentOK
  <2>5. QED
    BY <2>1, <2>4 DEF SentOK
<1>3. ClientOK'
  <2>1. Reconnected'
    BY <1>0, <1>1 DEF Reconnected, ClientOK, ClientFits
  <2>2. QED
    BY <1>0, <2>1 DEF ClientOK, ClientFits, KeysOK
<1>4. ConnsOK'
  <2>1. CASE conns = <<>>
    BY <1>0, <2>1, NotEmpty DEF ConnsOK
  <2>2. CASE conns # <<>>
    <3>1. /\ Numbered(conns, routes)
          /\ ConnOK(conns[1]) /\ IdsOK(conns[1]) /\ TableOK(routes, conns[1])
          /\ conf.retry <=> client.retried # None
      BY <1>0, <2>2 DEF ConnsOK
    <3>2. ConnOK(conns[1])'
      BY <1>0, <1>1, <3>1, ConnCarried DEF ConnOK, InPhase
    <3>3. IdsOK(conns[1])' /\ TableOK(routes, conns[1])'
      BY <1>0, <3>1, TableCarried
    <3>4. Numbered(conns, routes)'
      BY <1>0, <3>1, NumberedCarried
    <3>5. QED
      BY <1>0, <3>1, <3>2, <3>3, <3>4 DEF ConnsOK
  <2>3. QED
    BY <2>1, <2>2
<1>5. QED
  BY <1>0, <1>2, <1>3, <1>4 DEF ServerInv

LEMMA AnswerVersionKeeps ==
  ASSUME ServerInv, NEW d \in ToServer, AnswerVersion(d)
  PROVE  ServerInv'
<1> DEFINE p == [dir |-> "down", kind |-> "versions", to |-> d.from]
<1>1. d.from \in Addrs
  BY DEF ServerInv, SentOK, ToServer, UpOK
<1>2. p.dir = "down" /\ p.kind = "versions" /\ p.to = d.from /\ Answer(p)
  BY DEF AnswerVersion
<1> HIDE DEF p
<1>3. DownOK(p)
  BY <1>1, <1>2 DEF DownOK
<1>4. QED
  BY <1>2, <1>3, AnswerKeeps

LEMMA AnswerRetryKeeps ==
  ASSUME ServerInv, NEW d \in ToServer, AnswerRetry(d)
  PROVE  ServerInv'
<1> DEFINE id == RetryId(Retries)
           token == [addr |-> d.from, original |-> d.id, retried |-> id]
           p == [dir |-> "down", kind |-> "retry", to |-> d.from, id |-> id, token |-> token]
<1>0. SentOK /\ ClientOK /\ UpOK(d)
  BY DEF ServerInv, SentOK, ToServer
<1>1. /\ Opens(d) /\ conf.retry /\ d.token = None /\ Retries < MaxRetries /\ Answer(p)
  BY DEF AnswerRetry
<1>2. id \in RetryIds
  <2>1. IsFiniteSet({x \in sent : x.dir = "down" /\ x.kind = "retry"})
    BY <1>0, FS_Subset DEF SentOK
  <2>2. Retries \in Nat
    BY <2>1, FS_CardinalityType DEF Retries
  <2>3. Retries \in 0..MaxRetries
    BY <1>1, <2>2, ServerAssumption
  <2>4. QED
    BY <2>3 DEF RetryIds
<1> HIDE DEF id
<1>3. d.id = First
  <2>1. client.retried # None => client.token \in Tokens
    BY <1>0 DEF ClientOK, Reconnected
  <2>2. None \notin Tokens
    BY ServerAssumption
  <2>3. ConnsOK
    BY DEF ServerInv
  <2>4. CASE d.hello
    BY <1>0, <1>1, <2>1, <2>2, <2>4 DEF UpOK, Opens
  <2>5. CASE ~d.hello
    BY <1>0, <1>1, <2>1, <2>2, <2>3, <2>5 DEF UpOK, Opens, ConnsOK
  <2>6. QED
    BY <2>4, <2>5
<1>4. d.from \in Addrs /\ d.version = client.version /\ client.version # "old"
  BY <1>0, <1>1 DEF UpOK, Opens
<1>5. token = [addr |-> d.from, original |-> First, retried |-> id]
  BY <1>3
<1> HIDE DEF token
<1>6. /\ p.dir = "down" /\ p.kind = "retry" /\ p.to = d.from /\ p.id = id /\ p.token = token
  OBVIOUS
<1> HIDE DEF p
<1>7. DownOK(p)
  BY <1>1, <1>2, <1>4, <1>5, <1>6 DEF DownOK
<1>8. QED
  BY <1>1, <1>4, <1>6, <1>7, AnswerKeeps

\* What the server sent stays what it was.
LEMMA DownCarried ==
  ASSUME NEW d, DownOK(d), client'.retried = client.retried, conf' = conf,
         conns # <<>> =>
           /\ conns' # <<>>
           /\ conns[1].keys.send \in Nat /\ conns'[1].keys.send \in Nat
           /\ conns'[1].keys.send >= conns[1].keys.send
  PROVE  DownOK(d)'
BY DEF DownOK, OfPhase

\* The connection is made or changed; the client does not move.
LEMMA ServerMoves ==
  ASSUME ServerInv, client' = client, conf' = conf, client.version # "old",
         conf.retry <=> client.retried # None,
         Numbered(conns', routes'),
         ConnOK(conns'[1]), IdsOK(conns'[1]), TableOK(routes', conns'[1]),
         conns # <<>> => conns'[1].keys.send >= conns[1].keys.send,
         NEW new, sent' = sent \cup new, IsFiniteSet(new),
         \A p \in new :
           /\ p.dir = "down" /\ p.to \in Addrs
           /\ \/ p.kind = "hello" /\ p.id = HostId(1, 0)
                 /\ p.original = First /\ p.retried = client.retried
              \/ p.kind = "one" /\ OfPhase(p, conns'[1].keys)
  PROVE  ServerInv'
<1>0. conf \in Settings /\ SentOK /\ ClientOK /\ ConnsOK
  BY DEF ServerInv
<1>1. ToServer' = ToServer
  BY DownApart
<1>2. conns' # <<>>
  BY NotEmpty
<1>3. conns # <<>> => conns[1].keys.send \in Nat /\ conns'[1].keys.send \in Nat
  BY <1>0 DEF ConnsOK, ConnOK, InPhase, KeysOK, KeyStates
<1>4. SentOK'
  <2>1. IsFiniteSet(sent')
    <3>1. IsFiniteSet(sent)
      BY <1>0 DEF SentOK
    <3>2. IsFiniteSet(sent \cup new)
      BY <3>1, FS_Union
    <3>3. QED
      BY <3>2
  <2>2. ASSUME NEW d \in sent PROVE IF d.dir = "up" THEN UpOK(d)' ELSE d.dir = "down" /\ DownOK(d)'
    <3>1. IF d.dir = "up" THEN UpOK(d) ELSE d.dir = "down" /\ DownOK(d)
      BY <1>0 DEF SentOK
    <3>2. UpOK(d) => UpOK(d)'
      BY <1>1, <1>2, UpCarried
    <3>3. DownOK(d) => DownOK(d)'
      BY <1>2, <1>3, DownCarried
    <3>4. QED
      BY <3>1, <3>2, <3>3
  <2>3. ASSUME NEW d \in new PROVE d.dir = "down" /\ DownOK(d)'
    <3>1. (conns[1].keys)' = conns'[1].keys
      OBVIOUS
    <3>2. OfPhase(d, conns'[1].keys) => OfPhase(d, conns[1].keys)'
      BY DEF OfPhase
    <3>3. QED
      BY <1>2, <3>2 DEF DownOK
  <2>4. QED
    BY <2>1, <2>2, <2>3 DEF SentOK
<1>5. ClientOK'
  <2>1. Reconnected'
    BY <1>0 DEF Reconnected, ClientOK, ClientFits
  <2>2. QED
    BY <1>0, <1>2, <2>1 DEF ClientOK, ClientFits, KeysOK
<1>6. ConnsOK'
  <2>1. ConnOK(conns[1])'
    BY <1>1, ConnCarried DEF ConnOK, InPhase
  <2>2. IdsOK(conns[1])' /\ TableOK(routes, conns[1])'
    BY TableCarried
  <2>3. Numbered(conns, routes)'
    BY NumberedCarried
  <2>4. QED
    BY <2>1, <2>2, <2>3 DEF ConnsOK
<1>7. QED
  BY <1>0, <1>4, <1>5, <1>6 DEF ServerInv

\* A datagram is delivered to the connection c.
LEMMA DeliverKeeps ==
  ASSUME ServerInv, NEW d \in ToServer, d.version # "old",
         NEW c, ConnOK(c), IdsOK(c), NEW table, TableOK(table, c),
         d.space = "one" => d.id[3] \in c.ids.host,
         Ready(c, d), conf.retry <=> client.retried # None,
         Deliver(c, 1, table, d), Holds(c, table)
  PROVE  ServerInv'
<1>1. SentOK /\ ClientOK /\ UpOK(d) /\ KeysOK(client.keys)
  BY DEF ServerInv, SentOK, ToServer, ClientOK, ClientFits
<1>2. HelloId(Opening)
  BY <1>1 DEF Opening, HelloId, ClientOK, ClientFits, Reconnected
<1>3. /\ client' = client /\ conf' = conf
      /\ Numbered(conns', routes')
      /\ ConnOK(conns'[1]) /\ IdsOK(conns'[1]) /\ TableOK(routes', conns'[1])
      /\ conns'[1].keys.send >= c.keys.send
      /\ \E new : /\ sent' = sent \cup new /\ IsFiniteSet(new)
                  /\ \A p \in new :
                       /\ p.dir = "down" /\ p.to \in Addrs
                       /\ \/ p.kind = "hello" /\ p.id = HostId(1, 0)
                             /\ p.original = First /\ p.retried = client.retried
                          \/ p.kind = "one" /\ OfPhase(p, conns'[1].keys)
  BY <1>1, <1>2, DeliverIs
<1>4. PICK new : /\ sent' = sent \cup new /\ IsFiniteSet(new)
                 /\ \A p \in new :
                      /\ p.dir = "down" /\ p.to \in Addrs
                      /\ \/ p.kind = "hello" /\ p.id = HostId(1, 0)
                            /\ p.original = First /\ p.retried = client.retried
                         \/ p.kind = "one" /\ OfPhase(p, conns'[1].keys)
  BY <1>3
<1>5. client.version # "old"
  BY <1>1 DEF UpOK
<1>6. conns # <<>> => conns'[1].keys.send >= conns[1].keys.send
  BY <1>3 DEF Holds
<1>7. QED
  BY <1>3, <1>4, <1>5, <1>6, ServerMoves

\* A hello that opens a connection is the first packet to do so.
LEMMA FirstConnectionKeeps ==
  ASSUME ServerInv, NEW d \in ToServer, NewConnection(d), conns = <<>>
  PROVE  ServerInv'
<1> DEFINE retried == IF conf.retry THEN d.token.retried ELSE None
           c == FreshConnection(Original(d), retried, d.from)
           table == Register(d, 1)
<1>0. /\ SentOK /\ ClientOK /\ Reconnected /\ ConnsOK /\ UpOK(d)
  BY DEF ServerInv, SentOK, ToServer, ClientOK
<1>1. /\ d.version # "old" /\ d.space = "initial" /\ d.hello
      /\ conf.retry => d.token # None
  BY <1>0 DEF NewConnection, Opens, TokenValid, UpOK
<1>2. /\ \/ d.id = First /\ d.token = None
         \/ d.id = client.retried /\ client.retried # None /\ d.token = client.token
      /\ d.secret = d.id
  BY <1>0, <1>1 DEF UpOK
<1>3. /\ client.retried # None =>
           conf.retry /\ client.retried \in RetryIds
           /\ client.token \in Tokens /\ client.token.retried = client.retried
      /\ client.retried = None => client.token = None
  BY <1>0 DEF Reconnected
<1>4. conf.retry <=> client.retried # None
  BY <1>1, <1>2, <1>3
<1>5. d.id = Opening
  <2>1. CASE conf.retry
    BY <1>1, <1>2, <2>1 DEF Opening
  <2>2. CASE ~conf.retry
    BY <1>2, <1>4, <2>2 DEF Opening
  <2>3. QED
    BY <2>1, <2>2
<1>6. conns = <<>> /\ DOMAIN routes = {}
  BY <1>0, NotEmpty DEF ConnsOK
<1>7. Original(d) = First /\ retried = client.retried
  <2>1. CASE conf.retry
    <3>1. d.token = client.token /\ client.token \in Tokens
      BY <1>1, <1>2, <1>3, <2>1
    <3>2. QED
      BY <1>3, <1>4, <2>1, <3>1 DEF Original, Tokens
  <2>2. CASE ~conf.retry
    BY <1>2, <1>4, <2>2 DEF Original
  <2>3. QED
    BY <2>1, <2>2
<1>8. Len(conns) + 1 = 1
  BY <1>6
<1>9. Deliver(c, 1, table, d)
  BY <1>8 DEF NewConnection
<1> HIDE DEF retried
<1>10. /\ DOMAIN c = ConnFields /\ c.original = First /\ c.retried = client.retried
       /\ c.host = 0 /\ c.ids = FreshIds /\ c.keys = FreshKeys
       /\ c.paths = <<FreshPath(d.from)>> /\ c.issued = {}
       /\ c.largest = [initial |-> -1, handshake |-> -1, one |-> -1]
  BY <1>7 DEF FreshConnection, ConnFields
<1>11. FlagsOK(c)
  BY DEF FlagsOK, FreshConnection
<1>12. DOMAIN table = {Opening, HostId(1, 0)} /\ \A id \in DOMAIN table : table[id] = 1
  BY <1>5, <1>6 DEF Register, Routed
<1> HIDE DEF c, table
<1>13. ConnOK(c)
  <2>1. PathsOK(c.paths)
    <3>1. FreshPath(d.from) \in PathRecords /\ ~FreshPath(d.from).byEcho
      BY <1>0, FreshPathOK DEF UpOK
    <3>2. c.paths \in Seq(PathRecords) /\ c.paths # <<>> /\ DOMAIN c.paths = {1}
          /\ c.paths[1] = FreshPath(d.from)
      BY <1>10, <3>1
    <3>3. QED
      BY <3>1, <3>2 DEF PathsOK
  <2>2. InPhase(c.keys)
    BY <1>0, <1>6, <1>10, FreshKeysOK DEF InPhase, ClientOK, ClientFits
  <2>3. c.largest \in [Spaces -> Int] /\ NewestOK(c)
    <3>1. c.largest \in [Spaces -> Int] /\ c.largest.one = -1
      BY <1>10 DEF Spaces
    <3>2. QED
      BY <3>1 DEF NewestOK
  <2>4. QED
    BY <1>10, <1>11, <2>1, <2>2, <2>3 DEF ConnOK
<1>14. IdsOK(c)
  BY <1>10, FreshIdsAre DEF IdsOK
<1>15. TableOK(table, c)
  <2>1. HelloId(Opening)
    BY <1>3, <1>4 DEF HelloId, Opening
  <2>2. c.ids.host = {0}
    BY <1>10, FreshIdsAre
  <2>3. OwnId(HostId(1, 0)) /\ HostId(1, 0)[3] = 0
    BY IdsDiffer
  <2>4. QED
    BY <1>12, <2>1, <2>2, <2>3 DEF TableOK, Routes
<1>16. Holds(c, table) /\ Ready(c, d)
  BY <1>1, <1>2, <1>6, <1>10, <1>12 DEF Holds, Ready
<1>17. d.space # "one"
  BY <1>1
<1>18. QED
  BY <1>1, <1>4, <1>9, <1>13, <1>14, <1>15, <1>16, <1>17, DeliverKeeps

\* Nothing of a datagram is read by the other connection: its INITIAL packet comes
\* with the keys of the first one.
LEMMA UnreadDeliver ==
  ASSUME NEW c, Unread(c), NEW d, d.space \in Spaces, d.space = "initial" => d.secret # d.id,
         NEW table, Deliver(c, 2, table, d)
  PROVE  /\ client' = client /\ conf' = conf /\ sent' = sent
         /\ DOMAIN routes' = DOMAIN table /\ \A id \in DOMAIN table : routes'[id] = table[id]
         /\ \E after : /\ Unread(after)
                       /\ conns' = [j \in DOMAIN conns \cup {2} |->
                                      IF j # 2 THEN conns[j] ELSE after]
<1> DEFINE got == Receive(c, d)
           next == [got EXCEPT !.issued = {}]
           due == Due(c, got, d)
           set == [c EXCEPT !.secret = d.id, !.paths = <<FreshPath(d.from)>>]
<1>0. c.first /\ c.complete = FALSE /\ DOMAIN c = ConnFields
  BY DEF Unread
<1>1. Unread(set) /\ set.secret = d.id
  <2>1. /\ DOMAIN set = ConnFields /\ set.first = c.first /\ set.complete = c.complete
        /\ set.greeted = c.greeted /\ set.again = c.again /\ set.issued = c.issued
        /\ set.host = c.host /\ set.ids = c.ids /\ set.largest = c.largest
        /\ set.late = c.late /\ set.secret = d.id /\ set.paths = <<FreshPath(d.from)>>
    BY <1>0 DEF ConnFields
  <2> HIDE DEF set
  <2>2. ~set.paths[1].byEcho /\ DOMAIN set.paths = {1}
    BY <2>1 DEF FreshPath
  <2>3. QED
    BY <2>1, <2>2 DEF Unread
<1>2. Unread(got)
  <2>1. CASE d.space # "initial"
    BY <1>0, <2>1 DEF Receive, Unexpected
  <2>2. CASE d.space = "initial"
    <3>1. Initialize(c, d) = set
      BY <1>0 DEF Initialize
    <3>2. Receive(c, d) = IF Readable(set, d) THEN Read(set, d) ELSE set
      BY <2>2, <3>1 DEF Receive, Unexpected
    <3> HIDE DEF set
    <3>3. ~Readable(set, d)
      BY <1>1, <2>2 DEF Readable
    <3>4. QED
      BY <1>1, <3>2, <3>3
  <2>3. QED
    BY <2>1, <2>2
<1>3. /\ routes' = ProcessEvents(table, c, got, 2)
      /\ conns' = [j \in DOMAIN conns \cup {2} |->
                     IF j # 2 THEN conns[j] ELSE IF due THEN Transmit(next) ELSE next]
      /\ sent' = sent \cup (IF got.greeted # c.greeted THEN {Hello(got, 2)} ELSE {})
                      \cup (IF due THEN {OneRttPacket(next)} ELSE {})
      /\ client' = client /\ conf' = conf
  BY DEF Deliver
<1> HIDE DEF got
<1>4. ~due
  BY <1>2 DEF Due, Unread
<1>5. sent' = sent
  BY <1>2, <1>3, <1>4 DEF Unread
<1>6. Unread(next)
  <2>1. /\ DOMAIN next = ConnFields /\ next.first = got.first /\ next.complete = got.complete
        /\ next.greeted = got.greeted /\ next.again = got.again /\ next.issued = {}
        /\ next.host = got.host /\ next.ids = got.ids /\ next.largest = got.largest
        /\ next.late = got.late /\ next.paths = got.paths
    BY <1>2 DEF Unread, ConnFields
  <2> HIDE DEF next
  <2>2. QED
    BY <1>2, <2>1 DEF Unread
<1>7. DOMAIN routes' = DOMAIN table /\ \A id \in DOMAIN table : routes'[id] = table[id]
  <2>1. c.issued = {} /\ c.ids.host \ got.ids.host = {}
    BY <1>2 DEF Unread
  <2>2. routes' = Retired(Issued(table, 2, {}), 2, {})
    BY <1>3, <2>1 DEF ProcessEvents
  <2>3. /\ DOMAIN Issued(table, 2, {}) = DOMAIN table
        /\ \A id \in DOMAIN table : Issued(table, 2, {})[id] = table[id]
    BY DEF Issued, Routed
  <2>4. QED
    BY <2>2, <2>3 DEF Retired, Restrict
<1> HIDE DEF next, due
<1>8. QED
  BY <1>3, <1>4, <1>5, <1>6, <1>7

LEMMA TwoAre ==
  ASSUME NEW a, NEW b, NEW all, all = <<a, b>>
  PROVE  Len(all) = 2 /\ DOMAIN all = 1..2 /\ all[1] = a /\ all[2] = b
OBVIOUS

\* The other connection has changed, the first one has not.
LEMMA SecondChanges ==
  ASSUME ServerInv, conns # <<>>, client' = client, conf' = conf, sent' = sent,
         NEW after, Unread(after),
         conns' = [j \in DOMAIN conns \cup {2} |-> IF j # 2 THEN conns[j] ELSE after],
         TableOK(routes', conns[1]),
         Strays \subseteq DOMAIN routes', routes'[HostId(1, 0)] = 2
  PROVE  ServerInv'
<1>1. /\ Numbered(conns, routes)
      /\ ConnOK(conns[1]) /\ IdsOK(conns[1])
      /\ conf.retry <=> client.retried # None
  BY DEF ServerInv, ConnsOK
<1>2. DOMAIN conns \cup {2} = 1..2
  <2>1. DOMAIN conns = 1..1 \/ DOMAIN conns = 1..2
    BY <1>1 DEF Numbered
  <2>2. QED
    BY <2>1
<1>3. conns' = [j \in 1..2 |-> IF j # 2 THEN conns[j] ELSE after]
  BY <1>2
<1>4. conns' = <<conns[1], after>>
  BY <1>3
<1>6. PICK a, all : a = conns[1] /\ all = conns' /\ all = <<a, after>>
  BY <1>4
<1>13. a = conns[1] /\ all = conns' /\ all = <<a, after>>
  BY <1>6
<1>15. Len(all) = 2
  BY <1>13, TwoAre
<1>16. all[1] = a /\ all[2] = after /\ DOMAIN all = 1..2
  BY <1>13, TwoAre
<1>5. Len(conns') = 2 /\ DOMAIN conns' = 1..2 /\ conns'[1] = conns[1] /\ conns'[2] = after
  BY <1>13, <1>15, <1>16
<1>7. Numbered(conns', routes')
  BY <1>1, <1>5 DEF Numbered
<1>8. client.version # "old"
  BY DEF ServerInv, ClientOK, Reconnected
<1>9. sent' = sent \cup {} /\ IsFiniteSet({})
  BY FS_EmptySet
<1>10. conns[1].keys.send \in Nat
  BY <1>1 DEF ConnOK, InPhase, KeysOK, KeyStates
<1>11. ConnOK(conns'[1]) /\ IdsOK(conns'[1]) /\ TableOK(routes', conns'[1])
  BY <1>1, <1>5
<1>12. conns'[1].keys.send >= conns[1].keys.send
  BY <1>5, <1>10
<1>14. QED
  BY <1>1, <1>7, <1>8, <1>9, <1>11, <1>12, ServerMoves

\* Another connection is opened by an ACK that comes to the first ID when that is
\* retired.
LEMMA NextConnectionKeeps ==
  ASSUME ServerInv, NEW d \in ToServer, NewConnection(d), conns # <<>>
  PROVE  ServerInv'
<1> DEFINE k == Len(conns) + 1
           retried == IF conf.retry THEN d.token.retried ELSE None
           c == FreshConnection(Original(d), retried, d.from)
           table == Register(d, k)
<1>0. SentOK /\ ConnsOK /\ UpOK(d)
  BY DEF ServerInv, SentOK, ToServer
<1>1. /\ Numbered(conns, routes)
      /\ ConnOK(conns[1]) /\ IdsOK(conns[1]) /\ TableOK(routes, conns[1])
      /\ conf.retry <=> client.retried # None
  BY <1>0 DEF ConnsOK
<1>2. /\ d.id \notin DOMAIN routes /\ d.space = "initial"
      /\ conf.retry => d.token # None
      /\ Deliver(c, k, table, d)
  BY DEF NewConnection, Opens, TokenValid
<1>3. ~d.hello
  <2>1. SUFFICES ASSUME d.hello PROVE FALSE
    OBVIOUS
  <2>2. \/ d.id = First /\ d.token = None
        \/ d.id = client.retried /\ client.retried # None
    BY <1>0, <1>2, <2>1 DEF UpOK
  <2>3. d.id = Opening
    BY <1>1, <1>2, <2>2 DEF Opening
  <2>4. QED
    BY <1>1, <1>2, <2>3 DEF TableOK
<1>4. d.id = HostId(1, 0) /\ HelloId(d.secret)
  BY <1>0, <1>2, <1>3 DEF UpOK
<1>5. d.secret # d.id
  BY <1>4, IdsDiffer
<1>6. Len(conns) = 1 /\ k = 2
  BY <1>1, <1>2, <1>4 DEF Numbered, Strays
<1>7. 0 \notin conns[1].ids.host
  BY <1>1, <1>2, <1>4 DEF TableOK, IdsOK, IdsFine
<1>8. Unread(c)
  <2>1. /\ DOMAIN c = ConnFields /\ c.first /\ c.complete = FALSE /\ c.greeted = FALSE
        /\ c.again = FALSE /\ c.issued = {} /\ c.host = 0 /\ c.ids = FreshIds
        /\ c.largest.one = -1 /\ c.late = FALSE /\ c.paths = <<FreshPath(d.from)>>
    BY DEF FreshConnection, ConnFields
  <2> HIDE DEF c
  <2>2. ~c.paths[1].byEcho /\ DOMAIN c.paths = {1}
    BY <2>1 DEF FreshPath
  <2>3. QED
    BY <2>1, <2>2 DEF Unread
<1>9. /\ DOMAIN table = DOMAIN routes \cup Strays
      /\ \A id \in DOMAIN table : table[id] = IF id \in Strays THEN 2 ELSE routes[id]
  BY <1>4, <1>6 DEF Register, Routed, Strays
<1>10. Deliver(c, 2, table, d)
  BY <1>2, <1>6
<1> HIDE DEF c, table
<1>11. /\ client' = client /\ conf' = conf /\ sent' = sent
       /\ DOMAIN routes' = DOMAIN table /\ \A id \in DOMAIN table : routes'[id] = table[id]
       /\ \E after : /\ Unread(after)
                     /\ conns' = [j \in DOMAIN conns \cup {2} |->
                                    IF j # 2 THEN conns[j] ELSE after]
  BY <1>0, <1>2, <1>5, <1>8, <1>10, UnreadDeliver DEF UpOK
<1>12. PICK after : /\ Unread(after)
                    /\ conns' = [j \in DOMAIN conns \cup {2} |->
                                   IF j # 2 THEN conns[j] ELSE after]
  BY <1>11
<1>13. Strays \subseteq DOMAIN routes' /\ routes'[HostId(1, 0)] = 2
  BY <1>9, <1>11 DEF Strays
<1>14. TableOK(routes', conns[1])
  <2>1. Opening \in DOMAIN routes'
    BY <1>1, <1>9, <1>11 DEF TableOK
  <2>2. ASSUME NEW id \in DOMAIN routes' PROVE Routes(routes', id, conns[1].ids.host)
    <3>1. CASE id \in Strays
      BY <1>7, <1>9, <1>11, <3>1 DEF Routes
    <3>2. CASE id \notin Strays
      <4>1. id \in DOMAIN routes /\ routes'[id] = routes[id]
        BY <1>9, <1>11, <3>2
      <4>2. QED
        BY <1>1, <4>1 DEF TableOK, Routes
    <3>3. QED
      BY <3>1, <3>2
  <2>3. QED
    BY <1>1, <1>9, <1>11, <2>1, <2>2 DEF TableOK
<1>15. QED
  BY <1>11, <1>12, <1>13, <1>14, SecondChanges

LEMMA NewConnectionKeeps ==
  ASSUME ServerInv, NEW d \in ToServer, NewConnection(d)
  PROVE  ServerInv'
BY FirstConnectionKeeps, NextConnectionKeeps

LEMMA ToConnectionKeeps ==
  ASSUME ServerInv, NEW d \in ToServer, ToConnection(d)
  PROVE  ServerInv'
<1>0. ConnsOK /\ UpOK(d)
  BY DEF ServerInv, SentOK, ToServer
<1>1. d.version # "old" /\ d.id \in DOMAIN routes
      /\ Deliver(conns[routes[d.id]], routes[d.id], routes, d)
  BY DEF ToConnection
<1>2. /\ Numbered(conns, routes)
      /\ ConnOK(conns[1]) /\ IdsOK(conns[1]) /\ TableOK(routes, conns[1])
      /\ conf.retry <=> client.retried # None
  BY <1>0, <1>1 DEF ConnsOK
<1>3. Routes(routes, d.id, conns[1].ids.host)
  BY <1>1, <1>2 DEF TableOK
<1>4. CASE routes[d.id] = 1
  <2>1. d.space = "one" => d.id[3] \in conns[1].ids.host
    <3>1. HelloId(d.id) \/ (OwnId(d.id) /\ d.id[3] \in conns[1].ids.host)
      BY <1>3, <1>4 DEF Routes
    <3>2. d.space = "one" => OwnId(d.id)
      BY <1>0 DEF UpOK
    <3>3. OwnId(d.id) => ~HelloId(d.id)
      BY IdsDiffer DEF OwnId
    <3>4. QED
      BY <3>1, <3>2, <3>3
  <2>2. Deliver(conns[1], 1, routes, d)
    BY <1>1, <1>4
  <2>3. Holds(conns[1], routes) /\ Ready(conns[1], d)
    BY <1>2 DEF Holds, Numbered, Ready
  <2>4. QED
    BY <1>1, <1>2, <2>1, <2>2, <2>3, DeliverKeeps
<1>5. CASE routes[d.id] = 2
  <2>1. Len(conns) = 2 /\ Unread(conns[2]) /\ Strays \subseteq DOMAIN routes
        /\ routes[HostId(1, 0)] = 2
    BY <1>1, <1>2, <1>5 DEF Numbered
  <2>2. d.id \in Strays
    BY <1>3, <1>5 DEF Routes
  <2>3. ~HelloId(d.id)
    BY <2>2, IdsDiffer
  <2>4. d.space = "initial" => d.secret # d.id
    <3>1. SUFFICES ASSUME d.space = "initial" PROVE d.secret # d.id
      OBVIOUS
    <3>2. CASE d.hello
      <4>1. d.space = "initial" /\ d.hello =>
              d.id = First \/ (d.id = client.retried /\ client.retried # None)
        BY <1>0 DEF UpOK
      <4>2. Reconnected
        BY DEF ServerInv, ClientOK
      <4>3. QED
        BY <2>3, <3>1, <3>2, <4>1, <4>2 DEF HelloId, Reconnected
    <3>3. CASE ~d.hello
      BY <1>0, <2>3, <3>1, <3>3 DEF UpOK
    <3>4. QED
      BY <3>2, <3>3
  <2>5. Deliver(conns[2], 2, routes, d)
    BY <1>1, <1>5
  <2>6. /\ client' = client /\ conf' = conf /\ sent' = sent
        /\ DOMAIN routes' = DOMAIN routes /\ \A id \in DOMAIN routes : routes'[id] = routes[id]
        /\ \E after : /\ Unread(after)
                      /\ conns' = [j \in DOMAIN conns \cup {2} |->
                                     IF j # 2 THEN conns[j] ELSE after]
    BY <1>0, <2>1, <2>4, <2>5, UnreadDeliver DEF UpOK
  <2>7. PICK after : /\ Unread(after)
                     /\ conns' = [j \in DOMAIN conns \cup {2} |->
                                    IF j # 2 THEN conns[j] ELSE after]
    BY <2>6
  <2>8. Strays \subseteq DOMAIN routes' /\ routes'[HostId(1, 0)] = 2
    BY <2>1, <2>6 DEF Strays
  <2>9. TableOK(routes', conns[1])
    BY <1>2, <2>6 DEF TableOK, Routes
  <2>10. conns # <<>>
    BY <1>2, NotEmpty
  <2>11. QED
    BY <2>6, <2>7, <2>8, <2>9, <2>10, SecondChanges
<1>6. QED
  BY <1>3, <1>4, <1>5 DEF Routes

LEMMA ServerUpdatesKeysKeeps ==
  ASSUME ServerInv, NEW k \in DOMAIN conns, ServerUpdatesKeys(k)
  PROVE  ServerInv'
<1> DEFINE keys == Request(conns[1].keys)
           r == [conns[1] EXCEPT !.keys = keys]
<1>1. ConnsOK /\ ClientOK
  BY DEF ServerInv
<1>2. /\ Numbered(conns, routes) /\ k = 1
      /\ ConnOK(conns[1]) /\ IdsOK(conns[1]) /\ TableOK(routes, conns[1])
      /\ conf.retry <=> client.retried # None
  <2>1. conns[k].complete
    BY DEF ServerUpdatesKeys
  <2>2. conns # <<>>
    OBVIOUS
  <2>3. /\ Numbered(conns, routes)
        /\ ConnOK(conns[1]) /\ IdsOK(conns[1]) /\ TableOK(routes, conns[1])
        /\ conf.retry <=> client.retried # None
    BY <1>1, <2>2 DEF ConnsOK
  <2>4. k = 1 \/ (k = 2 /\ Len(conns) = 2)
    BY <2>3 DEF Numbered
  <2>5. k = 1
    BY <2>1, <2>3, <2>4 DEF Numbered, Unread
  <2>6. QED
    BY <2>3, <2>5
<1>3. /\ conns' = [conns EXCEPT ![1] = r]
      /\ conf' = conf /\ routes' = routes /\ sent' = sent /\ client' = client
  BY <1>2 DEF ServerUpdatesKeys
<1>4. DOMAIN conns[1] = ConnFields /\ FlagsOK(conns[1]) /\ InPhase(conns[1].keys)
      /\ PathsOK(conns[1].paths)
  BY <1>2 DEF ConnOK
<1>5. InPhase(keys) /\ keys.send = conns[1].keys.send /\ keys.send \in Nat
  <2>1. /\ KeysOK(keys) /\ keys.recv = conns[1].keys.recv
        /\ keys.send = conns[1].keys.send /\ keys.heard = conns[1].keys.heard
        /\ ~keys.hasty => ~conns[1].keys.hasty
    BY <1>4, RequestOK DEF InPhase
  <2>2. keys.send \in Nat
    BY <2>1 DEF KeysOK, KeyStates
  <2>3. QED
    BY <1>4, <2>1, <2>2 DEF InPhase, InStep
<1> HIDE DEF keys
<1>6. Changes(conns[1], r, {"keys"}) /\ r.keys = keys
  BY <1>4 DEF Changes, ConnFields
<1> HIDE DEF r
<1>7. /\ r.ids = conns[1].ids /\ r.host = conns[1].host /\ r.issued = conns[1].issued
      /\ r.paths = conns[1].paths /\ r.complete = conns[1].complete
      /\ r.greeted = conns[1].greeted /\ r.again = conns[1].again /\ r.late = conns[1].late
  BY <1>6 DEF Changes, ConnFields
<1>8. Changes(conns[1], r,
              Mutable)
  BY <1>6 DEF Changes, Mutable
<1>9. FlagsOK(r)
  BY <1>4, <1>7 DEF FlagsOK
<1>10. ConnOK(r)
  BY <1>2, <1>4, <1>5, <1>6, <1>7, <1>8, <1>9, ConnKept
<1>11. IdsOK(r) /\ TableOK(routes, r)
  BY <1>2, <1>7 DEF IdsOK, TableOK
<1>12. Numbered(conns', routes') /\ conns'[1] = r
  <2>1. ~r.first
    BY <1>2, <1>6 DEF Changes, ConnFields, Numbered
  <2>2. 1 \in DOMAIN conns
    BY <1>2, NotEmpty
  <2>3. conns' = [j \in DOMAIN conns \cup {1} |-> IF j # 1 THEN conns[j] ELSE r]
    BY <1>3, <2>2
  <2>4. Holds(conns[1], routes)
    BY <1>2 DEF Holds
  <2>5. \A id \in DOMAIN routes : id = HostId(2, 0) => routes[id] = 2
    BY <1>2, IdsDiffer DEF TableOK, Routes
  <2>6. QED
    BY <1>3, <2>1, <2>3, <2>4, <2>5, FirstChanges
<1>14. conns'[1].keys.send >= conns[1].keys.send
  BY <1>5, <1>6, <1>12
<1>15. client.version # "old"
  BY <1>1, <1>2, NotEmpty DEF ClientOK, Reconnected
<1>16. ConnOK(conns'[1]) /\ IdsOK(conns'[1]) /\ TableOK(routes', conns'[1])
  BY <1>3, <1>10, <1>11, <1>12
<1>17. sent' = sent \cup {} /\ IsFiniteSet({})
  BY <1>3, FS_EmptySet
<1>18. QED
  BY <1>2, <1>3, <1>12, <1>14, <1>15, <1>16, <1>17, ServerMoves

----------------------------------------------------------------------------
\* Steps of the client.

\* The client goes on with the version and the Retry it has; the packets in "new"
\* are sent.
GoesOn ==
  /\ conf' = conf /\ routes' = routes /\ conns' = conns
  /\ client'.retried = client.retried /\ client'.token = client.token
  /\ client'.version = client.version
  /\ client.reached \subseteq client'.reached /\ client'.pn >= client.pn
  /\ client'.keys.send >= client.keys.send
  /\ conns # <<>> =>
       InStep(conns[1].keys, client'.keys) /\ InStep(client'.keys, conns[1].keys)

LEMMA ClientMoves ==
  ASSUME ServerInv, GoesOn, ClientFits',
         NEW new, sent' = sent \cup new, IsFiniteSet(new),
         \A p \in new : p.dir = "up" /\ p.pn \in Nat /\ p.pn >= client.pn /\ UpOK(p)'
  PROVE  ServerInv'
<1>0. conf \in Settings /\ SentOK /\ ClientFits /\ Reconnected /\ ConnsOK
  BY DEF ServerInv, ClientOK
<1>1. ToServer \subseteq ToServer' /\ ToServer' \subseteq ToServer \cup new
  BY DEF ToServer
<1>2. client.pn \in Nat /\ client'.pn \in Nat /\ client'.pn >= client.pn
  BY <1>0 DEF ClientFits, GoesOn
<1>3. client.keys.send \in Nat /\ client'.keys.send \in Nat
  BY <1>0 DEF ClientFits, KeysOK, KeyStates
<1>4. SentOK'
  <2>1. IsFiniteSet(sent')
    <3>1. IsFiniteSet(sent)
      BY <1>0 DEF SentOK
    <3>2. IsFiniteSet(sent \cup new)
      BY <3>1, FS_Union
    <3>3. QED
      BY <3>2
  <2>2. ASSUME NEW d \in sent, d.dir = "up" PROVE UpOK(d)'
    <3>1. UpOK(d) /\ d \in ToServer
      BY <1>0, <2>2 DEF SentOK, ToServer
    <3>2. d.pn \in Nat /\ d.pn < client.pn
      BY <3>1 DEF UpOK
    <3>3. d.pn < client'.pn
      BY <1>2, <3>2
    <3>4. ASSUME d.space = "one", NEW e \in ToServer', e.space = "one", e.pn = d.pn
          PROVE  e = d
      <4>1. e \notin new
        BY <1>2, <3>2, <3>4
      <4>2. e \in ToServer
        BY <1>1, <4>1
      <4>3. QED
        BY <3>1, <3>4, <4>2 DEF UpOK
    <3>5. OfPhase(d, client.keys) => OfPhase(d, client.keys)'
      BY <1>3 DEF OfPhase, GoesOn
    <3>6. QED
      BY <3>1, <3>3, <3>4, <3>5 DEF UpOK, GoesOn
  <2>3. ASSUME NEW d \in sent, d.dir # "up" PROVE d.dir = "down" /\ DownOK(d)'
    <3>1. d.dir = "down" /\ DownOK(d)
      BY <1>0, <2>3 DEF SentOK
    <3>2. DownOK(d)'
      BY <3>1 DEF DownOK, OfPhase, GoesOn
    <3>3. QED
      BY <3>1, <3>2
  <2>4. QED
    BY <2>1, <2>2, <2>3 DEF SentOK
<1>5. Reconnected'
  BY <1>0 DEF Reconnected, GoesOn, ToServer
<1>6. ConnsOK'
  <2>1. CASE conns = <<>>
    BY <1>0, <2>1, NotEmpty DEF ConnsOK, GoesOn
  <2>2. CASE conns # <<>>
    <3>1. /\ Numbered(conns, routes)
          /\ ConnOK(conns[1]) /\ IdsOK(conns[1]) /\ TableOK(routes, conns[1])
          /\ conf.retry <=> client.retried # None
      BY <1>0, <2>2 DEF ConnsOK
    <3>2. conns'[1] = conns[1] /\ routes' = routes
      BY DEF GoesOn
    <3>3. ConnOK(conns[1])'
      BY <1>1, <2>2, <3>1, <3>2, ConnCarried DEF GoesOn
    <3>4. IdsOK(conns[1])' /\ TableOK(routes, conns[1])'
      BY <3>1, <3>2, TableCarried DEF GoesOn
    <3>5. Numbered(conns, routes)'
      BY <3>1, NumberedCarried DEF GoesOn
    <3>6. QED
      BY <3>1, <3>3, <3>4, <3>5 DEF ConnsOK, GoesOn
  <2>3. QED
    BY <2>1, <2>2
<1>7. QED
  BY <1>0, <1>4, <1>5, <1>6 DEF ServerInv, ClientOK, GoesOn

\* The fields F of the client may have changed.
ClientChanges(r, F) == DOMAIN r = ClientFields /\ \A f \in ClientFields \ F : r[f] = client[f]

\* What the invariant says of keys the client goes on with.
KeysGoOn(keys) ==
  /\ KeysOK(keys) /\ keys.send >= client.keys.send
  /\ conns = <<>> => keys = FreshKeys
  /\ conns # <<>> => InStep(conns[1].keys, keys) /\ InStep(keys, conns[1].keys)

LEMMA KeysStay ==
  ASSUME ServerInv
  PROVE  KeysGoOn(client.keys)
<1>1. ClientFits /\ ConnsOK
  BY DEF ServerInv, ClientOK
<1>2. KeysOK(client.keys) /\ client.keys.send \in Nat
  BY <1>1 DEF ClientFits, KeysOK, KeyStates
<1>3. conns # <<>> => InPhase(conns[1].keys)
  BY <1>1 DEF ConnsOK, ConnOK
<1>4. QED
  BY <1>1, <1>2, <1>3 DEF KeysGoOn, InPhase, ClientFits

\* The packets the client writes.
LEMMA InitialPacketIs ==
  ASSUME NEW hello
  PROVE  LET p == InitialPacket(hello)
         IN /\ p.dir = "up" /\ p.space = "initial" /\ p.id = client.id /\ p.from = client.addr
            /\ p.version = client.version /\ p.pn = client.pn /\ p.probing \in BOOLEAN
            /\ p.hello = hello /\ p.token = client.token
            /\ p.secret = IF client.retried = None THEN First ELSE client.retried
BY DEF InitialPacket

LEMMA FinishedPacketIs ==
  LET p == FinishedPacket
  IN /\ p.dir = "up" /\ p.space = "handshake" /\ p.from = client.addr
     /\ p.version = client.version /\ p.pn = client.pn + 1 /\ p.probing \in BOOLEAN
BY DEF FinishedPacket

LEMMA OneRttPacketUpIs ==
  ASSUME NEW ping \in BOOLEAN
  PROVE  LET p == OneRttPacketUp(ping)
         IN /\ p.dir = "up" /\ p.space = "one" /\ p.id = HostId(client.of, client.ids.dst)
            /\ p.from = client.addr /\ p.version = client.version /\ p.pn = client.pn
            /\ p.probing \in BOOLEAN /\ p.bit = Phase(client.keys)
            /\ p.gen = Encrypt(client.keys).send /\ p.echo = client.echo
<1>1. Probes(ping) \in BOOLEAN
  BY DEF Probes
<1>2. QED
  BY <1>1 DEF OneRttPacketUp

LEMMA SendInitialKeeps ==
  ASSUME ServerInv, SendInitial
  PROVE  ServerInv'
<1>0. PICK p : p = InitialPacket(TRUE)
  OBVIOUS
<1> DEFINE new == {p}
<1>1. ClientFits /\ Reconnected /\ KeysGoOn(client.keys)
  BY KeysStay DEF ServerInv, ClientOK
<1>2. Cardinality(new) = 1 /\ IsFiniteSet(new)
  BY FS_Singleton
<1>3. /\ client.stage = "initial" /\ sent' = sent \cup new
      /\ client' = [client EXCEPT !.pn = client.pn + 1]
      /\ conf' = conf /\ routes' = routes /\ conns' = conns
  BY <1>0, <1>2 DEF SendInitial, ClientSends
<1>4. ClientChanges(client', {"pn"}) /\ client'.pn = client.pn + 1
  BY <1>1, <1>3 DEF ClientFits, ClientChanges, ClientFields
<1>5. /\ DOMAIN client' = ClientFields /\ client'.stage = client.stage
      /\ client'.addr = client.addr /\ client'.version = client.version
      /\ client'.id = client.id /\ client'.token = client.token
      /\ client'.retried = client.retried /\ client'.of = client.of
      /\ client'.ids = client.ids /\ client'.keys = client.keys
      /\ client'.echo = client.echo /\ client'.reached = client.reached
  BY <1>4 DEF ClientChanges, ClientFields
<1>6. client.pn \in Nat
  BY <1>1 DEF ClientFits
<1>7. ClientFits'
  BY <1>1, <1>3, <1>4, <1>5, <1>6 DEF ClientFits, KeysOK
<1>8. GoesOn
  BY <1>1, <1>3, <1>4, <1>5, <1>6 DEF GoesOn, KeysGoOn
<1>9. UpOK(p)'
  <2>1. /\ p.dir = "up" /\ p.space = "initial" /\ p.id = client.id /\ p.from = client.addr
        /\ p.version = client.version /\ p.pn = client.pn /\ p.probing \in BOOLEAN
        /\ p.hello /\ p.token = client.token
        /\ p.secret = IF client.retried = None THEN First ELSE client.retried
    BY <1>0, InitialPacketIs
  <2>2. /\ \/ client.id = First /\ client.token = None
           \/ client.id = client.retried /\ client.retried # None
        /\ p.secret = client.id
    BY <1>1, <1>3, <2>1 DEF ClientFits, Reconnected
  <2>3. client.addr \in Addrs
    BY <1>1 DEF ClientFits
  <2>4. p.space # "one" /\ p.space \in Spaces /\ p.pn < client'.pn
    BY <1>4, <1>6, <2>1 DEF Spaces
  <2>5. QED
    BY <1>5, <1>6, <2>1, <2>2, <2>3, <2>4 DEF UpOK
<1>10. p.dir = "up" /\ p.pn = client.pn
  BY <1>0, InitialPacketIs
<1>11. \A q \in new : q.dir = "up" /\ q.pn \in Nat /\ q.pn >= client.pn /\ UpOK(q)'
  BY <1>6, <1>9, <1>10
<1>12. QED
  BY <1>2, <1>3, <1>7, <1>8, <1>11, ClientMoves

LEMMA SendFinishedKeeps ==
  ASSUME ServerInv, SendFinished
  PROVE  ServerInv'
<1>0. PICK p, q : p = InitialPacket(FALSE) /\ q = FinishedPacket
  OBVIOUS
<1> DEFINE new == {p, q}
<1>1. ClientFits /\ Reconnected /\ KeysGoOn(client.keys)
  BY KeysStay DEF ServerInv, ClientOK
<1>2. /\ p.dir = "up" /\ p.space = "initial" /\ p.from = client.addr
      /\ p.version = client.version /\ p.pn = client.pn /\ p.probing \in BOOLEAN
      /\ ~p.hello /\ p.id = client.id /\ p.token = client.token
      /\ p.secret = IF client.retried = None THEN First ELSE client.retried
  BY <1>0, InitialPacketIs
<1>3. /\ q.dir = "up" /\ q.space = "handshake" /\ q.from = client.addr
      /\ q.version = client.version /\ q.pn = client.pn + 1 /\ q.probing \in BOOLEAN
  BY <1>0, FinishedPacketIs
<1>4. IsFiniteSet(new) /\ Cardinality(new) = 2
  <2>1. q \notin {p}
    BY <1>2, <1>3
  <2>2. IsFiniteSet({p}) /\ Cardinality({p}) = 1
    BY FS_Singleton
  <2>3. IsFiniteSet({p} \cup {q}) /\ Cardinality({p} \cup {q}) = 1 + 1
    BY <2>1, <2>2, FS_AddElement
  <2>4. {p} \cup {q} = new
    OBVIOUS
  <2>5. QED
    BY <2>3, <2>4
<1>5. /\ client.stage = "answer" /\ sent' = sent \cup new
      /\ client' = [[client EXCEPT !.stage = "one"] EXCEPT !.pn = @ + 2]
      /\ conf' = conf /\ routes' = routes /\ conns' = conns
  BY <1>0, <1>4 DEF SendFinished, ClientSends
<1>6. client.pn \in Nat /\ client.addr \in Addrs
  BY <1>1 DEF ClientFits
<1>7. /\ ClientChanges(client', {"pn", "stage"}) /\ client'.pn = client.pn + 2
      /\ client'.stage = "one"
  BY <1>1, <1>5 DEF ClientFits, ClientChanges, ClientFields
<1>8. /\ DOMAIN client' = ClientFields
      /\ client'.addr = client.addr /\ client'.version = client.version
      /\ client'.id = client.id /\ client'.token = client.token
      /\ client'.retried = client.retried /\ client'.of = client.of
      /\ client'.ids = client.ids /\ client'.keys = client.keys
      /\ client'.echo = client.echo /\ client'.reached = client.reached
  BY <1>7 DEF ClientChanges, ClientFields
<1>9. ClientFits'
  BY <1>1, <1>5, <1>6, <1>7, <1>8 DEF ClientFits, KeysOK
<1>10. GoesOn
  BY <1>1, <1>5, <1>6, <1>7, <1>8 DEF GoesOn, KeysGoOn
<1>11. UpOK(p)'
  <2>1. conns' # <<>> /\ p.id = HostId(1, 0)
    BY <1>1, <1>2, <1>5 DEF ClientFits
  <2>2. HelloId(p.secret)
    BY <1>1, <1>2 DEF HelloId, Reconnected
  <2>3. QED
    BY <1>2, <1>6, <1>7, <1>8, <2>1, <2>2 DEF UpOK, Spaces
<1>12. UpOK(q)'
  BY <1>3, <1>6, <1>7, <1>8 DEF UpOK, Spaces
<1>13. \A x \in new : x.dir = "up" /\ x.pn \in Nat /\ x.pn >= client.pn /\ UpOK(x)'
  BY <1>2, <1>3, <1>6, <1>11, <1>12
<1>14. QED
  BY <1>4, <1>5, <1>9, <1>10, <1>13, ClientMoves

LEMMA SendOneRttKeeps ==
  ASSUME ServerInv, NEW ping \in BOOLEAN, SendOneRtt(ping)
  PROVE  ServerInv'
<1>0. PICK p : p = OneRttPacketUp(ping)
  OBVIOUS
<1> DEFINE new == {p}
           keys == Encrypt(client.keys)
           ids == IdsWritten(client.ids)
<1>1. ClientFits /\ Reconnected /\ SentOK /\ KeysGoOn(client.keys) /\ ConnsOK
  BY KeysStay DEF ServerInv, ClientOK
<1>2. Cardinality(new) = 1 /\ IsFiniteSet(new)
  BY FS_Singleton
<1>3. /\ client.stage = "one" /\ sent' = sent \cup new
      /\ client' = [[client EXCEPT !.keys = keys, !.ids = ids, !.echo = None]
                       EXCEPT !.pn = @ + 1]
      /\ conf' = conf /\ routes' = routes /\ conns' = conns
  BY <1>0, <1>2 DEF SendOneRtt, ClientSends
<1>4. conns # <<>> /\ client.of = 1 /\ client.pn \in Nat /\ client.addr \in Addrs
  BY <1>1, <1>3 DEF ClientFits
<1>5. KeysGoOn(keys) /\ Phase(client.keys) = keys.send % 2 /\ keys.send \in Nat
  <2>1. InPhase(conns[1].keys) /\ KeysOK(client.keys)
    BY <1>1, <1>4 DEF ConnsOK, ConnOK, ClientFits
  <2>2. QED
    BY <1>4, <2>1, EncryptOK DEF InPhase, KeysGoOn
<1>6. IdsFine(ids)
  BY <1>1, IdsWrittenIs DEF ClientFits
<1>7. /\ p.dir = "up" /\ p.space = "one" /\ p.id = HostId(1, client.ids.dst)
      /\ p.from = client.addr /\ p.version = client.version /\ p.pn = client.pn
      /\ p.probing \in BOOLEAN /\ p.bit = Phase(client.keys) /\ p.gen = keys.send
      /\ p.echo = client.echo
  BY <1>0, <1>4, OneRttPacketUpIs
<1> HIDE DEF keys, ids
<1>8. /\ ClientChanges(client', {"keys", "ids", "echo", "pn"})
      /\ client'.keys = keys /\ client'.ids = ids /\ client'.echo = None
      /\ client'.pn = client.pn + 1
  BY <1>1, <1>3 DEF ClientFits, ClientChanges, ClientFields
<1>9. /\ DOMAIN client' = ClientFields /\ client'.stage = client.stage
      /\ client'.addr = client.addr /\ client'.version = client.version
      /\ client'.id = client.id /\ client'.token = client.token
      /\ client'.retried = client.retried /\ client'.of = client.of
      /\ client'.reached = client.reached
  BY <1>8 DEF ClientChanges, ClientFields
<1>10. ClientFits'
  <2>1. KeysOK(client.keys)'
    BY <1>5, <1>8 DEF KeysOK, KeysGoOn
  <2>2. QED
    BY <1>1, <1>3, <1>4, <1>6, <1>8, <1>9, <2>1 DEF ClientFits
<1>11. GoesOn
  BY <1>3, <1>4, <1>5, <1>8, <1>9 DEF GoesOn, KeysGoOn
<1>12. UpOK(p)'
  <2>1. OfPhase(p, client.keys)'
    BY <1>5, <1>7, <1>8 DEF OfPhase
  <2>2. ASSUME NEW e \in ToServer', e.pn = p.pn PROVE e = p
    <3>1. ASSUME e \in sent PROVE FALSE
      <4>1. UpOK(e)
        BY <1>1, <3>1 DEF SentOK, ToServer
      <4>2. QED
        BY <1>4, <1>7, <2>2, <4>1 DEF UpOK
    <3>2. QED
      BY <1>3, <3>1 DEF ToServer
  <2>3. OwnId(p.id)
    BY <1>7, IdsDiffer
  <2>4. p.echo \in client'.reached \cup {None}
    BY <1>1, <1>7, <1>9 DEF ClientFits
  <2>5. p.space \in Spaces /\ p.pn \in Nat /\ p.pn < client'.pn
    BY <1>4, <1>7, <1>8 DEF Spaces
  <2>6. QED
    BY <1>3, <1>4, <1>7, <1>9, <2>1, <2>2, <2>3, <2>4, <2>5 DEF UpOK
<1>13. \A q \in new : q.dir = "up" /\ q.pn \in Nat /\ q.pn >= client.pn /\ UpOK(q)'
  BY <1>4, <1>7, <1>12
<1>14. QED
  BY <1>2, <1>3, <1>10, <1>11, <1>13, ClientMoves

\* Nothing is sent.
LEMMA ClientSilent ==
  ASSUME ServerInv, GoesOn, ClientFits', sent' = sent
  PROVE  ServerInv'
<1>1. sent' = sent \cup {} /\ IsFiniteSet({})
  BY FS_EmptySet
<1>2. QED
  BY <1>1, ClientMoves

\* Of the server's packets, those the client can get.
LEMMA ToClientIs ==
  ASSUME ServerInv, NEW d \in ToClient
  PROVE  DownOK(d) /\ d.to = client.addr /\ d \in sent
<1>1. d \in sent /\ d.dir = "down" /\ d.to = client.addr
  BY DEF ToClient
<1>2. SentOK
  BY DEF ServerInv
<1>3. QED
  BY <1>1, <1>2 DEF SentOK

LEMMA TakeHelloKeeps ==
  ASSUME ServerInv, NEW d \in ToClient, TakeHello(d)
  PROVE  ServerInv'
<1> DEFINE ids == Replenish(client.ids, IdLimit)
           reached == client.reached \cup {client.addr}
<1>1. ClientFits /\ KeysGoOn(client.keys) /\ DownOK(d)
  BY KeysStay, ToClientIs DEF ServerInv, ClientOK
<1>2. /\ conns # <<>> /\ d.id = HostId(1, 0) /\ d.original = First
      /\ d.retried = client.retried
  BY <1>1 DEF TakeHello, DownOK
<1>3. /\ client' = [[client EXCEPT !.stage = "answer", !.of = d.id[2], !.id = d.id, !.ids = ids]
                       EXCEPT !.reached = reached]
      /\ conf' = conf /\ routes' = routes /\ conns' = conns /\ sent' = sent
  BY <1>2 DEF TakeHello, ClientTakes
<1>4. IdsFine(ids) /\ reached \subseteq Addrs /\ client.reached \subseteq reached
      /\ client.pn \in Nat
  BY <1>1, ReplenishIs DEF ClientFits
<1> HIDE DEF ids, reached
<1>5. /\ ClientChanges(client', {"stage", "of", "id", "ids", "reached"})
      /\ client'.stage = "answer" /\ client'.of = d.id[2] /\ client'.ids = ids
      /\ client'.reached = reached /\ client'.id = d.id
  BY <1>1, <1>3 DEF ClientFits, ClientChanges, ClientFields
<1>6. /\ DOMAIN client' = ClientFields /\ client'.pn = client.pn
      /\ client'.addr = client.addr /\ client'.version = client.version
      /\ client'.token = client.token /\ client'.retried = client.retried
      /\ client'.keys = client.keys /\ client'.echo = client.echo
  BY <1>5 DEF ClientChanges, ClientFields
<1>7. client'.of = 1
  BY <1>2, <1>5 DEF HostId
<1>8. ClientFits'
  BY <1>1, <1>2, <1>3, <1>4, <1>5, <1>6, <1>7 DEF ClientFits, KeysOK
<1>9. GoesOn
  BY <1>1, <1>3, <1>4, <1>5, <1>6 DEF GoesOn, KeysGoOn
<1>10. QED
  BY <1>3, <1>8, <1>9, ClientSilent

LEMMA TakeOneRttKeeps ==
  ASSUME ServerInv, NEW d \in ToClient, TakeOneRtt(d)
  PROVE  ServerInv'
<1> DEFINE keys == Decrypt(client.keys, d)
           learnt == LearnAll(client.ids, d.new)
           ids == RetireAll(learnt, d.retire, d.id)
           echo == IF d.challenge THEN d.to ELSE client.echo
           reached == client.reached \cup {client.addr}
<1>1. ClientFits /\ KeysGoOn(client.keys) /\ DownOK(d) /\ d.to = client.addr /\ ConnsOK
  BY KeysStay, ToClientIs DEF ServerInv, ClientOK
<1>2. /\ client.stage = "one" /\ d.kind = "one" /\ Decrypts(client.keys, d)
      /\ client' = [[client EXCEPT !.keys = keys, !.ids = ids, !.echo = echo]
                       EXCEPT !.reached = reached]
      /\ conf' = conf /\ routes' = routes /\ conns' = conns /\ sent' = sent
  BY DEF TakeOneRtt, ClientTakes
<1>3. conns # <<>> /\ OfPhase(d, conns[1].keys)
  BY <1>1, <1>2 DEF DownOK
<1>4. KeysGoOn(keys)
  <2>1. InPhase(conns[1].keys) /\ KeysOK(client.keys)
    BY <1>1, <1>3 DEF ConnsOK, ConnOK, ClientFits
  <2>2. QED
    BY <1>2, <1>3, <2>1, DecryptOK DEF InPhase, KeysGoOn
<1>5. IdsFine(ids)
  <2>1. IdsFine(learnt)
    BY <1>1, LearnAllIs DEF ClientFits
  <2> HIDE DEF learnt
  <2>2. QED
    BY <2>1, RetireAllIs
<1>6. /\ reached \subseteq Addrs /\ client.reached \subseteq reached /\ client.pn \in Nat
      /\ echo \in reached \cup {None}
  BY <1>1 DEF ClientFits
<1> HIDE DEF keys, learnt, ids, echo, reached
<1>7. /\ ClientChanges(client', {"keys", "ids", "echo", "reached"})
      /\ client'.keys = keys /\ client'.ids = ids /\ client'.echo = echo
      /\ client'.reached = reached
  BY <1>1, <1>2 DEF ClientFits, ClientChanges, ClientFields
<1>8. /\ DOMAIN client' = ClientFields /\ client'.pn = client.pn /\ client'.stage = client.stage
      /\ client'.addr = client.addr /\ client'.version = client.version /\ client'.of = client.of
      /\ client'.token = client.token /\ client'.retried = client.retried
      /\ client'.id = client.id
  BY <1>7 DEF ClientChanges, ClientFields
<1>9. KeysOK(client.keys)'
  BY <1>4, <1>7 DEF KeysGoOn, KeysOK
<1>10. ClientFits'
  BY <1>1, <1>2, <1>3, <1>5, <1>6, <1>7, <1>8, <1>9 DEF ClientFits
<1>11. GoesOn
  BY <1>2, <1>3, <1>4, <1>6, <1>7, <1>8 DEF GoesOn, KeysGoOn
<1>12. QED
  BY <1>2, <1>10, <1>11, ClientSilent

LEMMA ClientChangesIdKeeps ==
  ASSUME ServerInv, ClientChangesId
  PROVE  ServerInv'
<1> DEFINE ids == ChangeId(client.ids)
<1>1. ClientFits /\ KeysGoOn(client.keys)
  BY KeysStay DEF ServerInv, ClientOK
<1>2. /\ client' = [client EXCEPT !.ids = ids]
      /\ conf' = conf /\ routes' = routes /\ conns' = conns /\ sent' = sent
  BY DEF ClientChangesId, ClientDoes
<1>3. IdsFine(ids) /\ client.pn \in Nat
  BY <1>1, ChangeIdIs DEF ClientFits
<1> HIDE DEF ids
<1>4. ClientChanges(client', {"ids"}) /\ client'.ids = ids
  BY <1>1, <1>2 DEF ClientFits, ClientChanges, ClientFields
<1>5. /\ DOMAIN client' = ClientFields /\ client'.pn = client.pn /\ client'.stage = client.stage
      /\ client'.addr = client.addr /\ client'.version = client.version /\ client'.of = client.of
      /\ client'.token = client.token /\ client'.retried = client.retried
      /\ client'.id = client.id /\ client'.keys = client.keys
      /\ client'.echo = client.echo /\ client'.reached = client.reached
  BY <1>4 DEF ClientChanges, ClientFields
<1>6. ClientFits'
  BY <1>1, <1>2, <1>3, <1>4, <1>5 DEF ClientFits, KeysOK
<1>7. GoesOn
  BY <1>1, <1>2, <1>3, <1>5 DEF GoesOn, KeysGoOn
<1>8. QED
  BY <1>2, <1>6, <1>7, ClientSilent

LEMMA ClientUpdatesKeysKeeps ==
  ASSUME ServerInv, ClientUpdatesKeys
  PROVE  ServerInv'
<1> DEFINE keys == Request(client.keys)
<1>1. ClientFits /\ KeysGoOn(client.keys) /\ ConnsOK
  BY KeysStay DEF ServerInv, ClientOK
<1>2. /\ client' = [client EXCEPT !.keys = keys]
      /\ client.stage = "one"
      /\ conf' = conf /\ routes' = routes /\ conns' = conns /\ sent' = sent
  BY DEF ClientUpdatesKeys, ClientDoes
<1>3. conns # <<>> /\ client.pn \in Nat
  BY <1>1, <1>2 DEF ClientFits
<1>4. KeysGoOn(keys)
  <2>1. /\ KeysOK(keys) /\ keys.recv = client.keys.recv
        /\ keys.send = client.keys.send /\ keys.heard = client.keys.heard
        /\ ~keys.hasty => ~client.keys.hasty
    BY <1>1, RequestOK DEF KeysGoOn
  <2>2. keys.send \in Nat
    BY <2>1 DEF KeysOK, KeyStates
  <2>3. QED
    BY <1>1, <1>3, <2>1, <2>2 DEF KeysGoOn, InStep
<1> HIDE DEF keys
<1>5. ClientChanges(client', {"keys"}) /\ client'.keys = keys
  BY <1>1, <1>2 DEF ClientFits, ClientChanges, ClientFields
<1>6. /\ DOMAIN client' = ClientFields /\ client'.pn = client.pn /\ client'.stage = client.stage
      /\ client'.addr = client.addr /\ client'.version = client.version /\ client'.of = client.of
      /\ client'.token = client.token /\ client'.retried = client.retried
      /\ client'.id = client.id /\ client'.ids = client.ids
      /\ client'.echo = client.echo /\ client'.reached = client.reached
  BY <1>5 DEF ClientChanges, ClientFields
<1>7. KeysOK(client.keys)'
  BY <1>4, <1>5 DEF KeysGoOn, KeysOK
<1>8. ClientFits'
  BY <1>1, <1>2, <1>3, <1>6, <1>7 DEF ClientFits
<1>9. GoesOn
  BY <1>2, <1>3, <1>4, <1>5, <1>6 DEF GoesOn, KeysGoOn
<1>10. QED
  BY <1>2, <1>8, <1>9, ClientSilent

LEMMA RebindKeeps ==
  ASSUME ServerInv, NEW addr \in Addrs, Rebind(addr)
  PROVE  ServerInv'
<1>1. ClientFits /\ KeysGoOn(client.keys)
  BY KeysStay DEF ServerInv, ClientOK
<1>2. /\ client' = [client EXCEPT !.addr = addr, !.moves = @ + 1]
      /\ conf' = conf /\ routes' = routes /\ conns' = conns /\ sent' = sent
  BY DEF Rebind, ClientDoes
<1>3. ClientChanges(client', {"addr", "moves"}) /\ client'.addr = addr /\ client.pn \in Nat
  BY <1>1, <1>2 DEF ClientFits, ClientChanges, ClientFields
<1>4. /\ DOMAIN client' = ClientFields /\ client'.pn = client.pn /\ client'.stage = client.stage
      /\ client'.version = client.version /\ client'.of = client.of
      /\ client'.token = client.token /\ client'.retried = client.retried
      /\ client'.id = client.id /\ client'.ids = client.ids /\ client'.keys = client.keys
      /\ client'.echo = client.echo /\ client'.reached = client.reached
  BY <1>3 DEF ClientChanges, ClientFields
<1>5. ClientFits'
  BY <1>1, <1>2, <1>3, <1>4 DEF ClientFits, KeysOK
<1>6. GoesOn
  BY <1>1, <1>2, <1>3, <1>4 DEF GoesOn, KeysGoOn
<1>7. QED
  BY <1>2, <1>5, <1>6, ClientSilent

LEMMA StutterKeeps ==
  ASSUME ServerInv, UNCHANGED vars
  PROVE  ServerInv'
<1>1. ClientFits /\ KeysGoOn(client.keys)
  BY KeysStay DEF ServerInv, ClientOK
<1>2. /\ client' = client /\ conf' = conf /\ routes' = routes /\ conns' = conns /\ sent' = sent
      /\ client.pn \in Nat
  BY <1>1 DEF vars, ClientFits
<1>3. ClientFits'
  BY <1>1, <1>2 DEF ClientFits, KeysOK
<1>4. GoesOn
  BY <1>1, <1>2 DEF GoesOn, KeysGoOn
<1>5. QED
  BY <1>2, <1>3, <1>4, ClientSilent

\* Only before there is a connection; the server's Retry names the address the
\* client is at.
LEMMA TakeRetryKeeps ==
  ASSUME ServerInv, NEW d \in ToClient, TakeRetry(d)
  PROVE  ServerInv'
<1> DEFINE reached == client.reached \cup {client.addr}
<1>1. /\ conf \in Settings /\ SentOK /\ ClientFits /\ Reconnected /\ ConnsOK
      /\ DownOK(d) /\ d.to = client.addr /\ d \in sent
  BY ToClientIs DEF ServerInv, ClientOK
<1>2. /\ client.stage = "initial" /\ d.kind = "retry" /\ client.retried = None
      /\ client' = [[client EXCEPT !.id = d.id, !.token = d.token, !.retried = d.id]
                       EXCEPT !.reached = reached]
      /\ conf' = conf /\ routes' = routes /\ conns' = conns /\ sent' = sent
  BY DEF TakeRetry, ClientTakes
<1>3. /\ conf.retry /\ d.id \in RetryIds
      /\ d.token = [addr |-> client.addr, original |-> First, retried |-> d.id]
  BY <1>1, <1>2 DEF DownOK
<1>4. conns = <<>> /\ DOMAIN routes = {}
  BY <1>1, <1>2, <1>3 DEF ConnsOK
<1>5. client.version # "old" /\ client.token = None
  <2>1. d \notin ToServer
    BY DEF ToServer, ToClient
  <2>2. QED
    BY <1>1, <1>2, <2>1 DEF Reconnected
<1>6. d.id # None /\ d.token \in Tokens /\ d.token.retried = d.id /\ d.token.addr = client.addr
  BY <1>1, <1>3, ServerAssumption DEF Tokens, ClientFits
<1>7. /\ reached \subseteq Addrs /\ client.reached \subseteq reached /\ client.addr \in reached
      /\ client.addr \in Addrs
  BY <1>1 DEF ClientFits
<1> HIDE DEF reached
<1>8. /\ ClientChanges(client', {"id", "token", "retried", "reached"})
      /\ client'.id = d.id /\ client'.token = d.token /\ client'.retried = d.id
      /\ client'.reached = reached
  BY <1>1, <1>2 DEF ClientFits, ClientChanges, ClientFields
<1>9. /\ DOMAIN client' = ClientFields /\ client'.pn = client.pn /\ client'.stage = client.stage
      /\ client'.addr = client.addr /\ client'.version = client.version /\ client'.of = client.of
      /\ client'.ids = client.ids /\ client'.keys = client.keys /\ client'.echo = client.echo
  BY <1>8 DEF ClientChanges, ClientFields
<1>10. ClientFits'
  BY <1>1, <1>2, <1>4, <1>6, <1>7, <1>8, <1>9 DEF ClientFits, KeysOK
<1>11. Reconnected'
  BY <1>2, <1>3, <1>5, <1>6, <1>7, <1>8, <1>9 DEF Reconnected
<1>12. SentOK'
  <2>1. ToServer' = ToServer
    BY <1>2 DEF ToServer
  <2>2. ASSUME NEW p, UpOK(p) PROVE UpOK(p)'
    BY <1>2, <1>4, <1>5, <1>9, <2>1, <2>2 DEF UpOK
  <2>3. ASSUME NEW p, DownOK(p) PROVE DownOK(p)'
    BY <1>2, <1>4, <2>3 DEF DownOK
  <2>4. QED
    BY <1>1, <1>2, <2>2, <2>3 DEF SentOK
<1>13. ConnsOK'
  BY <1>2, <1>4 DEF ConnsOK
<1>14. QED
  BY <1>1, <1>2, <1>10, <1>11, <1>12, <1>13 DEF ServerInv, ClientOK

\* The client starts again.
LEMMA TakeVersionsKeeps ==
  ASSUME ServerInv, NEW d \in ToClient, TakeVersions(d)
  PROVE  ServerInv'
<1>1. conf \in Settings /\ ClientFits /\ Reconnected /\ ConnsOK
  BY DEF ServerInv, ClientOK
<1>2. /\ client.stage = "initial" /\ client.version = "old"
      /\ client' = [client EXCEPT !.version = "new", !.pn = 0, !.reached = {client.addr}]
      /\ sent' = {} /\ conf' = conf /\ routes' = routes /\ conns' = conns
  BY DEF TakeVersions
<1>3. conns = <<>> /\ DOMAIN routes = {} /\ client.retried = None /\ client.token = None
  BY <1>1, <1>2, NotEmpty DEF Reconnected, ConnsOK
<1>4. client.keys = FreshKeys /\ client.echo = None /\ client.addr \in Addrs
  BY <1>1, <1>3 DEF ClientFits
<1>5. /\ ClientChanges(client', {"version", "pn", "reached"})
      /\ client'.version = "new" /\ client'.pn = 0 /\ client'.reached = {client.addr}
  BY <1>1, <1>2 DEF ClientFits, ClientChanges, ClientFields
<1>6. /\ DOMAIN client' = ClientFields /\ client'.stage = client.stage
      /\ client'.addr = client.addr /\ client'.id = client.id /\ client'.of = client.of
      /\ client'.token = client.token /\ client'.retried = client.retried
      /\ client'.ids = client.ids /\ client'.keys = client.keys /\ client'.echo = client.echo
  BY <1>5 DEF ClientChanges, ClientFields
<1>7. ClientFits'
  BY <1>1, <1>2, <1>3, <1>4, <1>5, <1>6 DEF ClientFits, KeysOK
<1>8. Reconnected'
  BY <1>3, <1>5, <1>6 DEF Reconnected
<1>9. SentOK'
  <2>1. IsFiniteSet({})
    BY FS_EmptySet
  <2>2. IsFiniteSet(sent')
    BY <1>2, <2>1
  <2>3. QED
    BY <1>2, <2>2 DEF SentOK
<1>10. ConnsOK'
  BY <1>2, <1>3 DEF ConnsOK
<1>11. QED
  BY <1>1, <1>2, <1>7, <1>8, <1>9, <1>10 DEF ServerInv, ClientOK

----------------------------------------------------------------------------
\* The theorems.

LEMMA InitServerInv ==
  ASSUME Init
  PROVE  ServerInv
<1>1. /\ conf \in Settings /\ routes = <<>> /\ conns = <<>> /\ sent = {}
  BY DEF Init
<1>2. PICK a \in Addrs, v \in conf.versions : client = FreshClient(a, v)
  BY DEF Init
<1>3. v \in {"old", "new"}
  BY <1>1, ServerAssumption
<1>4. /\ DOMAIN client = ClientFields /\ client.stage = "initial" /\ client.addr = a
      /\ client.version = v /\ client.pn = 0 /\ client.id = First /\ client.token = None
      /\ client.retried = None /\ client.ids = FreshIds /\ client.keys = FreshKeys
      /\ client.echo = None /\ client.reached = {}
  BY <1>2 DEF FreshClient, ClientFields
<1>5. ClientFits
  BY <1>1, <1>3, <1>4, FreshKeysOK, FreshIdsAre DEF ClientFits
<1>6. Reconnected
  BY <1>1, <1>4 DEF Reconnected
<1>7. SentOK
  BY <1>1, FS_EmptySet DEF SentOK
<1>8. ConnsOK
  BY <1>1 DEF ConnsOK
<1>9. QED
  BY <1>1, <1>5, <1>6, <1>7, <1>8 DEF ServerInv, ClientOK

LEMMA NextServerInv ==
  ASSUME ServerInv, [Next]_vars
  PROVE  ServerInv'
<1>1. ASSUME NEW d \in ToServer,
             AnswerVersion(d) \/ AnswerRetry(d) \/ NewConnection(d) \/ ToConnection(d)
      PROVE  ServerInv'
  BY <1>1, AnswerVersionKeeps, AnswerRetryKeeps, NewConnectionKeeps, ToConnectionKeeps
<1>2. ASSUME NEW k \in DOMAIN conns, ServerUpdatesKeys(k) PROVE ServerInv'
  BY <1>2, ServerUpdatesKeysKeeps
<1>3. ASSUME NEW d \in ToClient,
             TakeVersions(d) \/ TakeRetry(d) \/ TakeHello(d) \/ TakeOneRtt(d)
      PROVE  ServerInv'
  BY <1>3, TakeVersionsKeeps, TakeRetryKeeps, TakeHelloKeeps, TakeOneRttKeeps
<1>4. ASSUME SendInitial \/ SendFinished PROVE ServerInv'
  BY <1>4, SendInitialKeeps, SendFinishedKeeps
<1>5. ASSUME NEW ping \in BOOLEAN, SendOneRtt(ping) PROVE ServerInv'
  BY <1>5, SendOneRttKeeps
<1>6. ASSUME ClientChangesId \/ ClientUpdatesKeys PROVE ServerInv'
  BY <1>6, ClientChangesIdKeeps, ClientUpdatesKeysKeeps
<1>7. ASSUME NEW a \in Addrs, Rebind(a) PROVE ServerInv'
  BY <1>7, RebindKeeps
<1>8. CASE UNCHANGED vars
  BY <1>8, StutterKeeps
<1>9. QED
  BY <1>1, <1>2, <1>3, <1>4, <1>5, <1>6, <1>7, <1>8 DEF Next

\* The inductive invariant: what is on the way, what the client and its connection
\* know of each other's phase, ID and address, and what the table routes.
THEOREM ServerInvHolds == Spec => []ServerInv
<1>1. Init => ServerInv
  BY InitServerInv
<1>2. ServerInv /\ [Next]_vars => ServerInv'
  BY NextServerInv
<1>3. QED
  BY <1>1, <1>2, PTL DEF Spec

\* What a connection other than the first one is.
LEMMA OthersUnread ==
  ASSUME ServerInv, NEW k \in DOMAIN conns, k # 1
  PROVE  k = 2 /\ Unread(conns[2]) /\ Len(conns) = 2
<1>1. Numbered(conns, routes)
  BY DEF ServerInv, ConnsOK
<1>2. QED
  BY <1>1 DEF Numbered

\* One connection reads what a client sends; the one that a late ACK may open reads
\* nothing (QuicServer.datagram_received).
THEOREM OneConnectionHolds == Spec => []OneConnection
<1>1. ASSUME ServerInv, NEW k \in DOMAIN conns, k > 1 PROVE conns[k].first
  <2>1. k # 1
    BY <1>1
  <2>2. QED
    BY <1>1, <2>1, OthersUnread DEF Unread
<1>2. ServerInv => OneConnection
  BY <1>1 DEF OneConnection
<1>3. QED
  BY <1>2, ServerInvHolds, PTL

\* The client finds in the server's transport parameters the IDs it knows, with a
\* Retry and without (_parse_transport_parameters).
THEOREM ParametersAgreeHolds == Spec => []ParametersAgree
<1>1. ServerInv => ParametersAgree
  BY DEF ServerInv, ClientOK, ClientFits, ParametersAgree
<1>2. QED
  BY <1>1, ServerInvHolds, PTL

\* The table of the server and the IDs of its connection agree, through the IDs
\* that are issued, told, lost and retired (_connection_id_issued and
\* _connection_id_retired): a retired ID leads to no connection that reads.
THEOREM RoutesMatchIdsHolds == Spec => []RoutesMatchIds
<1>1. ASSUME ServerInv PROVE RoutesMatchIds
  <2>1. ConnsOK
    BY <1>1 DEF ServerInv
  <2>2. CASE conns = <<>>
    <3>1. DOMAIN routes = {}
      BY <2>1, <2>2, NotEmpty DEF ConnsOK
    <3>2. DOMAIN conns = {}
      BY <2>2
    <3>3. QED
      BY <3>1, <3>2 DEF RoutesMatchIds
  <2>3. CASE conns # <<>>
    <3>1. Numbered(conns, routes) /\ IdsOK(conns[1]) /\ TableOK(routes, conns[1])
      BY <2>1, <2>3 DEF ConnsOK
    <3>0. FreshIds.host = {0}
      BY FreshIdsAre
    <3>2. ASSUME NEW id \in DOMAIN routes, Len(id) = 3
          PROVE  IF id[3] \in conns[id[2]].ids.host THEN routes[id] = id[2]
                 ELSE conns[routes[id]].first
      <4>1. ~HelloId(id)
        BY <3>2 DEF HelloId, RetryIds, First, RetryId
      <4>2. Routes(routes, id, conns[1].ids.host)
        BY <3>1 DEF TableOK
      <4>3. CASE routes[id] = 1
        <5>1. OwnId(id) /\ id[3] \in conns[1].ids.host
          BY <4>1, <4>2, <4>3 DEF Routes
        <5>2. id[2] = 1
          BY <5>1 DEF OwnId, HostId
        <5>3. QED
          BY <4>3, <5>1, <5>2
      <4>4. CASE routes[id] = 2
        <5>1. id \in Strays /\ 0 \notin conns[1].ids.host
          BY <4>2, <4>4 DEF Routes
        <5>2. Unread(conns[2])
          BY <3>1, <4>4 DEF Numbered
        <5>3. CASE id = HostId(1, 0)
          <6>1. id[2] = 1 /\ id[3] = 0
            BY <5>3 DEF HostId
          <6>2. QED
            BY <4>4, <5>1, <5>2, <6>1 DEF Unread
        <5>4. CASE id = HostId(2, 0)
          <6>1. id[2] = 2 /\ id[3] = 0
            BY <5>4 DEF HostId
          <6>2. QED
            BY <3>0, <4>4, <5>2, <6>1 DEF Unread
        <5>5. QED
          BY <5>1, <5>3, <5>4 DEF Strays
      <4>5. QED
        BY <4>2, <4>3, <4>4 DEF Routes
    <3>3. ASSUME NEW k \in DOMAIN conns
          PROVE  /\ conns[k].host \in conns[k].ids.host
                 /\ \A s \in conns[k].ids.host :
                      \/ HostId(k, s) \in DOMAIN routes
                      \/ s \in conns[k].ids.unsent
                      \/ s \in conns[k].issued
      <4>1. CASE k = 1
        BY <3>1, <4>1 DEF IdsOK, TableOK
      <4>2. CASE k # 1
        <5>1. k = 2 /\ Unread(conns[2]) /\ Len(conns) = 2
          BY <1>1, <4>2, OthersUnread
        <5>2. HostId(2, 0) \in DOMAIN routes
          BY <3>1, <5>1 DEF Numbered, Strays
        <5>3. QED
          BY <3>0, <5>1, <5>2 DEF Unread
      <4>3. QED
        BY <4>1, <4>2
    <3>4. QED
      BY <3>2, <3>3 DEF RoutesMatchIds
  <2>4. QED
    BY <2>2, <2>3
<1>2. QED
  BY <1>1, ServerInvHolds, PTL

\* However the key updates of both sides cross, and whatever is lost with them, one
\* side reads what the other sends next, if none was asked for in a phase in which
\* nothing had been heard (CryptoPair).
THEOREM NeverLockedOutHolds == Spec => []NeverLockedOut
<1>1. ASSUME ServerInv PROVE NeverLockedOut
  <2>1. ConnsOK /\ KeysOK(client.keys)
    BY <1>1 DEF ServerInv, ClientOK, ClientFits
  <2>2. ASSUME NEW k \in DOMAIN conns, conns[k].complete,
               ~conns[k].keys.hasty, ~client.keys.hasty
        PROVE  CanRead(conns[k].keys, client.keys) \/ CanRead(client.keys, conns[k].keys)
    <3>1. k = 1
      BY <1>1, <2>2, OthersUnread DEF Unread
    <3>2. conns # <<>>
      OBVIOUS
    <3>3. InPhase(conns[1].keys)
      BY <2>1, <3>2 DEF ConnsOK, ConnOK
    <3>4. QED
      BY <2>1, <2>2, <3>1, <3>3, OneReadsTheOther DEF InPhase
  <2>3. QED
    BY <2>2 DEF NeverLockedOut
<1>2. QED
  BY <1>1, ServerInvHolds, PTL

\* The server answers where the newest 1-RTT packet came from, whatever came late,
\* twice or from an older address (the end of receive_datagram).
THEOREM FrontFollowsHolds == Spec => []FrontFollows
<1>1. ASSUME ServerInv PROVE FrontFollows
  <2>1. SentOK /\ ConnsOK
    BY <1>1 DEF ServerInv
  <2> SUFFICES ASSUME NEW k \in DOMAIN conns, ~conns[k].late, conns[k].largest.one >= 0,
                      ~From(conns[k].largest.one).probing
               PROVE  conns[k].paths[1].addr = From(conns[k].largest.one).from
    BY DEF FrontFollows, AnswersNewest
  <2>2. NewestOK(conns[k])
    <3>1. k = 1
      <4>1. SUFFICES ASSUME k # 1 PROVE FALSE
        OBVIOUS
      <4>2. k = 2 /\ Unread(conns[2])
        BY <1>1, <4>1, OthersUnread
      <4>3. conns[k].largest.one = -1
        BY <4>2 DEF Unread
      <4>4. QED
        BY <4>3
    <3>2. conns # <<>>
      OBVIOUS
    <3>3. QED
      BY <2>1, <3>1, <3>2 DEF ConnsOK, ConnOK
  <2>3. PICK d \in ToServer :
          /\ d.space = "one" /\ d.pn = conns[k].largest.one
          /\ (~d.probing /\ ~conns[k].late) => conns[k].paths[1].addr = d.from
    BY <2>2 DEF NewestOK
  <2>4. From(d.pn) \in ToServer /\ From(d.pn).space = "one" /\ From(d.pn).pn = d.pn
    BY <2>3 DEF From
  <2>5. UpOK(d)
    BY <2>1 DEF SentOK, ToServer
  <2>6. From(d.pn) = d
    BY <2>3, <2>4, <2>5 DEF UpOK
  <2>7. QED
    BY <2>3, <2>6
<1>2. QED
  BY <1>1, ServerInvHolds, PTL

\* Only where the client was reached is a path validated by a PATH_RESPONSE
\* (_handle_path_response_frame).
THEOREM EchoMeansReachedHolds == Spec => []EchoMeansReached
<1>1. ASSUME ServerInv, NEW k \in DOMAIN conns, NEW n \in DOMAIN conns[k].paths,
             conns[k].paths[n].byEcho
      PROVE  conns[k].paths[n].addr \in client.reached
  <2>1. k = 1
    BY <1>1, OthersUnread DEF Unread
  <2>2. conns # <<>>
    OBVIOUS
  <2>3. PathsOK(conns[1].paths)
    BY <1>1, <2>2 DEF ServerInv, ConnsOK, ConnOK
  <2>4. QED
    BY <1>1, <2>1, <2>3 DEF PathsOK
<1>2. ServerInv => EchoMeansReached
  BY <1>1 DEF EchoMeansReached
<1>3. QED
  BY <1>2, ServerInvHolds, PTL

\* Connection k answers at the address "addr".
AnswersAt(all, k, addr) == all[k].paths[1].addr = addr

\* A new connection answers where its datagram came from.
LEMMA FreshFront ==
  ASSUME NEW original, NEW retried, NEW d, d.space = "initial", NEW table, NEW k,
         Deliver(FreshConnection(original, retried, d.from), k, table, d)
  PROVE  DOMAIN conns' = DOMAIN conns \cup {k} /\ AnswersAt(conns', k, d.from)
<1> DEFINE c == FreshConnection(original, retried, d.from)
           ready == [c EXCEPT !.secret = d.id, !.paths = <<FreshPath(d.from)>>]
           found == [ready EXCEPT !.paths = Find(ready.paths, d.from), !.first = FALSE]
           greeted == Greet(found, d)
           got == Receive(c, d)
           next == [got EXCEPT !.issued = {}]
           due == Due(c, got, d)
<1>1. c.first /\ DOMAIN c = ConnFields
  BY DEF FreshConnection, ConnFields
<1>2. got = ready \/ got = OnPath(greeted, d)
  BY <1>1 DEF Receive, Unexpected, Initialize, Read, Found
<1>4. conns' = [j \in DOMAIN conns \cup {k} |->
                  IF j # k THEN conns[j] ELSE IF due THEN Transmit(next) ELSE next]
  BY DEF Deliver
<1> HIDE DEF c, got, due
<1>3. ready.paths = <<FreshPath(d.from)>> /\ DOMAIN ready = ConnFields
  BY <1>1 DEF ConnFields
<1> HIDE DEF ready
<1>9. ready.paths[1].addr = d.from /\ DOMAIN ready.paths = {1}
  BY <1>3 DEF FreshPath
<1>5. found.paths = ready.paths /\ DOMAIN found = ConnFields
  BY <1>3, <1>9 DEF Find, ConnFields
<1> HIDE DEF found
<1>6. greeted.paths = ready.paths /\ DOMAIN greeted = ConnFields
  BY <1>5 DEF Greet, ConnFields
<1> HIDE DEF greeted
<1>7. got.paths = ready.paths /\ DOMAIN got = ConnFields
  <2> DEFINE newest == d.pn > greeted.largest[d.space]
  <2>1. IndexOf(greeted.paths, d.from) = 1
    BY <1>6, <1>9 DEF IndexOf
  <2>2. Promote(greeted.paths, 1, d.probing, newest) = greeted.paths
    BY DEF Promote
  <2>3. OnPath(greeted, d).paths = Promote(greeted.paths, 1, d.probing, newest)
    BY <1>6, <2>1 DEF OnPath, ConnFields
  <2>4. DOMAIN OnPath(greeted, d) = ConnFields
    BY <1>6 DEF OnPath
  <2>5. QED
    BY <1>2, <1>3, <1>6, <2>2, <2>3, <2>4
<1>8. next.paths = ready.paths /\ DOMAIN next = ConnFields
  BY <1>7 DEF ConnFields
<1> HIDE DEF next
<1>10. Transmit(next).paths[1].addr = d.from
  <2>1. Transmit(next).paths = IF next.complete THEN Challenge(next.paths) ELSE next.paths
    BY <1>8 DEF Transmit, ConnFields
  <2>2. Challenge(next.paths)[1].addr = d.from
    BY <1>3, <1>9, <1>8 DEF Challenge, FreshPath
  <2>3. QED
    BY <1>9, <1>8, <2>1, <2>2
<1>11. conns'[k] = (IF due THEN Transmit(next) ELSE next) /\ DOMAIN conns' = DOMAIN conns \cup {k}
  BY <1>4
<1>12. conns'[k].paths[1].addr = d.from
  BY <1>9, <1>8, <1>10, <1>11
<1>13. QED
  BY <1>11, <1>12 DEF AnswersAt

\* With Retry a connection is made only for an address at which the client was
\* reached (QuicServer.datagram_received, validate_token).
THEOREM AddressValidatedHolds == Spec => AddressValidated
<1> DEFINE Validated == conf.retry => \A k \in DOMAIN conns' \ DOMAIN conns :
                          conns'[k].paths[1].addr \in client.reached
<1>1. ASSUME ServerInv, NEW d \in ToServer, NewConnection(d), conf.retry, NEW k \in DOMAIN conns',
             k \notin DOMAIN conns
      PROVE  conns'[k].paths[1].addr \in client.reached
  <2>1. Reconnected /\ UpOK(d)
    BY <1>1 DEF ServerInv, SentOK, ToServer, ClientOK
  <2>2. /\ d.space = "initial" /\ d.token # None /\ d.token.addr = d.from
    BY <1>1 DEF NewConnection, Opens, TokenValid
  <2>3. d.token = client.token
    BY <2>1, <2>2 DEF UpOK
  <2>4. client.retried # None
    BY <2>1, <2>2, <2>3 DEF Reconnected
  <2>5. d.from \in client.reached
    BY <2>1, <2>2, <2>3, <2>4 DEF Reconnected
  <2>6. PICK n, original, retried :
          Deliver(FreshConnection(original, retried, d.from), n, Register(d, n), d)
    BY <1>1 DEF NewConnection
  <2>7. /\ d.space = "initial"
        /\ Deliver(FreshConnection(original, retried, d.from), n, Register(d, n), d)
    BY <2>2, <2>6
  <2>8. DOMAIN conns' = DOMAIN conns \cup {n}
    BY <2>7, FreshFront
  <2>9. AnswersAt(conns', n, d.from)
    BY <2>7, FreshFront
  <2>10. k = n
    BY <1>1, <2>8
  <2>11. conns'[k].paths[1].addr = d.from
    BY <2>9, <2>10 DEF AnswersAt
  <2>12. QED
    BY <2>5, <2>11
<1>2. ServerInv /\ [Next]_vars => [Validated]_vars
  <2> SUFFICES ASSUME ServerInv, Next, conf.retry, NEW k \in DOMAIN conns',
                      k \notin DOMAIN conns
               PROVE  conns'[k].paths[1].addr \in client.reached
    OBVIOUS
  <2>2. DOMAIN conns' # DOMAIN conns /\ conns' # conns
    OBVIOUS
  <2>3. PICK d \in ToServer : NewConnection(d)
    <3>1. ASSUME NEW d \in ToServer, ToConnection(d) PROVE FALSE
      <4>1. d.id \in DOMAIN routes
        BY <3>1 DEF ToConnection
      <4>2. Numbered(conns, routes) /\ TableOK(routes, conns[1])
        BY <4>1 DEF ServerInv, ConnsOK
      <4>3. routes[d.id] = 1 \/ routes[d.id] = 2
        BY <4>1, <4>2 DEF TableOK, Routes
      <4>4. routes[d.id] \in DOMAIN conns
        BY <4>1, <4>2, <4>3 DEF Numbered
      <4>5. DOMAIN conns' = DOMAIN conns \cup {routes[d.id]}
        BY <3>1 DEF ToConnection, Deliver
      <4>6. QED
        BY <2>2, <4>4, <4>5
    <3>2. ASSUME NEW d \in ToServer, AnswerVersion(d) \/ AnswerRetry(d) PROVE FALSE
      BY <2>2, <3>2 DEF AnswerVersion, AnswerRetry, Answer
    <3>3. ASSUME NEW n \in DOMAIN conns, ServerUpdatesKeys(n) PROVE FALSE
      <4>1. DOMAIN conns' = DOMAIN conns
        BY <3>3 DEF ServerUpdatesKeys
      <4>2. QED
        BY <2>2, <4>1
    <3>4. ASSUME NEW d \in ToClient,
                 TakeVersions(d) \/ TakeRetry(d) \/ TakeHello(d) \/ TakeOneRtt(d)
          PROVE  FALSE
      BY <2>2, <3>4 DEF TakeVersions, TakeRetry, TakeHello, TakeOneRtt, ClientTakes
    <3>5. ASSUME SendInitial \/ SendFinished PROVE FALSE
      BY <2>2, <3>5 DEF SendInitial, SendFinished, ClientSends
    <3>6. ASSUME NEW ping \in BOOLEAN, SendOneRtt(ping) PROVE FALSE
      BY <2>2, <3>6 DEF SendOneRtt, ClientSends
    <3>7. ASSUME ClientChangesId \/ ClientUpdatesKeys PROVE FALSE
      BY <2>2, <3>7 DEF ClientChangesId, ClientUpdatesKeys, ClientDoes
    <3>8. ASSUME NEW a \in Addrs, Rebind(a) PROVE FALSE
      BY <2>2, <3>8 DEF Rebind, ClientDoes
    <3>9. QED
      BY <3>1, <3>2, <3>3, <3>4, <3>5, <3>6, <3>7, <3>8 DEF Next
  <2>4. QED
    BY <1>1, <2>3
<1>3. QED
  BY <1>2, ServerInvHolds, PTL DEF Spec, AddressValidated
====
