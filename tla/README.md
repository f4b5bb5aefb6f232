# QUICTester in TLA+

QUICTester learns the Mealy machine of a QUIC server.  A *learner* (L*, from
AALpy) asks words over an alphabet of abstract QUIC messages; a *mapper* turns
each letter into real packets with a modified aioquic, waits, and abstracts
what the server sends back; both talk through two text files.  Learned machines
are merged, compared and searched for deviations.  The result is only as good
as these promises, and they are what the modules here are about:

1. every answer that reaches L* is the server's answer to exactly that letter,
   although the mapper and the server crash and are restarted (learner/mapper);
2. L* keeps a consistent table, makes progress and stops (the learning loop);
3. a letter leaves the connection in a state later letters can work from, and an
   answer says what the server sent (mapper, handshake, TLS);
4. the QUIC stack under the mapper loses, repeats and misreads nothing by
   itself, so that what the mapper observes is the server's doing (streams,
   recovery, connection IDs, limits, packets, HTTP/3, the server side);
5. a difference that the comparison reports is one of the learned models.

All line numbers below are of the files under `src/`; `aioquic/` stands for
`src/quicMapper/src/aioquic/`, `aalpy/` for `src/quicLearner/aalpy/`, `C:` for
`aioquic/quic/connection.py`.

## Inventory

| Component | State it keeps | Operations | What is hard |
|---|---|---|---|
| Learner and mapper processes (`quicLearner/learner.py`, `quicMapper/mapper.py:1717-1780`) | input and output file, session ticket file, line counter, partial answer, three processes | `pre`, `step`, `post`, `startMapper`, `isMapperAlive`, `isSUTAlive`; the mapper's loop over its input | two processes and no lock; crash and replay from the first letter; kills that race the work; a ticket that outlives its server |
| L* (`aalpy/`) | table S, E, T; query cache; hypothesis; oracle's walk | close, build hypothesis, walk, search in the counterexample, extend E | positions in rows, wrong answers of a flaky server, termination |
| Mapper letters (`mapper.py` `fuzzIn`, `getResponse`; `inOutPut.py`) | the connection object, 0-RTT state, close event, lost-response flags | one packet builder per letter; wait for an answer; name it | answers cut off by timeouts, state left by an earlier letter |
| QuicConnection (`C`) | keys by epoch, connection ids, paths, limits, close state, what is due | datagram in, datagrams out, letters | frames repeated by the network, limits and ids retransmitted, a packet that is full in the middle of a call |
| TLS 1.3 (`aioquic/tls.py`) | handshake state, key schedules, transcript, tickets | one handler per message | letters call them out of order; transcripts must stay equal |
| QUIC streams (`aioquic/quic/stream.py`, parts of `C`) | send buffer, pending and acknowledged ranges; receive buffer and ranges; final size | write, reset, get_frame, delivery reports; handle_frame, handle_reset, stop | any order of frames, reports and aborts; indices into buffers that move |
| Loss recovery (`aioquic/quic/recovery.py`) | sent packets and counters of each space, loss times | packet sent, ACK, timer, reschedule, discard | late and repeated ACKs against timers and discards |
| Packet formats and protection (`packet_builder.py`, `packet.py`, `crypto.py`, `retry.py`, C buffers) | the packet and datagram being built; key phase | start packet, start frame, end packet, flush; encrypt, update | padding rules, exceptions in the middle, key updates that cross |
| RangeSet and ACK queue (`rangeset.py`, `C`) | list of ranges | add, subtract, push and pull ACK | merging at the edges; ACK of an ACK |
| HTTP/3 (`aioquic/h3/connection.py`) | stream buffers, frame in progress, blocked streams, pushes | send headers, data, push promise; one handler per kind of stream | cuts anywhere, QPACK blocking across streams |
| asyncio front end (`aioquic/asyncio/`) | table of connections by ID; transport | `datagram_received`, `_process_events`, `transmit` | IDs before and after Retry, IDs issued and retired late |
| Model post-processing (`optimiseModel.py`, `src/scripts/`) | graphs, scores, matched pairs | merge, compare, annotate, extract | ties, missing scores, wildcards |
| Logging, configuration, LearnLib bridge, other AALpy algorithms, `findND/`, `dockerFile/`, `results/`, `DotModels/` | | | offline or external |

How they interact: L* calls `QUIC_SUL` synchronously, `QUIC_SUL` appends a
letter to the input file and polls the output file; the mapper polls the input
file, drives one `QuicConnection` by hand, and appends an answer closed by the
line `end`.  `QuicConnection` calls the TLS context, the streams, the packet
builder and the recovery object; the latter calls back through the delivery
handlers registered with each frame.  `QuicServer` hands datagrams to
connections by destination ID and learns of new IDs from their events.

What is hard to test is under `hazards` in `PROJECT.json`, each at its line with
the properties that look at it.

## Modules

| Module | Models | Uses |
|---|---|---|
| `LearnerQuery` | abstract: a query interface that answers letter by letter | |
| `LearnerMapper` | learner and mapper processes, files, crashes | implements `LearnerQuery` |
| `LStar` | the learning loop, cache and oracle | its system under learning is what `LearnerQuery` promises |
| `TlsClient` | a client's TLS context as letters drive it: state, keys, messages in and out | |
| `Handshake` | what letters and packets do to a `QuicConnection` | `TlsClient` |
| `Mapper` | `fuzzIn` and `getResponse` over any server that uses keys it can have | `Handshake` |
| `TlsSession` | both ends of TLS over several connections, key schedule and tickets | implements `TlsClient` |
| `BytePipe` | abstract: bytes in order, then the end, or an abort | |
| `StreamSender`, `StreamReceiver` | the two halves of a stream | |
| `StreamPipe` | both over a bad network | implements `BytePipe` |
| `ConnectionIds`, `FlowControl` | IDs of both sides; limits of both sides | |
| `Application` | 1-RTT packets over a bad network | `ConnectionIds`, `FlowControl` |
| `Recovery` | packet tables, ACK, loss and probe timers | |
| `RangeSet` | the list algorithm, ACK frames, packet number decoding | |
| `AckQueue` | numbers received, due, told and freed | `RangeSet` |
| `PacketBuilder` | packets and datagrams with their sizes | |
| `PacketWriter` | `datagrams_to_send` frame by frame | `PacketBuilder`, `AckQueue` |
| `OneRtt` | key phases and network paths | |
| `QuicServer` | the server, its connections and one client | `OneRtt`, `ConnectionIds` |
| `H3Stream`, `H3Connection` | one stream's parser; two endpoints | |
| `ModelOptimiser`, `FsmDiff` | merging and comparing learned models | |
| `*Proofs` | theorems about the module they are named after | |
| `MC*` | the instances TLC checks | |

A definition whose comment says mutant is a wrong version of the definition that
follows; the manifest pairs each with a property that TLC must then find
violated.  No specification uses them.

### Learner and mapper

`phase` is the program counter of `QUIC_SUL`: `pre()` is `PreTicket` and
`PreStart` (it looks at the server twice), `step()` is `StepSend`, then
`StepPoll` and `StepRead` for each turn of its loop, `startMapper` is
`LaunchMapper`/`MapperSeenAlive` with the place it returns to in `resume`,
`post()` is `PostEnd` and `PostKill`.  `mapper` is the mapper's process; a
killed one still counts as alive until `MapperExit`, as `poll()` reports it.
The files are sequences of lines.  What a live server makes of a word is the
constant `Script` (the mapper's answers to a fresh connection, cut at `Ends`);
after the server has died the mapper may answer anything of `LateReplies`.
The session ticket is `none`, `fresh`, `used` or `stale`.

`IInv` is what makes the replay right: the input file is the word so far, the
output file a prefix of the script that ends with a whole answer, the line
counter lies inside the answer being collected.  `AnswersCorrect` alone is not
inductive, since it says nothing of the lines not read yet.

The constant `Races` opens timing windows: `lateEnd` (the mapper is killed
before it acted on `end`), `preCrash` (the server dies between `pre`'s two
looks) and `earlyDeath` (a mapper dies within the 0.5 s after its launch with
output already written).  In the last, answers are wrong (see "Statements the
code does not keep"), and the theorems assume `"earlyDeath" \notin Races`.
`MCLearnerMapper` chooses at the start (`calm`) whether the other two are hit:
after `preCrash` the ticket of the dead server survives, although the comment at
`learner.py:126-127` wants it gone, and a mapper killed too early leaves its
used ticket behind, so `CleanTicketAtBoot` speaks of calm behaviours only.  Also
noted: `post()` counts one crash twice when the oracle calls it again before
`pre()`.

### The learning loop

`LStar` is `run_Lstar` with the options of `learner.py:597`.  `update_obs_table`
is `UpdateObsTable` (what is to be asked) and one `FillCell` per query; the
closing loop is `CloseTable`; `find_cex` is one `OracleStep` per letter, a reset
included, and `OracleEnds`; `rs_cex_processing` is one `SplitStep` per halving,
and the extension of E with it.  The order of rows is left out (it only decides
which queries the cache saves), but E and each row are sequences, because the
code finds an answer by its position.  The hypothesis is a function of the
table; its run on a word is `RunFrom`, which also tells the machine's states
apart (`OutputsFrom`, `Distinguishable`).  The server is a Mealy machine that may
give at most `Flaky` wrong answers; a contradiction with the cache ends the
process (`aborted`).

`HypothesisFitsTable` and `HypothesisIsMinimal` are the two halves of why L* is
right; `RoundsGrow` and `Ends` why it stops; `CexIsLongEnough` says that the
search of `rs_cex_processing`, which begins at `lower = 1` and
`upper = len - 2`, is never started with crossed bounds.  That holds because a
difference after one or two letters is impossible, which needs the whole chain
(rows are cached answers, the table is closed, the hypothesis follows rows), and
it holds although answers may be wrong.  What does *not* hold is that the final
hypothesis agrees with every cached answer: a random walk need not find an old
disagreement again.

### Streams

A RangeSet is the set of offsets it covers, a byte is its offset. Each frame is
acknowledged or reported lost once; a report of loss may be wrong, and a frame may
arrive any number of times and in any order. A stream may be ended with its last bytes
or by an empty write (`write_eof` of `asyncio/protocol.py`). `SendFin` may find no
room in the packet after `get_frame` has changed its state (`connection.py:3711`),
which loses the end; `PacketWriter`, which knows the sizes, shows how that comes
about. An end written when the last byte has left already (`EndApart`) needs a frame
of its own, which `stream.py:268` does not wait for: the sender may be finished before
it is sent or after it was lost (`FinishedByFin` fails). `FinishedMeansReceived` speaks of
the bytes of every stream and of the end of all others, and `EndIsRead` of ends still
to be sent (`EndMissed` are those that were taken out of the sender and are in no
frame). `Aborts` opens `reset()` and STOP_SENDING; `MCStreamPipe` chooses at the start
whether a behaviour may abort; the aborting ones have two bytes and one loss, not at
once with a waiting STOP_SENDING.

`SenderInv` is inductive: every byte between the offsets of the buffer is in
exactly one place (pending, in one frame in flight, acknowledged out of order),
the buffer is the bytes between its offsets, every frame carries the bytes it
names, and the flag that makes the connection skip a stream is not set while
something is left to send.

### Loss recovery

Sizes are counted in packets. Time is kept as the order of packet numbers: `overdue`
is the number below which packets were sent at least `loss_delay` ago, a `loss_time`
is the number of the packet it was computed from, and `resampled` marks a `loss_time`
that another space's round-trip sample made out of date. The timer `transmit()`
computes is never scheduled: the statement stands in a string literal
(`asyncio/protocol.py:121-127`). `handle_timer` is an action that may be taken, since
other code may call it, but with `Timer = FALSE`, as in the code, nothing makes it
happen (`CryptoIsReported` fails). Congestion window, pacer, `pto_count` and the state of address
validation only bear on times and are left out. All spaces share one counter of packet
numbers, as in the code. A client's `Retry` makes the spaces anew and leaves the bytes
of the packets they held in `bytes_in_flight`: these are `forgotten`.

Left out: version negotiation, which sets the packet number back without new
spaces (`connection.py:1165`); persistent congestion.  Noted while modelling:
an ACK that acknowledges nothing new raises `largest_acked_packet` but returns
before losses are looked for; CRYPTO frames have no delivery handler
(`connection.py:3497`), so what `recovery.py:356` logs as retransmission only
takes them out of the table.

### Mapper letters and handshake

A connection is a record, each letter an operator on it (`Handshake`), and
`NextLetter` of `Mapper` is `fuzzIn`: skip, write, wait. A `grace` phase stands for
the look at the server before a close is reported, and `Answer` for the end of the
wait, which may come before, between or after the server's packets. The server may
send anything it has keys for, late, again or out of its place (`Strays`). `target` is
the server under test as far as `fuzzIn` and `getResponse` tell it apart: MSQUIC and
MVFST are not asked whether they live, silence of MSQUIC after a close is taken for
the close (`mapper.py:854-855`), MVFST is spared some letters; other branches for
single targets are choices. Of MSQUIC `GivesUpAfterClose` excepts a letter that
raised: nothing was sent then, and the connection is given up all the same. One CRYPTO
frame holds one message. Noted while modelling: an early hndFin or certificate spoils
the transcript, and the unsent Finished leaves with the next CRYPTO push; version
negotiation keeps INITIAL keys of the old version and sets the packet number back
(`C:1165`); a LOST letter that is skipped leaves `isLostResponse` set; `norConClose`,
which is in no dictionary, may answer `<ConClosed>` with nothing written; the
precedence of `and`/`or` at `mapper.py:807-808` makes the RETRY branch run for every
target; `[WAIT]` outside a lost response falls into "input not defined" because of its
bracket.

### TLS over several connections

`TlsSession` gives every secret the term it is computed from, so two secrets are
equal when both ends put the same things into them.  Letters call the client's
functions in any order; packets nobody can read are dropped and sent again.
Groups, compression, signature algorithms and the certificate checks are left
out; alerts are swallowed, as the mapper does, so the server never closes.
A second Finished, or a late certificate, before the ticket is read spoils the
ticket (`TicketsAlwaysAgree` fails); `TicketsAgree` speaks of the others.  The
refinement `ImplementsTlsClient` shows that the control flow of `TlsClient`,
which `Mapper` builds on, is that of the full client; it is how it was found that
an early certificate also breaks the check of the server's CertificateVerify.

### Connection IDs, limits, ACKs in 1-RTT

`Application` keeps every packet the server ever sent and delivers them in any
order and number.  The server keeps to what it was told.  The frames of one
transmit are one packet, which may be reported lost once or acknowledged.  Noted:
bytes that a RESET_STREAM counted are counted again by every copy of it and when
they come late (`C:2475`): the client then closes the connection (`LegalNeverRefused` fails),
and `NothingLegalRefused` says that it does so for no other reason; a refused frame is
still acknowledged because its error is swallowed; a NEW_CONNECTION_ID below an
earlier `retire_prior_to` is kept; streams created out of order wait behind a
higher head of the list.

### Packets

`PacketWriter` walks through `datagrams_to_send` (`pc`), one frame at a time, because
`QuicPacketBuilderStop` may end it at any of them, with the real sizes (1280-byte
packets, 128 bytes of minimal room, tags of 16). A behaviour is one of eight scenes:
which keys there are, what is due, which letters are used. In the scene `long` the
Client Hello takes two packets, and an INITIAL packet that came late is acknowledged
in the first of them: `frameInPacket` is never cleared, so the option for packets with
an ACK frame decides on the second too. `PaddingAsConfigured` says which packets have
a say (those of the same call), not only the
packet itself, as a comment in `packet_builder.py` has it (`PaddedForItsFrames` fails). `max_flight` and `max_total` are never set in this fork, so
their counters are left out. `AckQueue` gives the peer's packets the last bits of
their numbers, by the rule of the RFC, and reads them against
`expected_packet_number`, which lags by one (`C:1341`). Noted: `_write_handshake`
flushes after each packet, so INITIAL, HANDSHAKE and 1-RTT packets share no datagram
except in a close without padding; a DATAGRAM frame larger than a packet would block
its queue for ever and is outside the bounds, and so are tokens of more than about 90
bytes and ACK frames of more ranges than `ACK_FRAME_CAPACITY` has room for; the
delivery of an ACK frame frees all lower numbers, also those that came later and were
never told (`C:2692`).

### Server, IDs, key updates and paths

`QuicServer` runs the asyncio server against one client of the library, one packet in
a datagram; `conf` chooses what a behaviour is about (opening, changing keys, moving),
since the product of all is too large. The network forgets nothing. The server answers
only to datagrams, because its timer is never scheduled. It opens a connection for any
INITIAL packet with an unknown ID (`Opens`), a client's ACK, padded to full size,
included: when its ID was retired meanwhile, a second connection appears, which cannot
read the packet and takes the ID; the next late packet to that ID fails an assertion
(`FirstIsInitial` fails). Applications ask for key updates whenever they like. `hasty` marks
the keys of one that asked in a phase in which it had heard nothing yet: nothing in
the library stops it, and both sides may be locked out (`UpdatesAreRead` fails);
`NeverLockedOut` is about the others. A late INITIAL packet from an old address moves
the path back (`FrontIsNewest` fails; `late` in `FrontFollows`). `late`, `byEcho`,
`reached`, `heard` and `hasty` are history. Noted: a PATH_CHALLENGE is not sent again
when it is lost; a NAT rebinding between Retry and the next INITIAL invalidates the
token; the anti-amplification limit is off. `server.close()` and
`_connection_terminated` are left out.

### HTTP/3

`H3Stream` is the parser of one stream over tokens, with the shortcut for fragments of
a DATA frame; `H3Connection` gives both ends their calls and cuts and orders the
streams at will. Themes choose messages, pushes, WebTransport, control frames or a
peer that strays. A promise may be made with table entries the client has not read
yet, as in the code; it is then resumed as a HEADERS frame (`h3/connection.py:1057`)
and the client closes (`PushSupported` fails). `PeersAgree` says that an endpoint refuses
another for no other reason. Header blocks are reduced to their kind and the table
entries they need. Noted: a PUSH_PROMISE as the last frame drops `stream_ended`; a
lone FIN on an empty request reports data before headers; 1xx responses are not
supported.

### Models and their comparison

`ModelOptimiser` merges transitions over waits and suites and `FsmDiff` follows
FSM_diff from the scores to the annotated graph and `extractDeviations.py`.
A score is any value the equations leave: 0 without a matching transition, above
the threshold when all edges of one direction match.  `__start0 -> s0` is an edge
with a blank label, so the pair of first states has no incoming edge and the
default solver (umfpack) returns NaN: nothing is matched and the extraction ends
with an exception; the scripts pass `-s cvc4` for this reason.  With ratio 1
tied pairs may both be landmarks and share a state (`MatchedByOne` fails); `DiffIsExact`
speaks of comparisons without such ties.  An edge keeps the line it was read from,
so parallel edges with one label, which is what two transitions become when
`compareTwoModels.sh` takes the waits out, stay two, and are matched pair by pair
(`MatchedDrawnOnce` fails): `DiffIsExact` says that nothing else is drawn twice.  `AllSame`
merges hellos whose waits were merged to a different extent (`MixedWaits`, the
pair `Mixed`), and the line then claims steps that were not learned (`SuitesMerged` fails);
`OptimisedIsLearned` asks of these only that no learned step is lost.
`extract_output_seq`, given pairs (`-m`) and the statistics are left out.

## Runs

| Run | Module | Asks | Bounds, and why they are enough |
|---|---|---|---|
| `LMAnswers` | `MCLearnerMapper` | are the answers right, does the pair implement `LearnerQuery`, does `step()` return, is every ticket clean? | a PSK run, words of two letters of three, two queries, one crash of each process: a crash in the middle of an answer, one during the replay, a second query over the files of the first |
| `LLearn` | `MCLStar` | is the table consistent, the hypothesis minimal, and does learning end? | two locks of three states, walks of five letters, one wrong answer: two rounds, a counterexample of three and more letters, a conflict in the cache |
| `HLetters` | `MCMapper` | do keys keep their order, do answers name what came, is a connection given up only after a close? | three kinds of target, all words of three letters of the dictionaries, one packet of the server beyond the handshake, stray Finished and ticket |
| `TSession` | `MCTlsSession` | do both ends agree on keys, parameters and tickets, is the client that of `TlsClient`? | two connections (the second resumes), two hellos and two own messages in each, five servers |
| `SPipe` | `MCStreamPipe` | are the two halves a byte pipe, is the end read, is a reset stream finished with? | three bytes and empty ends, two loss reports: three ranges, a hole in the middle, a frame lost twice; with aborts two bytes and one loss |
| `CIds` | `MCApplication` | are IDs and limits never forgotten, is a legal server ever refused? | three packets each way, one loss, two IDs, themes that pair what interacts |
| `RLoss` | `MCRecovery` | has every packet one fate, is one that is overtaken by three lost? | two spaces, four packets, threshold three: one packet the threshold behind, one just within it |
| `Packets` | `MCPacketWriter` | is anything lost between being taken and written, are padding, numbers, datagrams and ACKs as configured? | eight scenes, up to three requests and three calls, five arrivals in any order; window of 4 numbers so that it wraps |
| `PEndLost` | `MCPacketWriter` | violation: an end that was written is due or sent | the scene `application` |
| `Serve` | `MCQuicServer` | do the IDs of server, table and client fit, may key updates cross, does the path follow the client? | up to three hellos, two Retry packets, three 1-RTT packets, two key phases, two moves between two addresses (symmetric), any datagram again at any time |
| `H3` | `MCH3Connection` | is what is read what was said, is nothing held back, does an endpoint ever refuse another? | one request, one push, one session, three calls, one table entry that may come late, DATA of 0 and 2 bytes: a cut inside and after each frame |
| `Models` | `MCFsmDiff` | is the merged model the learned one, is the annotated graph exact? | ten pairs of small models: equal, one edge more, a split state, ties, merged suites and waits, mixed waits, parallel edges |

Deadlock is not checked where the system really stops: when the bound on
queries, packets, calls or losses is used up, or learning is over.

The type invariants (`TypeOK`, `PipeTypeOK`, `RecoveryTypeOK`, `SenderTypeOK`) and
these also hold in the same instances and are kept beside them, but are not part of
the runs, to keep the whole quick to check: `BufferMatchesRanges`,
`EndKnownIsBuffered`, `DeliveredInOrder`, `DroppedWasReceived`, `FinalSizeKept`,
`CountersMatchTable`, `OvertakenHasTimer`, `DiscardedIsQuiet`, `RowsOfSDiffer`,
`HypothesisFitsTable`, `CexIsLongEnough`, `RoundsGrow`, `ClosedIsFinal`,
`SendsWithinLimits`, `WaitsOnlyAtLimit`, `ReportedBeforeForgotten`,
`BlockedIsWaiting`, `ReportsAreMessages`, `RefusesWithReason`, `OrderlyHandshake`,
`OneConnection`, `EchoMeansReached`, `AddressValidated`, `MatchedOnce`,
`DifferencesFound`, `Finishes` and `Returns` (the last two as PROPERTY).

### Fairness

* `LMAnswers`: both processes poll in endless loops, so each of their steps is
  weakly fair; `PreTicket`, `PostEnd` and the crashes are not.  Nothing makes
  the server or the mapper survive, and `StepReturns` says so.
* `SPipe`: the connection writes packets when it has something to write, and that
  is all.  Whether what was sent is ever acknowledged or found lost depends on the
  network and on later ACKs alone, since no timer runs; so `EndIsRead` and
  `ResetFinishes` have the hypothesis `FatesAreTold`, that again and again every
  frame sent so far has been reported on.  Without it they fail, and the code
  gives no reason for it.  Losses are bounded by `MaxLost`.
* Recovery: `RLoss` checks safety only.  `RecoveryFairSpec` has `handle_timer` fair
  only if `Timer`, which the code's event loop gives no reason for.
* `LLearn`: one thread; its queries return by `StepReturns`.
* `Packets`: `datagrams_to_send` is one call and runs on (used by `Returns`).

The other runs check safety only.  Limits and IDs have no liveness: loss
detection has no timer in this fork (below), so a lost raise may stay lost until
the next ACK.

## Statements the code does not keep

Run `PEndLost` is kept as a finding: `get_frame` takes the end of a stream
(`stream.py:209`) before `start_frame` finds no room (`C:3713`);
`datagrams_to_send` swallows the exception (`C:920`) and the end, which
`C:1484` promises, is never sent.

The following are stated beside the other properties and refuted by TLC, in the
instance of the run named: with the property in the place of those of its cfg, and
the change told, if any.  The cases are inside the models and the checked
properties except just them.

| Property | Run, change | Code | Against |
|---|---|---|---|
| `FinishedByFin` | `SPipe` | `stream.py:268`: any acknowledgement finishes the sender once all bytes are acknowledged, with the FIN unsent or lost | the docstring at `stream.py:166` |
| `ResetIsSeen` | `SPipe` on `StreamPipe` itself, `FairSpec`, `MaxBytes = 2`, `MaxLost = 1`, `Aborts = {"reset"}` | `C:3264`: after RESET_STREAM the buffered data and FIN are still sent, and may finish the sender before a lost RESET_STREAM is sent again | the docstrings at `stream.py:28` and `:290` |
| `ResetOnce` | `SPipe` on `StreamPipe` itself, `FairSpec` | `C:2553`: STOP_SENDING calls `reset()` without looking | the assertion at `stream.py:292` |
| `CryptoIsReported` | `RLoss`, `RecoveryFairSpec`, `Timer = FALSE` | `asyncio/protocol.py:121`: the statement that schedules the timer is inside a string literal | the docstring at `protocol.py:105` |
| `LegalNeverRefused` | `CIds` | `C:2465`: every copy of a RESET_STREAM, and bytes that come after it, count against the connection's limit | RFC 9000 4.5, `quicMapper/README.rst:54` |
| `PaddedForItsFrames` | `Packets` | `packet_builder.py:312`: frames of earlier packets decide on the padding | the comment at `packet_builder.py:118` |
| `TicketsAlwaysAgree` | `TSession` | `tls.py:1824`: a second Finished goes into the transcript the ticket is built from | the comment at `tls.py:1804-1806` |
| `FirstIsInitial` | `Serve` | `asyncio/server.py:86`: a late INITIAL ACK opens a connection that reads nothing, and the next packet to it fails an assertion | the assertion at `C:1253` |
| `UpdatesAreRead` | `Serve` | `C:1449`: a key update looks at nothing but the handshake | the docstring at `C:1447` |
| `FrontIsNewest` | `Serve` | `C:1431`: INITIAL keys stay, so a late INITIAL packet pulls the path back | `quicMapper/README.rst:58` |
| `PushSupported` | `H3` | `h3/connection.py:1057`: a PUSH_PROMISE that waited for a table entry is resumed as HEADERS and closes the connection | `quicMapper/README.rst:61` |
| `MatchedDrawnOnce` | `Models` | `fsm.py:416`: an edge for every pair of equal edges | the docstring at `fsm.py:412` |
| `MatchedByOne` | `Models` | `fsm.py:287`: ties among landmarks all stay | the docstring at `fsm.py:325` |
| `SuitesMerged` | `Models` | `optimiseModel.py:304`: waits are not compared when suites are merged | the comment at `optimiseModel.py:278` |
| `AnswersCorrect` | `LMAnswers`, `Races = {"earlyDeath"}` | `learner.py:283`: a relaunch keeps the output of the mapper that died | the comment at `learner.py:209` |
| `ActiveHasNoCloseEvent` | `HLetters` | `mapper.py:806`: only PING.ACKED and RETRY reset the close event | the comment at `mapper.py:806` |
| `ZeroRttStops` | `HLetters` | `mapper.py:238`: 0-RTT letters stop with a saved ticket, not with HANDSHAKE_DONE | the comment at `mapper.py:231-233` |

## Proofs

The proof modules are checked by TLAPS with Z3, Zenon and LS4, for every value
of the constants that satisfies the assumptions named in the modules.

| Module | Theorems | Argument |
|---|---|---|
| `LearnerMapperProofs` | `InvariantHolds`, `AnswersAlwaysCorrect`, `TypesHold`, `LearnerMapperRefines` | `IInv` is inductive when `"earlyDeath" \notin Races`; the refinement to `LearnerQuery` maps every step to a step or a stutter, using `IInv` for the value of a reply |
| `PacketProofs` | `RecoveryInvHolds`, `CountersMatchTableHolds`, `OneFateEachHolds`, `OvertakenIsWatched`; `AckFramesAreExact`, `NewNumbersAreAlwaysRead`; `RequestsAreDueOrSent`, `PacketNumbersAddUp`, `PacketsAlwaysAddUp`, `PaddingIsAsConfigured` | below |
| `ModelProofs` | `IInvHolds`, `TableMatchesCacheHolds`, `RowsOfSDifferHolds`, `CexIsLongEnoughHolds`, `OnlyFlakyAbortsHolds`, `HypothesisIsMinimalHolds`; `OptimisedIsAlwaysLearned`, `DiffInvHolds`, `DiffIsAlwaysExact` | below |
| `StreamPipeProofs` | `SenderInvHolds`, `SenderAccountsHolds`, `FramesCarryTheirBytesHolds`, `EmptyHasNothingToSendHolds`, `PipeInvHolds`, `PipeAccountsHolds`, `IsBytePipeHolds`, `DroppedWasReceivedHolds`, `FinishedMeansReceivedHolds` | below |
| `MapperProofs` | `MapperInvHolds`, `TypeOKHolds`, `KeyOrderHolds`, `AnswersMatchMessagesHolds`, `CloseInvHolds`, `GivesUpAfterCloseHolds` | below |
| `ApplicationProofs` | `ApplicationInvHolds`, `IdsNotForgottenHolds`, `NoRetiredIdInUseHolds`, `LimitsNotForgottenHolds`, `NothingLegalRefusedHolds` | below |
| `TlsSessionProofs` | `SessionInvHolds`, `KeysAgreeHolds`, `TicketsAgreeHolds`, `ImplementsTlsClientHolds` | below |
| `QuicServerProofs` | `ServerInvHolds`, `OneConnectionHolds`, `ParametersAgreeHolds`, `RoutesMatchIdsHolds`, `NeverLockedOutHolds`, `FrontFollowsHolds`, `EchoMeansReachedHolds`, `AddressValidatedHolds` | below |

**`ModelProofs`.** Of the learning loop, `IInv` says how long each row is while the
table is being filled, and that two rows of S differ at a place both have; it keeps
new suffixes from hiding a difference. On top of it, `WalkOK` follows the first letter
of the walk: the hypothesis then stands at a row of the same value as the walk.
`OnlyFlakyAborts` rests on `CacheIsTrue`: while no wrong answer was given, the cache,
the row cells and the walk hold what the machine answers, so a query cannot contradict
the cache. `HypothesisIsMinimal` is proved for all words, not only those of the bound:
the behaviours of words of at most `k` letters grow with `k` until they are `Stable`,
so words of `Cardinality(States)` letters tell apart whatever any word does
(`ShortWordsTellApart`, Moore's bound); different rows of S belong to different
behaviours, so there are no more rows than distinguishable states (`RowsFitStates`);
and when there are as many, a run of the hypothesis stays at the row of the machine's
state (`HypothesisFollows`). Runs are `RunFrom`, a function defined by recursion on
the position in the word, with the induction done by the least position that fails
(`HasLeast`).

Of the models that were learned, `OptimisedIsAlwaysLearned` says that
`optimiseModel.py` loses and invents no step. A model is any finite set of lines that
satisfies `LearnedModel`: whether a letter has a suite and whether it has a suffix
depends on its type, as `generateInputDictionary` makes it. This is needed: a line
without a suffix beside one with a suffix would be taken for a merged one. There are
exactly three suites; a Client Hello with two more of other suites beside it
(`AllSame`) then stands for all three, by counting (`AllSuites`). What is merged over
waits that were merged to a different extent (`MixedWaits`) is excepted in the
property itself, since the code does add steps there (`SuitesMerged` fails); that it loses
none is proved for these too. `DiffIsAlwaysExact` says that the annotated graph of
FSM_diff holds each model exactly, and nothing twice that neither of them has twice,
for any models, any scores the solver may find and any choice among candidates of
equal score, as long as no state got two partners (`OneToOne`, a hypothesis of the
property, which ratio 1 and ties can break). `DiffInv` is what it needs of the state:
finite models with the arrow out of `__start0`, and a matching made of pairs of their
states, from which the result is drawn. The step from there is about the names of
nodes only: `annotade_edges` numbers the matched pairs, then the states left over of
the first model and those of the second, and no two get the same number
(`NodesTellApart`). An edge of the graph is known by the lines it was drawn from: two
of them that are parallel and of one label come from different lines of one model,
which then are parallel and of one label there (`TwinsAreOfTwins`). `ColorAssumption`
says that "no colour" is none of the two colours.

**`PacketProofs`.**  *Recovery.*  `RecoveryInv` is inductive: the table is finite,
numbers grow, and the largest acknowledged number bounds every acknowledged packet
since the Retry; cardinalities are those of `FiniteSetTheorems`.

*ACK queue.*  `RangeSet.add` and `subtract` are analysed first: in a list whose
ranges are in order and do not touch (`Ascending`), adding a range gives such a list
of the numbers of both (`AddAdds`), subtracting one gives such a list without its
numbers, and what `push_ack_frame` writes is read back as the same list.  `AckInv`
joins three accounts: the list stands for what arrived and was not yet known to be
known (`QueueInv`); a number on its way is at most half a window above one the peer
knows was received, and what is expected lags behind the largest received by one
at most (`NumbersInv`), which together make `decode_packet_number` exact for every
window; and each frame sent tells what it was made of (`FramesInv`).  Neither the
number of packets nor that of losses is bounded; `NumberBound` is the 2^62 of the
code, below which every packet number of QUIC is.

*Packets.* `WriterInv` is inductive for `datagrams_to_send`, whatever the scene.
`BuilderInv` gives the place of each packet in its datagram (`Shaped`): one after the
other, a short header only as the last, the position behind the header, and equal to
it just as long as the packet is empty, which is what `_end_packet` drops packets by.
`PlaceInv` says where in the call the writer can be with which packet open.
`RequestedIsDueOrSent` is inductive together with them: a frame is taken off what is
due in the same step in which it enters a packet, and `Carried` counts it wherever the
packet is, so an exception loses none. `NumberingInv` counts packets over all calls,
with those not flushed yet; from it `PacketNumbersAddUp`. `FitInv`, that no datagram
is larger than `PACKET_MAX_SIZE`, needs the hypothesis `FewRanges` of
`PacketsAlwaysAddUp`: an ACK frame of up to 30 ranges fits in the 64 bytes
`_write_ack_frame` asks for (`ACK_FRAME_CAPACITY`), and nothing in the code keeps a
queue that short; with more ranges the frame overruns the packet, as noted above.
`PadInv` gives `PaddingIsAsConfigured`: each INITIAL packet that is sealed, sent or
not, is padded by the option that applies to it given the packets before it in its
call (`Right`), and packets that come later change nothing about that (`PacketsGoOn`).
While the client writes INITIAL packets, which come first in a call (`Rows`), what the
builder remembers of ACK frames is what those packets hold, the open one included
(`Knows`). Messages may be of any length. Assumed of the constants: sizes are those of
the code (`BuilderAssumption`: what is asked for with `MIN_ROOM` free fits), scenes
ask for frames there are (`ScenesAssumption`), the INITIAL, HANDSHAKE and 1-RTT epochs
have a packet space (`SpacesAssumption`), and `None` is no packet and no epoch
(`NoneAssumption`).

**`StreamPipeProofs`.** `SenderInv` is inductive for `SenderSpec`, in which frames are
reported at any time; no bound on bytes or losses is used. `PipeInv` joins `SenderInv`
with the receiver: no frame goes beyond what was written and one with the FIN bit ends
there; the receiver's buffer is the bytes of the offsets it has got, none of which the
writer did not write. From it every step of the pair is a step of `BytePipe` or a
stutter (`IsBytePipeHolds`, which is the whole of `BytePipe` but its liveness). For
streams that are not reset `CompleteInv` says that what arrived, and so what was
acknowledged, is there. `Marked` follows the end: who has received the last byte knows
the end (`EndIsTold`) and a sender that is finished has had its end read
(`DoneIsEnded`), unless that end was written after the last byte had left
(`EndApart`), when `stream.py:268` may finish the sender too early; the last theorem
has the same exception in its property, and no hypothesis.

**`MapperProofs`.** `MapperInv` is the types with the fields of the connection
(`StateOK`), the keys a TLS context must have in each of its states (`KeysFollow`),
and the account of its messages: taken, waiting in the context, waiting in the
connection, told. `CloseInv` adds that a letter that closes has sent a
CONNECTION_CLOSE or raised, which holds for words without `norClose` (the letter of
`norConClose`, which no dictionary of `inOutPut.py` has): after an hndFin that raised
it closes in an epoch without a key, writes nothing, and the connection is still given
up. The two theorems that need it state this as a hypothesis. `target` is any of its
values and never changes (`TargetStays`); for MSQUIC, which is given up for its
silence, the exception of `GivesUpAfterClose` is the one of a letter that raised.

**`ApplicationProofs`.**  In `ApplicationInv` IDs are used in the order of their
numbers, so all that is ever to be retired lies below the destination in use; every
frame ever sent said no more than the state has now (`FramesOK`), which is what
makes repeated and late packets harmless; and the sums over streams keep
`Reached` below what the server has sent within its limits.  Bounds on packets,
losses and IDs are not used.

**`TlsSessionProofs`.**  `SessionInv` speaks of the client and the server in the
terms of `TheAnswer`, what a server that has answered put into its key schedule:
the hello it took up, the secrets, and what it chose.  From it follow the
transcript after each message, every key of the server and the Finished it waits
for (`ServerOK`), and the messages on their way, each at most once and in their
order (`FlightOK`).  The client stands at one of four places of that answer
(`BeforeHello`, `BeforeExtensions`, `BeforeEnd`, `AfterEnd`), told apart by the
keys it has.  A client that could read the EncryptedExtensions has the key of the
server, and equal secrets have equal terms, so its schedule is that of the answer
although letters may have made further hellos since.  What makes `KeysAgree`
inductive is that a server cannot take a Finished the client wrote too early:
the one it waits for (`Verify`) covers its own Finished, which is the last term
of the transcript there, and no transcript of a client that has not read it
contains it.  The suites, configurations, letters and the numbers of connections,
hellos and messages are arbitrary.  A secret or schedule that is missing is
`NoKey` or `NoSchedule`, records that no derived term equals, and the messages a
context has not pushed lie in one buffer for each epoch, as in `_crypto_buffers`.

`ImplementsTlsClientHolds` is the refinement, step by step. `ClientView` forgets the
secrets: of a key it keeps whether it is there, of the server's handshake key also
whether it is the one the server sends with, of a buffer the types in it. There is one
lemma for each letter and for each message the client reads (`SendHelloView`,
`TakesHelloView`, ...): both sides raise the same alert (`AlertsAlike`) or take the
message to the same view. `SessionInv` is needed wherever `TlsClient` asks a boolean
that here is an equality of terms: a ServerHello fits when it answers the client's
last hello, by its key share, and, if it takes up the ticket, when that hello was the
first, whose binder the PSK schedule is made of; the server's Finished fits when the
client's transcript is that of the answer.

**`QuicServerProofs`.** `ServerInv` says that there are at most two connections, and
that the second, which a late INITIAL ACK opens for the first ID once that is retired,
has read nothing (`Unread`); it joins four accounts of the first. *Packets on the way*
(`UpOK`, `DownOK`): a packet of the client has a number below its next one, which no
other 1-RTT packet has; a ClientHello goes to the first ID without a token or to that
of the Retry with its token; a 1-RTT packet of either side is of no later key phase
than its sender is in now. *Keys* (`InStep`): a side that was never `hasty` is at most
one phase ahead of the other, and no side is ahead when it has heard the other in its
phase; since all updates of a side that is not hasty are asked for in such a phase,
`OneReadsTheOther` follows for two of them, and so `NeverLockedOut`, for any number of
updates. *IDs* (`IdsOK`, `TableOK`): the ID of the hello stays in the table, whatever
is issued and retired, so that a ClientHello that comes again finds its connection;
what else is in the table the connection holds, or leads to the connection that reads
nothing (`Routes`); what it holds is in the table, not yet sent, or among `issued`,
the events that wait for the next datagram. *Paths* (`PathsOK`, `NewestOK`): the path
in use is that of the newest 1-RTT packet, as long as that does not probe and nothing
of the handshake moved it. Each operator of a connection has a lemma of its own
(`GreetIs`, `CompleteIs`, `FramesOK`, `OnPathOK`, `TransmitOK`, ...), `ReceiveOK` and
`DeliverIs` put them together, and there is one lemma for each action. Bounds on
hellos, Retry packets, packets, phases and moves are not used, and nothing is assumed
of the applications. `ServerInv` was checked by TLC in the instance of `Serve` first.

Only model-checked: all liveness (`StepReturns`, `EndIsRead`, `ResetFinishes`,
`Ends`), since fairness and ENABLED are out of the prover's reach; HTTP/3, whose
parsers in `H3Stream` are RECURSIVE, so that nothing can be proved in a module that
reaches them.

## Not modelled

* Durations: timeouts, pacing, congestion window and round-trip estimates appear
  as orders of events or as choices; persistent congestion is left out.
* Encodings of headers, transport parameters and TLS messages, AEAD and header
  protection, certificate chains: no state that the properties could tell apart.
* The idle timer, the event queue and the waiters of the asyncio protocol, its
  stream adapter, `close` of the server; QPACK's decoder stream, HTTP/3
  datagrams, `h0`.
* Version negotiation in `Recovery` (`C:1165` sets the packet number back without
  new spaces).  CRYPTO frames have no delivery handler (`C:3497`), so lost CRYPTO
  data is by intent only sent again by a letter.
* The LearnLib bridge (Java over py4j) and the AALpy algorithms that `learner.py`
  does not call; `findND` (a C++ tool over logs); logging and configuration
  records; Docker files, results, dot models.

## Plan

Done: learner and mapper, learning loop, streams, recovery with their proofs;
then the handshake and TLS, IDs and limits, packets and ACK queue, the server,
HTTP/3 and the comparison of models; proofs of the byte pipe, the mapper's
letters, IDs and limits, the TLS session and its refinement, the server; of
ranges and ACK frames, the packet writer with its padding, the optimiser and
FSM_diff.  The cases in which a promise is not kept are inside the models: the
properties name them, and TLC shows each.  Left aside are
proofs that need induction over data, and the parts listed above.
