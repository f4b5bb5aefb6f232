---- MODULE LearnerMapper ----
(***************************************************************************)
(* One learner process (QUIC_SUL, quicLearner/learner.py) drives one       *)
(* mapper process (main, quicMapper/mapper.py) through two append-only     *)
(* text files.  The learner appends a letter to the input file and reads   *)
(* the output file line by line until "end"; the mapper takes the letters  *)
(* in order, runs each against the server, and appends its answer.  Either *)
(* process can lose the other: the mapper may die at any time and is then  *)
(* restarted from the first letter, and the server may die under both.     *)
(*                                                                         *)
(* A missing file is an empty one: both readers treat them alike.          *)
(***************************************************************************)
EXTENDS Integers, Sequences

CONSTANTS
  Letters,           \* the input alphabet
  Words,             \* the words the learner may ask
  Script, Ends,      \* what a live server makes of a word: see LearnerQuery
  LateReplies,       \* what the mapper may answer once the server is gone
  Hello,             \* letters that make the TLS engine send a ClientHello
  Ticketing,         \* letters that make a server grant a session ticket
  Disconnect,        \* the letter that replaces the mapper's connection
  PSK,               \* the input dictionary is a PSK one (--getSessionTicket)
  DropsTicket,       \* the target is PQUIC or KWIK
  KillsServer,       \* the target is QUICHE, S2NQUIC, QUANT or PQUIC
  Races,             \* the timing windows that may be hit: a subset of Windows
  MaxMapperCrashes, MaxServerCrashes, MaxQueries

\* earlyDeath: the mapper dies in the 0.5 s after its launch, having already
\* written output.  lateEnd: the mapper is killed before it acted on "end", in
\* spite of the 0.5 s that isSUTAlive sleeps.  preCrash: the server dies
\* between the two times pre() looks at it.
Windows == {"earlyDeath", "lateEnd", "preCrash"}

End == "end"

ASSUME ScriptAssumption ==
  /\ Words \subseteq Seq(Letters)
  /\ End \notin Letters
  /\ \A w \in Words :
       /\ Ends[w] \in [0..Len(w) -> Nat]
       /\ Ends[w][0] = 0
       /\ \A i, j \in 0..Len(w) : i < j => Ends[w][i] < Ends[w][j]
       /\ Script[w] \in Seq(STRING)
       /\ Len(Script[w]) = Ends[w][Len(w)]
       /\ \A i \in 1..Len(w) : \A p \in (Ends[w][i - 1] + 1)..Ends[w][i] :
            Script[w][p] = End <=> p = Ends[w][i]

ASSUME ParameterAssumption ==
  /\ LateReplies \subseteq Seq(STRING)
  /\ Hello \subseteq Letters /\ Ticketing \subseteq Letters
  /\ PSK \in BOOLEAN /\ DropsTicket \in BOOLEAN /\ KillsServer \in BOOLEAN
  /\ Races \subseteq Windows
  /\ MaxMapperCrashes \in Nat /\ MaxServerCrashes \in Nat /\ MaxQueries \in Nat

VARIABLES
  \* the learner
  phase,        \* where QUIC_SUL stands
  resume,       \* where startMapper returns to
  word,         \* the word being asked
  outputCount,  \* lines of the output file already consumed
  got,          \* outputList: the lines of the current answer so far
  replies,      \* the answers returned by step in this query
  crashCount, crashInputs,
  \* the files
  inFile, outFile,
  ticket,       \* the session ticket file: none, fresh, used or stale
  \* the mapper
  mapper,       \* its process
  inCount,      \* letters taken from the input file
  zrtt,         \* ableSend0RTTState
  loaded,       \* the ticket its connection was configured with
  canDisconnect,
  \* the server
  server,
  survived,     \* the server has been up since this query began
  \* bounds
  mapperCrashes, serverCrashes, queries

learnerVars == <<phase, resume, word, outputCount, got, replies, crashCount, crashInputs>>
mapperVars == <<mapper, inCount, zrtt, loaded, canDisconnect>>
fileVars == <<inFile, outFile, ticket>>
serverVars == <<server, survived>>
bounds == <<mapperCrashes, serverCrashes, queries>>
vars == <<learnerVars, mapperVars, fileVars, serverVars, bounds>>

Tickets == {"none", "fresh", "used", "stale"}
Alive == {"boot", "idle", "busy", "finishing", "dying"}

TypeOK ==
  /\ phase \in {"idle", "pre", "starting", "ready", "poll", "read", "ending"}
  /\ resume \in {"ready", "poll"}
  /\ word \in Words \cup {<< >>}
  /\ outputCount \in Nat
  /\ got \in Seq(STRING)
  /\ replies \in Seq(Seq(STRING))
  /\ crashCount \in Nat
  /\ crashInputs \subseteq Seq(Letters)
  /\ inFile \in Seq(Letters \cup {End})
  /\ outFile \in Seq(STRING)
  /\ ticket \in Tickets
  /\ mapper \in Alive \cup {"dead"}
  /\ inCount \in Nat
  /\ zrtt \in {"NOT_READY", "READY", "TOO_LATE"}
  /\ loaded \in Tickets
  /\ canDisconnect \in BOOLEAN
  /\ server \in {"up", "down"}
  /\ survived \in BOOLEAN
  /\ mapperCrashes \in 0..MaxMapperCrashes
  /\ serverCrashes \in 0..MaxServerCrashes
  /\ queries \in 0..MaxQueries

Init ==
  /\ phase = "idle" /\ resume = "ready"
  /\ word = << >> /\ outputCount = 0 /\ got = << >> /\ replies = << >>
  /\ crashCount = 0 /\ crashInputs = {}
  /\ inFile = << >> /\ outFile = << >> /\ ticket = "none"
  /\ mapper = "dead" /\ inCount = 0 /\ zrtt = "NOT_READY"
  /\ loaded = "none" /\ canDisconnect = FALSE
  /\ server = "down" /\ survived = TRUE
  /\ mapperCrashes = 0 /\ serverCrashes = 0 /\ queries = 0
----
(* The learner. *)

\* pre(), first look at the server: a ticket of a dead server is thrown away.
PreTicket ==
  /\ phase = "idle"
  /\ queries < MaxQueries
  /\ phase' = "pre"
  /\ ticket' = IF server = "down" THEN "none" ELSE ticket
  /\ queries' = queries + 1
  /\ UNCHANGED <<resume, word, outputCount, got, replies, crashCount, crashInputs,
                 inFile, outFile, mapperVars, serverVars, mapperCrashes, serverCrashes>>

PreStartKeepsCount(w) ==   \* (mutant: outputCount is not reset)
  /\ phase = "pre"
  /\ phase' = "starting" /\ resume' = "ready"
  /\ word' = w /\ replies' = << >>
  /\ inFile' = << >> /\ outFile' = << >>
  /\ server' = "up" /\ survived' = TRUE
  /\ ticket' = IF server = "down" /\ ticket # "none" THEN "stale" ELSE ticket
  /\ UNCHANGED <<outputCount, got, crashCount, crashInputs, mapperVars, bounds>>

\* The rest of pre(): the server is started if need be, both files go, and the
\* mapper is launched next.  A ticket does not outlive the server it came from.
PreStart(w) ==
  /\ phase = "pre"
  /\ phase' = "starting" /\ resume' = "ready"
  /\ word' = w /\ replies' = << >> /\ outputCount' = 0
  /\ inFile' = << >> /\ outFile' = << >>
  /\ server' = "up" /\ survived' = TRUE
  /\ ticket' = IF server = "down" /\ ticket # "none" THEN "stale" ELSE ticket
  /\ UNCHANGED <<got, crashCount, crashInputs, mapperVars, bounds>>

\* startMapper: a new process while none is seen alive ...
LaunchMapper ==
  /\ phase = "starting"
  /\ mapper = "dead"
  /\ mapper' = "boot" /\ inCount' = 0 /\ zrtt' = "NOT_READY"
  /\ loaded' = "none" /\ canDisconnect' = FALSE
  /\ UNCHANGED <<learnerVars, fileVars, serverVars, bounds>>

\* ... and back to the caller once one is, be it one that was just killed.
MapperSeenAlive ==
  /\ phase = "starting"
  /\ mapper # "dead"
  /\ phase' = resume
  /\ UNCHANGED <<resume, word, outputCount, got, replies, crashCount, crashInputs,
                 mapperVars, fileVars, serverVars, bounds>>

\* step(letter): the next letter of the word goes to the input file.
StepSend ==
  /\ phase = "ready"
  /\ Len(replies) < Len(word)
  /\ inFile' = Append(inFile, word[Len(replies) + 1])
  /\ got' = << >>
  /\ phase' = "poll"
  /\ UNCHANGED <<resume, word, outputCount, replies, crashCount, crashInputs,
                 outFile, ticket, mapperVars, serverVars, bounds>>

StepPollKeepsOutput ==   \* (mutant: the old output file stays)
  /\ phase = "poll"
  /\ \/ /\ mapper = "dead"
        /\ phase' = "starting" /\ resume' = "poll"
     \/ /\ mapper # "dead"
        /\ phase' = "read"
        /\ UNCHANGED resume
  /\ UNCHANGED <<word, outputCount, got, replies, crashCount, crashInputs,
                 fileVars, mapperVars, serverVars, bounds>>

StepPollNeverRestarts ==   \* (mutant: a dead mapper goes unnoticed)
  /\ phase = "poll"
  /\ phase' = "read"
  /\ UNCHANGED <<resume, word, outputCount, got, replies, crashCount, crashInputs,
                 fileVars, mapperVars, serverVars, bounds>>

\* One turn of step's loop: if the mapper is dead, drop its output and restart
\* it.  outputCount and the partial answer are kept.
StepPoll ==
  /\ phase = "poll"
  /\ \/ /\ mapper = "dead"
        /\ outFile' = << >>
        /\ phase' = "starting" /\ resume' = "poll"
     \/ /\ mapper # "dead"
        /\ phase' = "read"
        /\ UNCHANGED <<outFile, resume>>
  /\ UNCHANGED <<word, outputCount, got, replies, crashCount, crashInputs,
                 inFile, ticket, mapperVars, serverVars, bounds>>

\* The other half of the turn: consume one line, if there is a new one.
StepRead ==
  /\ phase = "read"
  /\ IF Len(outFile) > outputCount
     THEN LET line == outFile[outputCount + 1] IN
          /\ outputCount' = outputCount + 1
          /\ \/ /\ line # End
                /\ got' = Append(got, line)
                /\ phase' = "poll"
                /\ UNCHANGED replies
             \/ /\ line = End
                /\ replies' = Append(replies, got)
                /\ phase' = "ready"
                /\ UNCHANGED got
     ELSE /\ phase' = "poll"
          /\ UNCHANGED <<outputCount, got, replies>>
  /\ UNCHANGED <<resume, word, crashCount, crashInputs,
                 mapperVars, fileVars, serverVars, bounds>>

\* post(): tell the mapper.  The equivalence oracle's reset calls post() before
\* pre(), so it may run once more when the last query is already closed.
PostEnd ==
  /\ \/ phase = "ready" /\ Len(replies) = Len(word)
     \/ phase = "idle" /\ queries > 0 /\ Len(inFile) = Len(replies) + 1
  /\ inFile' = Append(inFile, End)
  /\ phase' = "ending"
  /\ UNCHANGED <<resume, word, outputCount, got, replies, crashCount, crashInputs,
                 outFile, ticket, mapperVars, serverVars, bounds>>

\* inputSequence is emptied by the first post() of a query.
SequenceAtPost == IF Len(inFile) = Len(word) + 1 THEN word ELSE << >>

\* The rest of post(): look at the server, note a crash, kill what is to be
\* killed.
PostKill ==
  /\ phase = "ending"
  /\ "lateEnd" \notin Races => mapper \notin {"idle", "busy", "finishing"}
  /\ phase' = "idle"
  /\ crashCount' = IF server = "down" THEN crashCount + 1 ELSE crashCount
  /\ crashInputs' = IF server = "down" THEN crashInputs \cup {SequenceAtPost}
                    ELSE crashInputs
  /\ server' = IF KillsServer THEN "down" ELSE server
  /\ mapper' = IF mapper = "dead" THEN "dead" ELSE "dying"
  /\ UNCHANGED <<resume, word, outputCount, got, replies, inCount, zrtt, loaded,
                 canDisconnect, fileVars, survived, bounds>>

Learner ==
  \/ PreTicket
  \/ \E w \in Words : PreStart(w)
  \/ LaunchMapper \/ MapperSeenAlive
  \/ StepSend \/ StepPoll \/ StepRead
  \/ PostEnd \/ PostKill
----
(* The mapper. *)

\* main: without a ticket file a PSK run first gets a ticket on a connection of
\* its own, which a live server may or may not grant.
MapperBoot ==
  /\ mapper = "boot"
  /\ mapper' = "idle"
  /\ ticket' \in IF PSK /\ ticket = "none" /\ server = "up" THEN {"none", "fresh"}
                 ELSE {ticket}
  /\ loaded' = ticket'
  /\ UNCHANGED <<learnerVars, inFile, outFile, inCount, zrtt, canDisconnect,
                 serverVars, bounds>>

\* Take the next line of the input file.
MapperTake ==
  /\ mapper = "idle"
  /\ Len(inFile) > inCount
  /\ inCount' = inCount + 1
  /\ mapper' = IF inFile[inCount + 1] = End THEN "finishing" ELSE "busy"
  /\ UNCHANGED <<learnerVars, zrtt, loaded, canDisconnect, fileVars, serverVars, bounds>>

\* What a letter does to the ticket file and to the 0-RTT state of the
\* connection: a ClientHello spends the ticket, a new ticket replaces it, and
\* Disconnect starts over with the ticket that is there.
TicketEffect(letter) ==
  \/ /\ letter = Disconnect /\ canDisconnect
     /\ zrtt' = "NOT_READY" /\ canDisconnect' = FALSE
     /\ loaded' = ticket
     /\ UNCHANGED ticket
  \/ /\ letter \in Hello
     /\ zrtt' = IF zrtt = "NOT_READY" THEN "READY" ELSE zrtt
     /\ ticket' = IF loaded # "none" /\ zrtt = "NOT_READY" THEN "used" ELSE ticket
     /\ UNCHANGED <<loaded, canDisconnect>>
  \/ /\ letter \in Ticketing /\ server = "up" /\ zrtt = "READY"
     /\ ticket' = "fresh" /\ zrtt' = "TOO_LATE" /\ canDisconnect' = TRUE
     /\ UNCHANGED loaded
  \/ /\ ~(letter = Disconnect /\ canDisconnect)
     /\ letter \notin Hello
     /\ ~(letter \in Ticketing /\ server = "up" /\ zrtt = "READY")
     /\ UNCHANGED <<ticket, zrtt, loaded, canDisconnect>>

\* fuzzIn on the letter taken, and its answer appended in one write.
MapperReply ==
  /\ mapper = "busy"
  /\ mapper' = "idle"
  /\ IF survived
     THEN outFile' = outFile \o SubSeq(Script[word], Ends[word][inCount - 1] + 1,
                                       Ends[word][inCount])
     ELSE \E r \in LateReplies : outFile' = outFile \o r
  /\ TicketEffect(inFile[inCount])
  /\ UNCHANGED <<learnerVars, inFile, inCount, serverVars, bounds>>

MapperFinishKeepsOffered ==   \* (mutant: zrtt is not looked at)
  /\ mapper = "finishing"
  /\ mapper' = "dead"
  /\ ticket' = IF ~PSK \/ DropsTicket THEN "none" ELSE ticket
  /\ UNCHANGED <<learnerVars, inFile, outFile, inCount, zrtt, loaded, canDisconnect,
                 serverVars, bounds>>

\* "end": the ticket file is removed if the ticket was offered and no new one
\* came, for the targets that need it, and always outside a PSK run.
MapperFinish ==
  /\ mapper = "finishing"
  /\ mapper' = "dead"
  /\ ticket' = IF ~PSK \/ zrtt = "READY" \/ DropsTicket THEN "none" ELSE ticket
  /\ UNCHANGED <<learnerVars, inFile, outFile, inCount, zrtt, loaded, canDisconnect,
                 serverVars, bounds>>

\* The kernel gets round to ending a killed mapper.
MapperExit ==
  /\ mapper = "dying"
  /\ mapper' = "dead"
  /\ UNCHANGED <<learnerVars, inCount, zrtt, loaded, canDisconnect, fileVars,
                 serverVars, bounds>>

Mapper == MapperBoot \/ MapperTake \/ MapperReply \/ MapperFinish \/ MapperExit
----
(* Failures. *)

MapperCrash ==
  /\ mapper \in {"boot", "idle", "busy", "finishing"}
  /\ mapperCrashes < MaxMapperCrashes
  /\ phase = "starting" /\ outFile # << >> => "earlyDeath" \in Races
  /\ mapper' = "dead"
  /\ mapperCrashes' = mapperCrashes + 1
  /\ UNCHANGED <<learnerVars, inCount, zrtt, loaded, canDisconnect, fileVars,
                 serverVars, serverCrashes, queries>>

ServerCrash ==
  /\ server = "up"
  /\ serverCrashes < MaxServerCrashes
  /\ phase = "pre" => "preCrash" \in Races
  /\ server' = "down" /\ survived' = FALSE
  /\ serverCrashes' = serverCrashes + 1
  /\ UNCHANGED <<learnerVars, mapperVars, fileVars, mapperCrashes, queries>>

Next == Learner \/ Mapper \/ MapperCrash \/ ServerCrash

Spec == Init /\ [][Next]_vars

\* The learner's loops and the mapper's busy loop are always runnable; the
\* failures need not happen.
Fairness ==
  /\ WF_vars(\E w \in Words : PreStart(w))
  /\ WF_vars(LaunchMapper) /\ WF_vars(MapperSeenAlive)
  /\ WF_vars(StepSend) /\ WF_vars(StepPoll) /\ WF_vars(StepRead)
  /\ WF_vars(PostKill)
  /\ WF_vars(Mapper)

FairSpec == Spec /\ Fairness
----
(* What the learner relies on. *)

Answer(w, i) == SubSeq(Script[w], Ends[w][i - 1] + 1, Ends[w][i] - 1)

\* However often the mapper dies and replays the word from its first letter,
\* each answer step() returned is the one the server gave to that letter, as
\* long as the server lived through the query: the lines skipped by the kept
\* outputCount are exactly the lines already consumed.
AnswersCorrect ==
  survived => \A i \in 1..Len(replies) : replies[i] = Answer(word, i)

\* The learner and the mapper together answer queries the way the learning
\* algorithm assumes.
Query == INSTANCE LearnerQuery WITH open <- phase \in {"starting", "ready", "poll", "read"}
AnswersQueries == Query!QSpec

\* Every step() returns, unless the server died and the mapper as well: then
\* the replay may produce fewer lines than were consumed before.
StepReturns ==
  phase = "poll" ~> phase = "ready" \/ (~survived /\ mapperCrashes > 0)
----
(* Why AnswersCorrect holds: the inductive invariant behind it.  earlyDeath is  *)
(* the one window in which it does not.                                        *)

\* A query is being asked: its files are in use.
Asking == phase \in {"starting", "ready", "poll", "read"}

\* An answer is awaited, possibly across a restart of the mapper.
Waiting == phase \in {"poll", "read"} \/ (phase = "starting" /\ resume = "poll")

Sent == IF Waiting THEN Len(replies) + 1 ELSE Len(replies)

\* Letters the running mapper has answered.
Answered == IF mapper = "busy" THEN inCount - 1 ELSE inCount

\* No process of an earlier query survives into the next one.
QuietBetween == phase \in {"idle", "pre"} => mapper \in {"dead", "dying"}

\* The files are those of the word, and not of the one before it.
Asked == phase # "pre" /\ (phase = "idle" => queries > 0)

\* The input file holds the word asked so far, and after it only "end".
InputIsWord ==
  /\ Asked => word \in Words
  /\ Asking => Sent <= Len(word) /\ Len(inFile) = Sent
  /\ Asked =>
       \A k \in 1..Len(inFile) :
         inFile[k] # End => k <= Len(word) /\ inFile[k] = word[k]
  /\ Asking => \A k \in 1..Len(inFile) : inFile[k] # End

\* The mapper is never ahead of the input file.
MapperBehind ==
  /\ mapper \in {"idle", "busy"} => inCount <= Len(inFile)
  /\ mapper = "busy" => inCount \in 1..Len(word)
  /\ mapper = "finishing" => ~Asking
  /\ mapper = "boot" => inCount = 0

\* What the output file holds during a query.
OutputIsScript ==
  Asking /\ survived =>
    /\ Len(outFile) <= Ends[word][Sent]
    /\ outFile = SubSeq(Script[word], 1, Len(outFile))
    /\ mapper \in {"idle", "busy"} => Len(outFile) = Ends[word][Answered]
    /\ mapper \in {"boot", "dying"} => outFile = << >>
    /\ phase = "starting" /\ mapper = "dead" => outFile = << >>

\* Where the learner's line counter stands.
CursorInAnswer ==
  Asking /\ survived =>
    IF Waiting
    THEN /\ outputCount \in Ends[word][Len(replies)]..(Ends[word][Sent] - 1)
         /\ got = SubSeq(Script[word], Ends[word][Len(replies)] + 1, outputCount)
    ELSE outputCount = Ends[word][Len(replies)]

IInv ==
  /\ TypeOK
  /\ QuietBetween
  /\ InputIsWord
  /\ MapperBehind
  /\ OutputIsScript
  /\ CursorInAnswer
  /\ AnswersCorrect
====
