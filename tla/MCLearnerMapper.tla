---- MODULE MCLearnerMapper ----
(* A Mealy machine small enough to check: ch is a ClientHello, fin completes *)
(* the handshake and brings a ticket, disc is [Disconnect].                  *)
EXTENDS LearnerMapper, SequencesExt

CONSTANTS MaxLen

\* ch answers with a ServerHello once; fin completes the handshake, which
\* takes two lines; disc drops the connection after that.
Seen(w, i, l) == \E k \in 1..(i - 1) : w[k] = l
ReplyTo(w, i) ==
  CASE w[i] = "ch" /\ ~Seen(w, i, "ch") -> <<"sh", End>>
    [] w[i] = "fin" /\ Seen(w, i, "ch") /\ ~Seen(w, i, "fin") -> <<"done", "nst", End>>
    [] w[i] = "disc" -> IF Seen(w, i, "fin") THEN <<"", End>> ELSE <<End>>
    [] OTHER -> <<"", End>>

MCWords == UNION {[1..n -> Letters] : n \in 0..MaxLen}
Transcript(w, n) == FlattenSeq([i \in 1..n |-> ReplyTo(w, i)])
MCScript == [w \in MCWords |-> Transcript(w, Len(w))]
MCEnds == [w \in MCWords |-> [n \in 0..Len(w) |-> Len(Transcript(w, n))]]
MCLateReplies == {<<"", End>>, <<End>>, <<"closed", End>>}
----
VARIABLE calm   \* the windows of Races are not hit in this behaviour

EarlyKill == phase = "ending" /\ phase' = "idle" /\ mapper \in {"idle", "busy", "finishing"}
UnseenDeath == phase = "pre" /\ server = "up" /\ server' = "down"

MCInit == Init /\ calm \in BOOLEAN
MCNext == Next /\ UNCHANGED calm /\ (calm => ~EarlyKill /\ ~UnseenDeath)
MCFairSpec == MCInit /\ [][MCNext]_<<vars, calm>> /\ Fairness

\* While no mapper has crashed and no window was hit, a mapper starts with no
\* ticket or with one that was never offered to the server and that the running
\* server issued, and outside a PSK run it starts with none: a ticket offered
\* twice makes the answers differ between queries (main's cleanup at "end" and
\* pre()'s removal are there for this).  A mapper that crashes, or is killed
\* before it acted on "end", leaves its used ticket behind, and a server that
\* dies between pre()'s two looks leaves a stale one.
CleanTicketAtBoot ==
  [][MapperBoot /\ calm /\ mapperCrashes = 0 =>
       loaded' \in IF PSK THEN {"none", "fresh"} ELSE {"none"}]_vars
====
