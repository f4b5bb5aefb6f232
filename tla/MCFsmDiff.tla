---- MODULE MCFsmDiff ----
EXTENDS FsmDiff

CONSTANTS s0, s1, s2, ping, fin, hello, aes, gcm, chacha, ok, err
SuitesDef == {aes, gcm, chacha}

Edge(from, in, out, to) == [from |-> from, in |-> in, out |-> out, to |-> to]
Letter(type, wait) == [type |-> type, suite |-> NoSuite, wait |-> wait]
Hello(suite, wait) == [type |-> hello, suite |-> suite, wait |-> wait]

Both(from, type, out, to) == {Edge(from, Letter(type, w), out, to) : w \in {"short", "long"}}
Hellos(from, suites, wait, out, to) == {Edge(from, Hello(s, wait), out, to) : s \in suites}

\* A handshake; a server that is slow to answer; one that treats a suite differently; one that
\* keeps two suites of mixed waits; one with a longer way round.
Plain == Hellos(s0, SuitesDef, "short", ok, s1) \cup Both(s1, fin, ok, s2) \cup Both(s0, ping, ok, s0)
Slow == Hellos(s0, SuitesDef, "long", ok, s1) \cup {Edge(s1, Letter(fin, "long"), ok, s2),
        Edge(s1, Letter(fin, "short"), ok, s0)}
Picky == Hellos(s0, {aes, gcm}, "short", ok, s1) \cup Hellos(s0, {chacha}, "short", err, s2)
         \cup Both(s1, fin, ok, s2)
Mixed == Hellos(s0, SuitesDef, "short", ok, s1) \cup Hellos(s0, {aes}, "long", ok, s1)
         \cup Hellos(s0, {gcm, chacha}, "long", err, s2)
Round == Both(s0, ping, ok, s1) \cup Both(s1, fin, ok, s0) \cup Both(s0, fin, err, s1)
Short == Both(s0, ping, ok, s1)
\* One whose answer depends on the wait, and one whose next state does.
Waits == {Edge(s0, Letter(fin, "short"), ok, s1), Edge(s0, Letter(fin, "long"), err, s1)}
Forks == {Edge(s0, Letter(fin, "short"), ok, s1), Edge(s0, Letter(fin, "long"), ok, s2)}

CasesDef == {[ref |-> r, upd |-> u] : <<r, u>> \in
  {<<Plain, Plain>>, <<Plain, Slow>>, <<Picky, Plain>>, <<Mixed, Plain>>, <<Round, Short>>, <<Short, Round>>, <<Plain, Round>>,
   <<Waits, Short>>, <<Waits, Waits>>, <<Plain, Forks>>}}
====
