---- MODULE MCH3Connection ----
\* Instances of H3Connection: messages, pushes, WebTransport, a peer that strays.
EXTENDS H3Connection

MessageThemes == {{"message"}}
PushThemes == {{"message", "push", "asked"}}
OtherThemes == {{"webtransport", "client"}, {"control", "stray", "client"}}
StrayThemes == {{"message", "stray", "server", "asked"}, {"message", "stray", "client"}}
SomeThemes == MessageThemes \cup PushThemes \cup OtherThemes \cup StrayThemes
====
