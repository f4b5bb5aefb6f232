---- MODULE MCApplication ----
\* Instances of Application: connection IDs, the client's limits, the server's.
EXTENDS Application

IdThemes == {{"ids", "original", "newId", "retire", "ack"}, {"badIds", "newId", "retire", "ack"}}
LimitThemes == {{"data", "reset", "ack"}, {"write", "maxData", "maxStreams", "maxStreamData", "ack"}}
AllThemes == IdThemes \cup LimitThemes
====
