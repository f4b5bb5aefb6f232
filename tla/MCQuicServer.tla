---- MODULE MCQuicServer ----
EXTENDS QuicServer

\* Addresses that play the same part.
CONSTANTS home, away
AddrsDef == {home, away}
Symmetric == Permutations(AddrsDef)

\* Opening a connection; changing keys; moving and changing IDs.
Setting(retry, versions, hellos, packets, phases, moves) ==
  [retry |-> retry, versions |-> versions, hellos |-> hellos, packets |-> packets,
   phases |-> phases, moves |-> moves]
SettingsDef ==
  {Setting(TRUE, {"old", "new"}, 3, 1, 0, 1), Setting(FALSE, {"old", "new"}, 2, 1, 0, 1),
   Setting(FALSE, {"new"}, 1, 3, 2, 0), Setting(FALSE, {"new"}, 2, 2, 2, 0),
   Setting(FALSE, {"new"}, 1, 3, 0, 1), Setting(FALSE, {"new"}, 1, 2, 0, 2)}
====
