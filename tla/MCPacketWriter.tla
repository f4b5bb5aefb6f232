---- MODULE MCPacketWriter ----
EXTENDS PacketWriter

CONSTANT Which   \* the scenes of this run

Nothing == [keys |-> {}, isClient |-> TRUE, complete |-> FALSE, confirmed |-> FALSE,
            requests |-> 3, calls |-> 3, wants |-> << >>, streams |-> {}, sizes |-> {},
            aborts |-> FALSE, datagrams |-> {}, letters |-> {}, messages |-> {},
            hello |-> 300, hears |-> FALSE,
            arrivals |-> EachSpace(0)]

AllScenes == [
  \* Before the server has answered with keys.
  hello |-> [Nothing EXCEPT !.keys = {"initial"},
               !.letters = {"hello", "probe", "malformed", "close", "padding"},
               !.arrivals = [EachSpace(0) EXCEPT !["initial"] = 1]],
  \* A Client Hello that takes two packets (its ticket is a long one), when the handshake is
  \* confirmed: an INITIAL packet of the server that came late is not acknowledged before.
  long |-> [Nothing EXCEPT !.keys = {"initial", "oneRtt"}, !.hello = 1300,
               !.complete = TRUE, !.confirmed = TRUE,
               !.letters = {"hello", "padding"},
               !.arrivals = [EachSpace(0) EXCEPT !["initial"] = 1]],
  \* The handshake, with messages that fill a packet, or leave little room in it.
  handshake |-> [Nothing EXCEPT !.keys = {"initial", "handshake", "oneRtt"},
               !.complete = TRUE, !.requests = 2, !.calls = 2,
               !.letters = {"finished", "probe", "close", "malformed"},
               !.messages = {100, 1090, 1500}, !.wants = [newId |-> 7],
               !.arrivals = EachSpace(1)],
  \* A server has the end of the handshake to announce.
  server |-> [Nothing EXCEPT !.keys = {"initial", "handshake", "oneRtt"},
               !.isClient = FALSE, !.complete = TRUE, !.confirmed = TRUE,
               !.calls = 2, !.wants = [done |-> 1, challenge |-> 1, response |-> 1, newId |-> 7],
               !.streams = {"s1"}, !.sizes = {1200},
               !.arrivals = [EachSpace(0) EXCEPT !["oneRtt"] = 1]],
  \* Early data, with CRYPTO frames and ACKs that have no place there.
  early |-> [Nothing EXCEPT !.keys = {"initial", "zeroRtt"},
               !.letters = {"hello", "probe", "zeroRttAck", "close", "malformed"},
               !.streams = {"s1"}, !.sizes = {0, 300}],
  \* An ACK in 0-RTT when the handshake is complete: the packets share a datagram.
  resumed |-> [Nothing EXCEPT !.keys = {"zeroRtt", "oneRtt"},
               !.complete = TRUE, !.confirmed = TRUE, !.letters = {"zeroRttAck", "probe"},
               !.wants = [newId |-> 7, retire |-> 2], !.streams = {"s1"}, !.sizes = {1080}],
  \* A confirmed connection.
  application |-> [Nothing EXCEPT !.keys = {"handshake", "oneRtt"},
               !.complete = TRUE, !.confirmed = TRUE, !.calls = 2, !.requests = 3,
               !.letters = {"close"},
               !.wants = [retire |-> 2, limit |-> 1, streamLimit |-> 1, ping |-> 1],
               !.streams = {"s1", "s2"}, !.sizes = {0, 1300}, !.aborts = TRUE,
               !.datagrams = {1200}],
  \* Packets that come late, twice or not at all.
  acks |-> [Nothing EXCEPT !.keys = {"oneRtt"}, !.complete = TRUE, !.confirmed = TRUE,
               !.requests = 0, !.calls = 3, !.hears = TRUE,
               !.arrivals = [EachSpace(0) EXCEPT !["oneRtt"] = 5]]]

MCSpaces == {"initial", "handshake", "oneRtt"}
MCStreamOrder == <<"s1", "s2">>
MCScenes == {AllScenes[name] : name \in Which}
====
