---- MODULE MCRecovery ----
(* Small instances of Recovery for TLC. *)
EXTENDS Recovery

\* CRYPTO data and PING in one space, streams and ACKs in the other.
MCKinds == {<<"handshake", "crypto">>, <<"handshake", "data">>,
            <<"application", "data">>, <<"application", "ack">>}
====
