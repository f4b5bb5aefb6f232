---- MODULE MCTlsSession ----
(* Three cipher suites, two of which share a hash, as in tls.py.            *)
EXTENDS TlsSession, TLC

MCHashOf == "AES128" :> "SHA256" @@ "AES256" :> "SHA384" @@ "CHACHA" :> "SHA256"
MCClientSuites == <<"AES256", "AES128", "CHACHA">>
MCOffers == {Members(MCClientSuites), {"AES128"}}
MCClientAlpn == <<"h3">>
Server(suites, alpn, tickets, keeps) ==
  [suites |-> suites, alpn |-> alpn, tickets |-> tickets, keeps |-> keeps]
MCServerConfigs ==
  {Server(MCClientSuites, <<"hq", "h3">>, TRUE, TRUE),
   Server(<<"CHACHA", "AES128">>, None, TRUE, TRUE),
   Server(<<"AES128">>, <<"h3">>, FALSE, TRUE),
   Server(MCClientSuites, <<"h3">>, TRUE, FALSE),
   Server(MCClientSuites, <<"hq">>, TRUE, TRUE)}
====
