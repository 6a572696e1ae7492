---- MODULE MCServerCore ----
(* TLC instance of ServerCore: the quitting server of MCRpcContext's instance. *)
EXTENDS ServerCore

CONSTANTS s1, s2, c1, c2

MCServers == {s1, s2}
MCClients == {c1, c2}
MCSeqs == 1 .. 2
MCTimeouts == 0 .. 1
Plain == {"plain"}
Answers == {"ok", "time_out"}
====
