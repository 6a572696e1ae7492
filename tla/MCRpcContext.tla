---- MODULE MCRpcContext ----
(* TLC instance of RpcContext.  The seq ids are the closures of the timers. *)
EXTENDS RpcContext, TLC

CONSTANTS s1, s2, c1, c2, c3

MCServers == {s1, s2}
MCClients == {c1, c2, c3}
MCSeqs == 1 .. 3
MCTimeouts == 0 .. 1
Sym == Permutations(MCServers) \cup Permutations(MCClients)
Plain == {"plain"}
Both == {"plain", "callback"}
OkOnly == {"ok"}
OneTick == {1}
Answers == {"ok", "time_out"}
====
