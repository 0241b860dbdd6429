--------------------------- MODULE MCSocketProbes ---------------------------
(***************************************************************************)
(* Two threads: one opens, reads and closes, the other reads and writes.   *)
(* In one scope both open and close.                                       *)
(***************************************************************************)
EXTENDS SocketProbes, TLC

CONSTANTS t1, t2

Scope(strategy, filter, direction, uses1, most1, uses2, most2) ==
    [strategy |-> strategy, filter |-> filter, direction |-> direction, loopback |-> TRUE,
     streams |-> {"http", "mysql"}, remote |-> <<"v4", "public">>, managed |-> FALSE,
     dns |-> FALSE,
     uses |-> (t1 :> uses1) @@ (t2 :> uses2), most |-> (t1 :> most1) @@ (t2 :> most2),
     carries |-> Contents, drops |-> 1]

Observed(uses1, most1, uses2, most2) ==
    Scope("observe", {}, "all", uses1, most1, uses2, most2)

MCScopes ==
    {Observed({"socket", "connect", "close"}, 4, {"read"}, 2),
     Observed({"accept", "recvfrom", "close"}, 3, {"sendto"}, 1),
     Observed({"accept", "close"}, 2, {"accept", "read", "drop"}, 3),
     Observed({"accept4", "drop"}, 3, {"recvmsg", "peek", "writev"}, 2),
     Scope("forward", {}, "all", {"accept", "close"}, 2, {"sendmsg", "readv"}, 2),
     Scope("ignore", {}, "all", {"accept", "close"}, 2, {"write", "read"}, 1),
     Scope("observe", {"data"}, "ingress", {"accept", "socket", "connect", "drop"}, 3, {"read"}, 1)}

Symmetric == Permutations(Socks) \cup Permutations(Elems)
=============================================================================
