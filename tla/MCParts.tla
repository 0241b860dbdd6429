------------------------------- MODULE MCParts -------------------------------
(***************************************************************************)
(* Small instances for TLC of the parts that share no state: the domain of *)
(* a connection, the cutting of data into records, the tracking of         *)
(* processes, the redirector, the correlation of Java sessions, the        *)
(* streams of commands and the HTTP/2 stream.  A behaviour is one of one   *)
(* part; the others keep their initial state.                              *)
(***************************************************************************)
EXTENDS ConnDomain, ProbeBuffers, ProcessTracking, Redirector, JavaEngine, CommandStream, Http2Stream, TLC

CONSTANT Parts    \* the parts that a run checks

VARIABLE part
partVars == <<part, vars, bufVars, procVars, rdrVars, javaVars, cmdVars, h2Vars>>

-----------------------------------------------------------------------------
\* ProbeBuffers: plain buffers and vectors with sizes at the limits.
BufCall(lens, single, size, hello) ==
    [lens |-> lens, one |-> single, bytes |-> size, hello |-> hello]
BufSizes ==
    {1, MAX_MSG_SIZE, MAX_MSG_SIZE + 1, 3 * MAX_MSG_SIZE, CHUNK_LIMIT * MAX_MSG_SIZE - 1,
     CHUNK_LIMIT * MAX_MSG_SIZE, CHUNK_LIMIT * MAX_MSG_SIZE + 1, 5 * MAX_MSG_SIZE}
BufCalls ==
    {BufCall(<<n>>, TRUE, n, hello) : n \in BufSizes, hello \in {0, 60, 2047, 2100, MAX_MSG_SIZE}}
      \cup {call \in {BufCall(<<a, b, d>>, FALSE, n, 0) :
                        a \in BufSizes \cup {0}, b \in {0, 1, MAX_MSG_SIZE + 1}, d \in BufSizes \cup {0},
                        n \in {1, 2, MAX_MSG_SIZE + 1, 4 * MAX_MSG_SIZE + 2, 5 * MAX_MSG_SIZE}} :
              call.bytes <= Total(call.lens)}
      \cup {BufCall(<<a, b>>, FALSE, a + b, hello) :
              a \in {60, 1000}, b \in {0, 1, 2000}, hello \in {60, 600, 2047}}

\* ProcessTracking: what may happen in a behaviour; a process ends in each.
ProcBudget(execs, forks, threads, sets, drops, waits) ==
    [execs |-> execs, forks |-> forks, threads |-> threads, sets |-> sets,
     drops |-> drops, waits |-> waits]
ProcBudgets ==
    {ProcBudget(2, 1, 1, 0, 0, 0), ProcBudget(1, 0, 0, 2, 0, 0), ProcBudget(2, 0, 0, 1, 0, 0),
     ProcBudget(1, 1, 0, 0, 1, 0), ProcBudget(1, 0, 0, 0, 0, 1)}

\* Redirector: a process that is always forwarded beside one that is proxied,
\* observed or unknown, the directions, and a redirector that is not running.
RdrMeta(strategy, ok) == [strategy |-> strategy, tls_ok |-> ok]
RdrScope(direction, listening, node, dests) ==
    [direction |-> direction, listening |-> listening,
     metas |-> ("curl" :> RdrMeta("forward", FALSE) @@ "node" :> node), dests |-> dests]
RdrDest(f, class) == [addr |-> <<f, class>>, managed |-> FALSE]
RdrScopeSet ==
    {RdrScope("all", TRUE, RdrMeta("proxy", TRUE), {RdrDest("v4", "public")}),
     RdrScope("egress_external", TRUE, RdrMeta("observe", TRUE),
              {RdrDest("mapped", "private"), RdrDest("v6", "public")}),
     RdrScope("egress_internal", TRUE, NoneR, {RdrDest("mapped", "private"), ProxyV4}),
     RdrScope("all", FALSE, RdrMeta("proxy", TRUE), {RdrDest("v4", "public")})}

\* JavaEngine: two connections, one after the other on a descriptor or side by
\* side; what expires, what is lost and what is unwrapped late.
JavaReused ==
    [fd |-> <<"fd3", "fd3">>, session |-> <<"sA", "sB">>, streams |-> <<TRUE, TRUE>>,
     unwraps |-> FALSE, records |-> <<2, 1>>, expires |-> 0, misses |-> 0]
JavaScopeSet ==
    {[JavaReused EXCEPT !.expires = 1],
     [JavaReused EXCEPT !.misses = 1],
     [JavaReused EXCEPT !.unwraps = TRUE],
     [JavaReused EXCEPT !.fd = <<"fd3", "fd4">>, !.streams = <<TRUE, FALSE>>]}

\* CommandStream: each protocol as its clients use it, pipelined and not, with and
\* without EOF packets, from the greeting on or from the middle of a connection; and
\* with the commands that the matching does not expect.
CmdScope(proto, kinds, pipelined) ==
    [proto |-> proto, kinds |-> kinds, pipelined |-> pipelined, stack |-> TRUE, ids |-> {1},
     auth |-> FALSE, auths |-> {}, eofs |-> TRUE, last |-> "eof"]
MySQLScope(kinds, pipelined, eofs, auth, auths) ==
    [CmdScope("mysql", kinds, pipelined) EXCEPT
       !.eofs = eofs, !.last = IF eofs THEN "eof" ELSE "fe9", !.auth = auth, !.auths = auths]
CmdScopeSet ==
    {CmdScope("redis", {"cmd"}, TRUE),
     CmdScope("redis", {"cmd", "subscribe", "inline"}, FALSE),
     CmdScope("redis", {"cmd", "silent", "subscribe"}, TRUE),
     [CmdScope("redis", {"cmd"}, TRUE) EXCEPT !.stack = FALSE],
     [CmdScope("kafka", {"request"}, TRUE) EXCEPT !.ids = {1, 2, 3}],
     [CmdScope("kafka", {"request", "acks0"}, TRUE) EXCEPT !.ids = {1, 2}],
     MySQLScope({"query", "close"}, TRUE, TRUE, TRUE, {"more", "switch", "ok"})}
      \cup {MySQLScope({"query"}, TRUE, eofs, TRUE, {"more", "ok"}) : eofs \in BOOLEAN}
      \cup {MySQLScope({"query", "prepare"}, FALSE, eofs, auth, {"switch", "ok"}) :
              eofs \in BOOLEAN, auth \in BOOLEAN}

\* Http2Stream: every regular use on both streams, and each irregular one on the first;
\* a connection without plugins, one of a server, and one seen from its middle on.
H2Scope(odd, uses, grpc) ==
    [odd |-> odd, uses |-> uses, grpc |-> grpc, stack |-> TRUE, asClient |-> TRUE, middle |-> FALSE]
H2ScopeSet ==
    {H2Scope({}, {}, grpc) : grpc \in BOOLEAN}
      \cup {H2Scope({1}, {"early"}, TRUE)}
      \cup {H2Scope({1}, {use}, FALSE) : use \in {"info", "request", "response", "late", "split"}}
      \cup {[H2Scope({}, {}, FALSE) EXCEPT !.stack = FALSE],
            [H2Scope({}, {}, FALSE) EXCEPT !.asClient = FALSE],
            [H2Scope({}, {}, FALSE) EXCEPT !.middle = TRUE]}

-----------------------------------------------------------------------------
SomeCall == CHOOSE call \in Inputs : TRUE
SomeBudget == CHOOSE b \in Budgets : TRUE
SomeImage == CHOOSE m \in Images : TRUE
SomeRdrScope == CHOOSE s \in RdrScopes : TRUE
SomeJavaScope == CHOOSE s \in JavaScopes : TRUE
SomeCmdScope == CHOOSE s \in CmdScopes : s.proto = "redis"
SomeH2Scope == CHOOSE s \in H2Scopes : ~s.middle

\* A part that is not checked has one initial state.
PartsInit ==
    /\ part \in Parts
    /\ Init /\ (part # "domain" => dstAddr = Empty /\ dnsRecord = Empty)
    /\ BufInit /\ (part # "buffers" => in = SomeCall)
    /\ ProcInit /\ (part # "process" => /\ left = SomeBudget
                                       /\ live = [p \in Pids |-> 0]
                                       /\ image = [p \in Pids |-> SomeImage])
    /\ RdrInit /\ (part # "redirector" => rdr = SomeRdrScope)
    /\ JavaInit /\ (part # "java" => java = SomeJavaScope)
    /\ CmdInit /\ (part # "commands" => cs = SomeCmdScope)
    /\ H2Init /\ (part # "http2" => h2 = SomeH2Scope)

PartsNext ==
    /\ UNCHANGED part
    /\ \/ part = "domain" /\ Next /\ UNCHANGED <<bufVars, procVars, rdrVars, javaVars, cmdVars, h2Vars>>
       \/ part = "buffers" /\ BufNext /\ UNCHANGED <<vars, procVars, rdrVars, javaVars, cmdVars, h2Vars>>
       \/ part = "process" /\ ProcNext /\ UNCHANGED <<vars, bufVars, rdrVars, javaVars, cmdVars, h2Vars>>
       \/ part = "redirector" /\ RdrNext /\ UNCHANGED <<vars, bufVars, procVars, javaVars, cmdVars, h2Vars>>
       \/ part = "java" /\ JavaNext /\ UNCHANGED <<vars, bufVars, procVars, rdrVars, cmdVars, h2Vars>>
       \/ part = "commands" /\ CmdNext /\ UNCHANGED <<vars, bufVars, procVars, rdrVars, javaVars, h2Vars>>
       \/ part = "http2" /\ H2Next /\ UNCHANGED <<vars, bufVars, procVars, rdrVars, javaVars, cmdVars>>

PartsSpec == PartsInit /\ [][PartsNext]_partVars

\* Ports are only compared.
PartsSymmetry == Permutations(Ports)
=============================================================================
