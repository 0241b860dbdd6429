---------------------------- MODULE CommandStream ----------------------------
(***************************************************************************)
(* The streams of Redis, MySQL and Kafka connections, which match each     *)
(* response with the command that it answers and hand both to a plugin     *)
(* connection of the command (redis/stream.go, mysql/stream.go,            *)
(* kafka/stream.go).  Redis and MySQL keep the pending commands in a       *)
(* queue, Kafka in a map by correlation id.                                *)
(*                                                                         *)
(* Client and server are the environment: a scope cs says which protocol   *)
(* they speak and which commands are used.  Both directions arrive in      *)
(* order, an answer after its command; the loops of Process take one       *)
(* packet after the other, and a step is one packet.  A packet is reduced  *)
(* to what the parser tells apart: "eof" is 0xfe and shorter than 9 bytes, *)
(* "fe9" is 0xfe and longer.                                               *)
(***************************************************************************)
EXTENDS Integers, Sequences, Functions

CONSTANTS
    CmdScopes,            \* what the environment does
    MaxCmds,              \* bound: packets that the client sends
    maxPendingCommands    \* limit of the queue of MySQL

\* The kinds of commands that the protocols tell apart.  Of the three, only MySQL's
\* connections begin with an exchange of credentials.
Kinds(proto) ==
    CASE proto = "redis" -> {"cmd", "silent", "subscribe", "inline"}
      [] proto = "kafka" -> {"request", "acks0"}
      [] proto = "mysql" -> {"query", "prepare", "close"}

ASSUME CmdAssumption ==
    /\ MaxCmds \in Nat /\ maxPendingCommands \in Nat \ {0}
    /\ \A s \in CmdScopes :
         /\ s.proto \in {"redis", "kafka", "mysql"} /\ s.kinds \subseteq Kinds(s.proto)
         /\ s.auth \in BOOLEAN /\ s.pipelined \in BOOLEAN /\ s.eofs \in BOOLEAN
         /\ s.auth => s.proto = "mysql"
         /\ s.auths \subseteq {"ok", "more", "switch"} /\ s.last \in {"eof", "fe9"}

CorrelationIds == UNION {s.ids : s \in CmdScopes}

VARIABLES
    cs,                   \* the scope of this connection
    session,              \* MySQL: "greeting", "auth", then "ready"
    cmds,                 \* what the client has sent: kind and correlation id
    owed,                 \* the commands that the server has still to answer
    wire,                 \* the rest of the answer that is being sent
    pending,              \* pendingCommands
    pendingRequests,      \* Kafka: the command of each correlation id, 0 for none
    stuck,                \* Redis: the parser has met what is not RESP and keeps it
    handshakeComplete,
    rset,                 \* resultSetState, activeCommand and activeResultSet
    plugin,               \* the plugin connection of each command
    streamClosed,
    results,              \* history: result handed to a command, owners of its packets
    overflow              \* history: a pending command was dropped

cmdVars == <<cs, session, cmds, owed, wire, pending, pendingRequests, stuck,
             handshakeComplete, rset, plugin, streamClosed, results, overflow>>
clientVars == <<cs, session, cmds, owed, wire>>
streamVars == <<pending, pendingRequests, stuck, handshakeComplete, rset, plugin, results, overflow>>

NoSet == [phase |-> "none", active |-> 0, left |-> 0, of |-> {}]

CmdInit ==
    /\ cs \in CmdScopes
    /\ session = IF cs.auth THEN "greeting" ELSE "ready"
    /\ cmds = <<>> /\ owed = <<>> /\ wire = <<>> /\ pending = <<>>
    /\ pendingRequests = [id \in CorrelationIds |-> 0]
    /\ stuck = FALSE /\ handshakeComplete = FALSE /\ rset = NoSet
    /\ plugin = [c \in 1 .. MaxCmds |-> "none"]
    /\ streamClosed = FALSE /\ results = {} /\ overflow = FALSE

-----------------------------------------------------------------------------
\* The environment.

\* Commands that the server does not answer.
Silent == {"silent", "close", "acks0"}

Pkt(t, n, c) == [t |-> t, n |-> n, of |-> c]
Value(c) == Pkt("value", 0, c)
Times(n, p) == [i \in 1 .. n |-> p]

\* A result set of one or two columns and up to one row; without EOF packets
\* (CLIENT_DEPRECATE_EOF) the rows follow the columns, and an OK packet the rows.
Middle(c) == IF cs.eofs THEN <<Pkt("eof", 0, c)>> ELSE <<>>
ResultSet(n, m, last, c) ==
    <<Pkt("header", n, c)>> \o Times(n, Pkt("col", 3, c)) \o Middle(c)
      \o Times(m, Pkt("row", 1, c)) \o <<Pkt(last, 0, c)>>
ResultSets(c) == {ResultSet(n, m, last, c) : n \in 1 .. 2, m \in 0 .. 1, last \in {cs.last, "err"}}

Answers(c) ==
    CASE cmds[c].kind = "subscribe" -> {<<Value(c), Value(c)>>}
      [] cmds[c].kind = "query" -> {<<Pkt("ok", 0, c)>>, <<Pkt("err", 0, c)>>} \cup ResultSets(c)
      [] cmds[c].kind = "prepare" -> {<<Pkt("ok", 0, c), Pkt("col", 3, c)>> \o Middle(c)}
      [] cmds[c].kind = "auth" -> {<<Pkt(t, 1, c)>> : t \in cs.auths}
      [] OTHER -> {<<Value(c)>>}

Greet ==
    /\ session = "greeting" /\ session' = "auth"
    /\ wire' = <<Pkt("greeting", 10, 0)>>
    /\ UNCHANGED <<cs, cmds, owed, streamClosed, streamVars>>

Without(q, i) == SubSeq(q, 1, i - 1) \o SubSeq(q, i + 1, Len(q))

\* The server answers in order; Kafka matches by id and does not rely on it.
Answer ==
    \E i \in DOMAIN owed :
      /\ wire = <<>>
      /\ cs.proto # "kafka" => i = 1
      /\ owed' = Without(owed, i)
      /\ wire' \in Answers(owed[i])
      /\ session' = IF wire'[1].t = "ok" THEN "ready" ELSE session
      /\ UNCHANGED <<cs, cmds, streamClosed, streamVars>>

-----------------------------------------------------------------------------
\* processRequests

\* NewConnection: without a stack for the connection there is no plugin connection.
Opened(c) == IF cs.stack THEN [plugin EXCEPT ![c] = "open"] ELSE plugin

\* Teardown of a plugin connection, if there is one.
TornDown(state) == CASE state = "open" -> "down" [] state = "down" -> "twice" [] OTHER -> state
Torn(p, c) == [p EXCEPT ![c] = TornDown(@)]

\* Parse returns an error without consuming what it cannot parse, for good; without
\* a stack the call of OnRedisCommand on no connection panics before Enqueue.
RedisRequest(c) ==
    /\ stuck' = (stuck \/ cmds'[c].kind = "inline")
    /\ IF stuck' \/ ~cs.stack
         THEN UNCHANGED <<pending, plugin>>
         ELSE pending' = Append(pending, c) /\ plugin' = Opened(c)
    /\ UNCHANGED <<pendingRequests, handshakeComplete, rset, results, overflow>>

KafkaRequest(c) ==
    /\ pendingRequests' = [pendingRequests EXCEPT ![cmds'[c].corr] = c]
    /\ plugin' = Opened(c)
    /\ UNCHANGED <<pending, stuck, handshakeComplete, rset, results, overflow>>

\* Mutant: the command that makes room keeps its plugin connection.
DroppedKept(p, c) == p

\* The command that makes room for another is torn down.
Dropped(p, c) == Torn(p, c)

MySQLRequest(c) ==
    /\ IF handshakeComplete
         THEN LET full == Len(pending) >= maxPendingCommands
                  made == IF cmds'[c].kind \in {"query", "prepare"} THEN Opened(c) ELSE plugin
              IN  /\ pending' = Append(IF full THEN Tail(pending) ELSE pending, c)
                  /\ plugin' = IF full THEN Dropped(made, Head(pending)) ELSE made
                  /\ overflow' = (overflow \/ full)
         ELSE UNCHANGED <<pending, plugin, overflow>>
    /\ UNCHANGED <<pendingRequests, stuck, handshakeComplete, rset, results>>

\* What the client has no whole answer to; 0 is the greeting.
Awaited == Range(owed) \cup {wire[i].of : i \in DOMAIN wire}

\* A client that does not pipeline, or authenticates, waits for the whole answer.
\* Kafka's client does not use an id while it waits for its answer.
MaySend(corr) ==
    \A d \in Awaited :
      cs.pipelined /\ d # 0 /\ cmds[d].kind # "auth" /\ (cs.proto = "kafka" => cmds[d].corr # corr)

ClientSends ==
    \E kind \in cs.kinds \cup {"auth"}, corr \in cs.ids :
      LET c == Len(cmds) + 1 IN
      /\ ~streamClosed /\ c <= MaxCmds
      /\ session = (IF kind = "auth" THEN "auth" ELSE "ready")
      /\ MaySend(corr)
      /\ cmds' = Append(cmds, [kind |-> kind, corr |-> corr])
      /\ owed' = IF kind \in Silent THEN owed ELSE Append(owed, c)
      /\ \/ cs.proto = "redis" /\ RedisRequest(c)
         \/ cs.proto = "kafka" /\ KafkaRequest(c)
         \/ cs.proto = "mysql" /\ MySQLRequest(c)
      /\ UNCHANGED <<cs, session, wire, streamClosed>>

-----------------------------------------------------------------------------
\* processResponses

\* completeResponse and its like: the result goes to the plugin connection, which is
\* torn down.
Complete(c, of) ==
    /\ plugin' = Torn(plugin, c)
    /\ results' = results \cup {[to |-> c, of |-> of]}

\* The oldest command, or the one with the response's id.
RedisResponse(p) ==
    /\ IF pending = <<>>
         THEN UNCHANGED <<pending, plugin, results>>
         ELSE pending' = Tail(pending) /\ Complete(Head(pending), {p.of})
    /\ UNCHANGED <<pendingRequests, stuck, handshakeComplete, rset, overflow>>

KafkaResponse(p) ==
    LET id == cmds[p.of].corr
        c == pendingRequests[id] IN
    /\ IF c = 0
         THEN UNCHANGED <<pendingRequests, plugin, results>>
         ELSE pendingRequests' = [pendingRequests EXCEPT ![id] = 0] /\ Complete(c, {p.of})
    /\ UNCHANGED <<pending, stuck, handshakeComplete, rset, overflow>>

\* logUncorrelatedResponse: 0x00, 0xfe and 0xff end the handshake.
Uncorrelated(p) ==
    /\ handshakeComplete' = (handshakeComplete \/ p.t \in {"ok", "eof", "fe9", "switch", "err"})
    /\ UNCHANGED <<pending, rset, plugin, results>>

\* The oldest command is answered by one packet, or its result set begins, with as
\* many columns as the first byte says.
Correlated(p) ==
    /\ pending' = Tail(pending)
    /\ IF p.t \in {"ok", "err", "eof", "fe9", "switch"}
         THEN Complete(Head(pending), {p.of}) /\ UNCHANGED rset
         ELSE /\ rset' = [phase |-> "columnDefs", active |-> Head(pending), left |-> p.n, of |-> {p.of}]
              /\ UNCHANGED <<plugin, results>>
    /\ UNCHANGED handshakeComplete

InSet(phase, left, p) ==
    /\ rset' = [rset EXCEPT !.phase = phase, !.left = left, !.of = @ \cup {p.of}]
    /\ UNCHANGED <<plugin, results>>
finishResultSet(p) == rset' = NoSet /\ Complete(rset.active, rset.of \cup {p.of})

\* A packet that is no column definition is an error of the parser, and ends the set.
phaseColumnDefs(p) ==
    IF p.t = "eof" THEN InSet("rows", 0, p)
    ELSE IF p.t # "col" THEN finishResultSet(p)
    ELSE InSet(IF rset.left <= 1 THEN "columnsEOF" ELSE "columnDefs", rset.left - 1, p)

phaseRows(p) ==
    IF p.t \in {"eof", "fe9", "switch", "err"} THEN finishResultSet(p) ELSE InSet("rows", 0, p)

\* Mutant: the EOF after the columns is not expected.
phaseColumnsEOFNot(p) == phaseRows(p)

\* An EOF packet after the columns, or the first row.
phaseColumnsEOF(p) == IF p.t = "eof" THEN InSet("rows", 0, p) ELSE phaseRows(p)

processResultSetPacket(p) ==
    /\ \/ rset.phase = "columnDefs" /\ phaseColumnDefs(p)
       \/ rset.phase = "columnsEOF" /\ phaseColumnsEOF(p)
       \/ rset.phase = "rows" /\ phaseRows(p)
    /\ UNCHANGED <<pending, handshakeComplete>>

MySQLResponse(p) ==
    /\ IF rset.phase # "none" THEN processResultSetPacket(p)
       ELSE IF pending = <<>> THEN Uncorrelated(p)
       ELSE Correlated(p)
    /\ UNCHANGED <<pendingRequests, stuck, overflow>>

ServerSends ==
    /\ ~streamClosed /\ wire # <<>> /\ wire' = Tail(wire)
    /\ LET p == Head(wire) IN
       \/ cs.proto = "redis" /\ RedisResponse(p)
       \/ cs.proto = "kafka" /\ KafkaResponse(p)
       \/ cs.proto = "mysql" /\ MySQLResponse(p)
    /\ UNCHANGED <<cs, session, cmds, owed, streamClosed>>

-----------------------------------------------------------------------------
\* Where a command is pending.
Holders(c) ==
    IF cs.proto = "kafka" THEN {id \in DOMAIN pendingRequests : pendingRequests[id] = c}
                          ELSE {i \in DOMAIN pending : pending[i] = c}

\* The loop of Close over the pending commands, for one of them.
Released(c) ==
    IF Holders(c) = {} THEN plugin[c]
    ELSE IF \A i, j \in Holders(c) : i = j THEN TornDown(plugin[c])
    ELSE TornDown(TornDown(plugin[c]))

\* Close tears down the plugin connections of the pending commands.  Clear empties the
\* queue of Redis.
CloseStream ==
    /\ ~streamClosed /\ streamClosed' = TRUE
    /\ plugin' = [c \in DOMAIN plugin |-> Released(c)]
    /\ pending' = IF cs.proto = "redis" THEN <<>> ELSE pending
    /\ UNCHANGED <<pendingRequests, stuck, handshakeComplete, rset, results, overflow, clientVars>>

CmdNext == Greet \/ Answer \/ ClientSends \/ ServerSends \/ CloseStream

CmdSpec == CmdInit /\ [][CmdNext]_cmdVars

-----------------------------------------------------------------------------
\* What the code's matching relies on; see AnswersMatch.
Regular ==
    /\ cs.kinds \cap Silent = {}
    /\ cs.pipelined => cs.kinds \cap {"subscribe", "prepare"} = {}
    /\ cs.proto = "mysql" =>
         /\ cs.pipelined => cs.auth
         /\ cs.last = "eof" => cs.eofs
         /\ ~({"switch", "more"} \subseteq cs.auths)

\* A response goes to the command that it answers, whole result sets included, with and
\* without EOF packets, whether commands are pipelined or the stream begins in the middle
\* of a connection; and between two answers no command is pending that the server has
\* answered (mysql/stream.go:16).  So it is as long as the queue does not overflow, each
\* command is answered (COM_STMT_CLOSE is not), those that are pipelined with one value
\* or result set, a result set without EOF packets ends in one of at least 9 bytes, and
\* no exchange follows the server's switch to another authentication method.
AnswersMatch ==
    Regular /\ ~overflow =>
      /\ \A r \in results : r.of = {r.to}
      /\ wire = <<>> => rset = NoSet /\ \A c \in DOMAIN cmds : Holders(c) # {} => c \in Range(owed)

\* No plugin connection is torn down twice, none is forgotten, and Close leaves none
\* open, except that of the result set it interrupts (mysql/stream.go:544) and those
\* of Kafka requests whose id was used again (kafka/stream.go:142).
PluginsReleased ==
    \A c \in DOMAIN cmds :
      /\ plugin[c] # "twice"
      /\ plugin[c] = "open" =>
           \/ Holders(c) # {} /\ ~streamClosed
           \/ c = rset.active
           \/ cs.proto = "kafka" /\ \E d \in DOMAIN cmds : d > c /\ cmds[d].corr = cmds[c].corr
==============================================================================
