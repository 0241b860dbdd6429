----------------------------- MODULE JavaEngine -----------------------------
(***************************************************************************)
(* Java's SSLEngine encrypts apart from the sockets.  The probes report    *)
(* what it wraps and unwraps by session, and the first TLS records of each *)
(* descriptor by socket (bpf/tap/javassl.bpf.c); SslEngineManager matches  *)
(* the two by the first bytes of a record and sends the plaintext to the   *)
(* connection (pkg/ebpf/tls/javassl/engine.go, reader.go).                 *)
(*                                                                         *)
(* One process.  A record is <<conn, n>>, which stands for its plaintext,  *)
(* its ciphertext and the hash of its prefix: records of at least 16 bytes *)
(* that differ have different prefixes.  A record fits in one event.  A    *)
(* call of a thread is one step, its exit.  A cookie is the connection's   *)
(* name.                                                                   *)
(***************************************************************************)
EXTENDS Naturals, Sequences, SequencesExt

CONSTANTS
    JavaFds,
    Conns,         \* the connections, opened in order
    Sessions,
    JavaScopes,    \* [fd, session, streams]: of each connection its descriptor, its
                   \* session and whether its protocol is one to stream; [unwraps]: may
                   \* what was read be unwrapped after close; bounds [records] of each
                   \* connection, correlations that expire [expires] and events that
                   \* find the ring buffer full [misses]
    NoneJ          \* no value

VARIABLES
    java,       \* the scope
    conn,       \* [at, made, out, in]: wrapped and not written, read and not unwrapped
    jvm,        \* "running" (and in java_process_pid_map), "ended", "stopped"
    ignored,    \* java_ssl_engine_session_ignore_map
    uprobe_correlated,    \* java_ssl_engine_uprobe_correlated_map: sessions
    syscall_correlated,   \* java_ssl_engine_syscall_correlated_map: descriptors
    engine_events,        \* the ring buffer
    activeCorrelations,   \* session -> [session, cookie, fd]
    pendingCorrelations,  \* a set of [hash, session, cookie, fd], one for a hash
    bySource,             \* pendingCorrelationsBySource: session or descriptor -> hashes
    pendingMessages,      \* session -> records
    pidFdSessionIdMap,    \* descriptor -> session
    pidMeta,              \* [sessions, fds]
    delivered,            \* the data events of each cookie
    protocols,            \* the cookies of protocol events
    faults                \* [expires, misses]; late: ProcessStopped came before events

javaVars == <<java, conn, jvm, ignored, uprobe_correlated, syscall_correlated,
              engine_events, activeCorrelations, pendingCorrelations, bySource,
              pendingMessages, pidFdSessionIdMap, pidMeta, delivered, protocols, faults>>
bridgeVars == <<ignored, uprobe_correlated, syscall_correlated>>
engineVars == <<activeCorrelations, pendingCorrelations, bySource, pendingMessages,
                pidFdSessionIdMap, pidMeta, delivered, protocols>>

Records == UNION {{c} \X (1 .. java.records[c]) : c \in Conns}
NoMeta == [sessions |-> {}, fds |-> {}]

JavaInit ==
    /\ java \in JavaScopes
    /\ conn = [c \in Conns |-> [at |-> "new", made |-> 0, out |-> <<>>, in |-> <<>>]]
    /\ jvm = "running"
    /\ ignored = {}
    /\ uprobe_correlated = {}
    /\ syscall_correlated = {}
    /\ engine_events = <<>>
    /\ activeCorrelations = [s \in Sessions \cup {NoneJ} |-> NoneJ]
    /\ pendingCorrelations = {}
    /\ bySource = [k \in Sessions \cup JavaFds \cup {NoneJ} |-> {}]
    /\ pendingMessages = [s \in Sessions \cup {NoneJ} |-> <<>>]
    /\ pidFdSessionIdMap = [f \in JavaFds \cup {NoneJ} |-> NoneJ]
    /\ pidMeta = NoMeta
    /\ delivered = [c \in Conns \cup {NoneJ} |-> <<>>]
    /\ protocols = {}
    /\ faults = [expires |-> 0, misses |-> 0, late |-> FALSE]

-----------------------------------------------------------------------------
\* The process, and the probes.

\* Events of a probe, of which the ring buffer may refuse one.
Output(evs) ==
    \/ engine_events' = engine_events \o evs /\ UNCHANGED faults
    \/ /\ faults.misses < java.misses
       /\ faults' = [faults EXCEPT !.misses = @ + 1]
       /\ \E i \in DOMAIN evs : engine_events' = engine_events \o RemoveAt(evs, i)

Open(c) ==
    /\ jvm = "running"
    /\ conn[c].at = "new"
    /\ \A d \in Conns : d < c => conn[d].at # "new"
    /\ \A d \in Conns : conn[d].at = "open" => java.fd[d] # java.fd[c]
    /\ conn' = [conn EXCEPT ![c].at = "open"]
    /\ UNCHANGED <<java, jvm, bridgeVars, engine_events, engineVars, faults>>

\* handle_engine_data
EngineEvents(c, r) ==
    LET s == java.session[c]
        ev(kind) == [kind |-> kind, session |-> s, fd |-> NoneJ, cookie |-> NoneJ, rec |-> r]
    IN IF s \in ignored THEN <<>>
       ELSE IF s \in uprobe_correlated THEN <<ev("plaintext")>>
       ELSE <<ev("encrypted"), ev("plaintext")>>

\* java_ssl_engine_wrap_exit
wrap_exit(c) ==
    /\ conn[c].at = "open" /\ conn[c].made < java.records[c]
    /\ LET r == <<c, conn[c].made + 1>> IN
       /\ conn' = [conn EXCEPT ![c].made = @ + 1, ![c].out = Append(@, r)]
       /\ Output(EngineEvents(c, r))
    /\ UNCHANGED <<java, jvm, bridgeVars, engineVars>>

\* java_ssl_engine_unwrap_exit; what was read may be unwrapped after the socket
\* is closed.
unwrap_exit(c) ==
    /\ jvm = "running"
    /\ conn[c].in # <<>>
    /\ conn[c].at = "open" \/ java.unwraps
    /\ conn' = [conn EXCEPT ![c].in = Tail(@)]
    /\ Output(EngineEvents(c, Head(conn[c].in)))
    /\ UNCHANGED <<java, jvm, bridgeVars, engineVars>>

SyscallReports(f) == f \notin syscall_correlated

\* handle_engine_correlation, for a record of the connection.
CorrelateEvents(c, r) ==
    IF SyscallReports(java.fd[c])
      THEN <<[kind |-> "correlate", session |-> NoneJ, fd |-> java.fd[c], cookie |-> c, rec |-> r]>>
      ELSE <<>>

\* A record leaves through the socket.
Sends(c) ==
    /\ conn[c].at = "open" /\ conn[c].out # <<>>
    /\ conn' = [conn EXCEPT ![c].out = Tail(@)]
    /\ Output(CorrelateEvents(c, Head(conn[c].out)))
    /\ UNCHANGED <<java, jvm, bridgeVars, engineVars>>

\* A record arrives.
Receives(c) ==
    /\ conn[c].at = "open" /\ conn[c].made < java.records[c]
    /\ LET r == <<c, conn[c].made + 1>> IN
       /\ conn' = [conn EXCEPT ![c].made = @ + 1, ![c].in = Append(@, r)]
       /\ Output(CorrelateEvents(c, r))
    /\ UNCHANGED <<java, jvm, bridgeVars, engineVars>>

write(c) == Sends(c)
writev(c) == Sends(c)
sendto(c) == Sends(c)
read(c) == Receives(c)
readv(c) == Receives(c)
recvfrom(c) == Receives(c)

\* java_ssl_engine_sys_enter_close
close(c) ==
    /\ conn[c].at = "open"
    /\ conn' = [conn EXCEPT ![c].at = "closed", ![c].out = <<>>]
    /\ Output(<<[kind |-> "closed", session |-> NoneJ, fd |-> java.fd[c], cookie |-> NoneJ, rec |-> NoneJ]>>)
    /\ UNCHANGED <<java, jvm, bridgeVars, engineVars>>

-----------------------------------------------------------------------------
\* SslEngineManager: the goroutine of readEvents takes one event at a time.

Handles(k) ==
    /\ engine_events # <<>> /\ Head(engine_events).kind = k
    /\ engine_events' = Tail(engine_events)

\* removePendingCorrelationsBySource, for several keys.
PendingWithout(keys) == {p \in pendingCorrelations : \A k \in keys : p.hash \notin bySource[k]}
SourcesWithout(keys) == [k \in DOMAIN bySource |-> IF k \in keys THEN {} ELSE bySource[k]]

\* ProcessPlaintextData
ProcessPlaintextData ==
    /\ Handles("plaintext")
    /\ LET e == Head(engine_events)
           a == activeCorrelations[e.session] IN
       IF a # NoneJ
         THEN /\ delivered' = IF e.session \in ignored THEN delivered
                              ELSE [delivered EXCEPT ![a.cookie] = Append(@, e.rec)]
              /\ UNCHANGED pendingMessages
         ELSE /\ pendingMessages' = [pendingMessages EXCEPT ![e.session] = Append(@, e.rec)]
              /\ UNCHANGED delivered
    /\ UNCHANGED <<java, conn, jvm, bridgeVars, activeCorrelations, pendingCorrelations,
                   bySource, pidFdSessionIdMap, pidMeta, protocols, faults>>

\* The branch of processCorrelation without a pending correlation for the hash.
AddPending(p, source) ==
    /\ pendingCorrelations' = pendingCorrelations \cup {p}
    /\ bySource' = [bySource EXCEPT ![source] = @ \cup {p.hash}]
    /\ UNCHANGED <<bridgeVars, activeCorrelations, pendingMessages, pidFdSessionIdMap,
                   delivered, protocols>>

\* The plaintext that waited for the match.
Flushed(a) == pendingMessages[a.session]

\* The branch with one; the protocol is that of the first message that waited.
Converge(a, hash) ==
    LET keys == {a.session, a.fd}
        msgs == Flushed(a)
        canStream == msgs # <<>> => java.streams[msgs[1][1]] IN
    /\ uprobe_correlated' = uprobe_correlated \cup {a.session}
    /\ syscall_correlated' = syscall_correlated \cup {a.fd}
    /\ activeCorrelations' = [activeCorrelations EXCEPT ![a.session] = a]
    /\ pidFdSessionIdMap' = [pidFdSessionIdMap EXCEPT ![a.fd] = a.session]
    /\ pendingCorrelations' = {p \in PendingWithout(keys) : p.hash # hash}
    /\ bySource' = SourcesWithout(keys)
    /\ pendingMessages' = [pendingMessages EXCEPT ![a.session] = <<>>]
    /\ ignored' = IF canStream THEN ignored ELSE ignored \cup {a.session}
    /\ protocols' = IF canStream /\ msgs # <<>> THEN protocols \cup {a.cookie} ELSE protocols
    /\ delivered' = IF canStream THEN [delivered EXCEPT ![a.cookie] = @ \o msgs] ELSE delivered

\* Mutant: the hash covers only the record's header.
MatchesAny(rec) == pendingCorrelations

\* The lookup of processCorrelation, by the hash of the first bytes.
Matches(rec) == {p \in pendingCorrelations : p.hash = rec}

\* ProcessEncryptedData, with processCorrelation.
ProcessEncryptedData ==
    /\ Handles("encrypted")
    /\ LET e == Head(engine_events)
           found == Matches(e.rec) IN
       IF activeCorrelations[e.session] # NoneJ
         THEN UNCHANGED <<bridgeVars, engineVars>>
         ELSE /\ \/ \E p \in found : Converge([session |-> e.session, cookie |-> p.cookie, fd |-> p.fd], e.rec)
                 \/ found = {} /\ AddPending([hash |-> e.rec, session |-> e.session, cookie |-> NoneJ,
                                              fd |-> NoneJ], e.session)
              /\ pidMeta' = [pidMeta EXCEPT !.sessions = @ \cup {e.session}]
    /\ UNCHANGED <<java, conn, jvm, faults>>

\* ProcessCorrelationData, with processCorrelation.
ProcessCorrelationData ==
    /\ Handles("correlate")
    /\ LET e == Head(engine_events)
           found == Matches(e.rec) IN
       IF e.fd \in syscall_correlated
         THEN UNCHANGED <<bridgeVars, engineVars>>
         ELSE /\ \/ \E p \in found : Converge([session |-> p.session, cookie |-> e.cookie, fd |-> e.fd], e.rec)
                 \/ found = {} /\ AddPending([hash |-> e.rec, session |-> NoneJ, cookie |-> e.cookie,
                                              fd |-> e.fd], e.fd)
              /\ pidMeta' = [pidMeta EXCEPT !.fds = @ \cup {e.fd}]
    /\ UNCHANGED <<java, conn, jvm, faults>>

\* Mutant: the descriptor stays correlated.
syscall_correlated_kept(f) == syscall_correlated

syscall_correlated_without(f) == syscall_correlated \ {f}

\* ProcessSocketClosed: nothing happens for a descriptor without a session.
ProcessSocketClosed ==
    /\ Handles("closed")
    /\ LET f == Head(engine_events).fd
           s == pidFdSessionIdMap[f] IN
       IF s = NoneJ
         THEN UNCHANGED <<bridgeVars, engineVars>>
         ELSE /\ pidFdSessionIdMap' = [pidFdSessionIdMap EXCEPT ![f] = NoneJ]
              /\ activeCorrelations' = [activeCorrelations EXCEPT ![s] = NoneJ]
              /\ pendingCorrelations' = PendingWithout({s, f})
              /\ bySource' = SourcesWithout({s, f})
              /\ pendingMessages' = [pendingMessages EXCEPT ![s] = <<>>]
              /\ pidMeta' = [sessions |-> pidMeta.sessions \ {s}, fds |-> pidMeta.fds \ {f}]
              /\ ignored' = ignored \ {s}
              /\ uprobe_correlated' = uprobe_correlated \ {s}
              /\ syscall_correlated' = syscall_correlated_without(f)
              /\ UNCHANGED <<delivered, protocols>>
    /\ UNCHANGED <<java, conn, jvm, faults>>

\* expirePendingCorrelation, of the ticker's goroutine.
Expire(p) ==
    /\ p \in pendingCorrelations
    /\ faults.expires < java.expires
    /\ faults' = [faults EXCEPT !.expires = @ + 1]
    /\ LET keys == {k \in {p.session, p.fd} : k # NoneJ} IN
       /\ pendingCorrelations' = PendingWithout(keys) \ {p}
       /\ bySource' = SourcesWithout(keys)
    /\ pendingMessages' = IF p.session = NoneJ THEN pendingMessages
                          ELSE [pendingMessages EXCEPT ![p.session] = <<>>]
    /\ UNCHANGED <<java, conn, jvm, bridgeVars, engine_events, activeCorrelations,
                   pidFdSessionIdMap, pidMeta, delivered, protocols>>

\* The process ends: its descriptors are closed without a call of close.
ProcessEnds ==
    /\ jvm = "running"
    /\ \E c \in Conns : conn[c].at # "new"
    /\ conn' = [c \in Conns |-> [conn[c] EXCEPT !.at = "closed", !.out = <<>>, !.in = <<>>]]
    /\ jvm' = "ended"
    /\ UNCHANGED <<java, bridgeVars, engine_events, engineVars, faults>>

\* The descriptors that cleanAllFromPid cleans.
CleanedFds == pidMeta.fds

\* ProcessStopped and cleanAllFromPid, of the process manager's goroutine; events
\* of the process may still be in the ring buffer.
ProcessStopped ==
    /\ jvm = "ended"
    /\ jvm' = "stopped"
    /\ LET keys == pidMeta.sessions \cup CleanedFds IN
       /\ activeCorrelations' = [s \in DOMAIN activeCorrelations |->
                                   IF s \in keys THEN NoneJ ELSE activeCorrelations[s]]
       /\ pendingCorrelations' = PendingWithout(keys)
       /\ bySource' = SourcesWithout(keys)
       /\ pendingMessages' = [s \in DOMAIN pendingMessages |-> IF s \in keys THEN <<>> ELSE pendingMessages[s]]
       /\ pidFdSessionIdMap' = [f \in DOMAIN pidFdSessionIdMap |->
                                  IF f \in keys THEN NoneJ ELSE pidFdSessionIdMap[f]]
       /\ ignored' = ignored \ keys
       /\ uprobe_correlated' = uprobe_correlated \ keys
       /\ syscall_correlated' = syscall_correlated \ keys
    /\ pidMeta' = NoMeta
    /\ faults' = [faults EXCEPT !.late = @ \/ engine_events # <<>>]
    /\ UNCHANGED <<java, conn, engine_events, delivered, protocols>>

JavaNext ==
    \/ \E c \in Conns : \/ Open(c) \/ wrap_exit(c) \/ unwrap_exit(c) \/ close(c)
                        \/ write(c) \/ writev(c) \/ sendto(c)
                        \/ read(c) \/ readv(c) \/ recvfrom(c)
    \/ ProcessPlaintextData \/ ProcessEncryptedData \/ ProcessCorrelationData
    \/ ProcessSocketClosed \/ ProcessStopped \/ ProcessEnds
    \/ \E p \in pendingCorrelations : Expire(p)

JavaSpec == JavaInit /\ [][JavaNext]_javaVars

-----------------------------------------------------------------------------
\* Connections have sessions of their own.
OwnSessions == \A c, d \in Conns : java.session[c] = java.session[d] => c = d

\* The records that the engine of a connection has reported and the manager has handled.
EngineSaw(c) ==
    {r \in Records : r[1] = c /\ r[2] <= conn[c].made /\ ~Contains(conn[c].in, r)
        /\ \A i \in DOMAIN engine_events :
             engine_events[i].rec = r => engine_events[i].kind = "correlate"}

\* Plaintext goes to the connection it was encrypted for, whatever is lost, expires
\* or is closed in between, and each record at most once.  While a connection is
\* open and nothing was lost or expired, no record of it is dropped between the
\* probes and the connection: each is delivered, or waits for the match, or its
\* protocol is not streamed.
PlaintextDelivered ==
    OwnSessions =>
      /\ delivered[NoneJ] = <<>>
      /\ \A c \in Conns :
           /\ \A i \in DOMAIN delivered[c] : delivered[c][i][1] = c
           /\ IsInjective(delivered[c])
      /\ faults.misses = 0 /\ faults.expires = 0 =>
           \A c \in Conns :
             LET s == java.session[c] IN
             conn[c].at = "open" /\ s \notin ignored =>
               EngineSaw(c) \subseteq Range(delivered[c]) \cup Range(pendingMessages[s])

\* Once the events are read, a descriptor counts as correlated only while the
\* connection that has it is the one it was matched with: the next connection on a
\* descriptor is matched afresh.  After the process has stopped nothing of it is
\* kept, in the manager or in the kernel, unless events of it were still to be read.
CorrelatedIsCurrent ==
    ~java.unwraps /\ faults.misses = 0 =>
      /\ OwnSessions /\ engine_events = <<>> =>
           \A c \in Conns :
             conn[c].at = "open" /\ java.fd[c] \in syscall_correlated =>
               activeCorrelations[java.session[c]] # NoneJ
      /\ jvm = "stopped" /\ ~faults.late =>
           /\ pendingCorrelations = {} /\ ignored = {}
           /\ uprobe_correlated = {} /\ syscall_correlated = {}
           /\ \A s \in Sessions : activeCorrelations[s] = NoneJ /\ pendingMessages[s] = <<>>
=============================================================================
