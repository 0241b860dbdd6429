----------------------------- MODULE Redirector -----------------------------
(***************************************************************************)
(* How a connection of a process that is forwarded or proxied reaches the  *)
(* forwarder, and how the forwarder learns where it was going: the hooks   *)
(* on connect, on established connections and on getsockopt                *)
(* (bpf/tap/redirector.bpf.c), those on tcp_v4_connect, tcp_v6_connect and *)
(* tcp_close (bpf/tap/sock_pid_fd.bpf.c), and the forwarder's accept       *)
(* (pkg/egress/forwarder.go).                                              *)
(*                                                                         *)
(* An address is a class of ProbeFilters, with the port that goes with it; *)
(* ProxyV4 and ProxyV6 are those of the forwarder, which has one listener  *)
(* for each family.  connect holds the lock of its socket, so a connection *)
(* is established only after tcp_v4_connect has returned; the kernel gives *)
(* a source port to another socket once both ends of the connection that   *)
(* had it are closed.  A new entry of a full LRU map takes the place of    *)
(* any other one, as the kernel's LRU order is approximate, but of none in *)
(* map_socks before its connection is established: that takes 4096 other   *)
(* connections during one connect.                                         *)
(***************************************************************************)
EXTENDS Naturals, FiniteSets, ProbeFilters

CONSTANTS
    Cookies,      \* the sockets, by their cookie; tried in order
    Programs,     \* the processes other than qtap
    Ports,        \* source ports
    RdrScopes,    \* [direction, listening, metas, dests]: settings, process_meta_map,
                  \* and where processes connect to, [addr, managed]
    Capacity,     \* max_entries of map_ports and map_socks
    NoneR         \* no value

qpid == "qtap"
ProxyV4 == [addr |-> <<"v4", "private">>, managed |-> TRUE]
ProxyV6 == [addr |-> <<"v6", "ula">>, managed |-> TRUE]
ProxyMapped == [addr |-> <<"mapped", "private">>, managed |-> TRUE]

VARIABLES
    rdr,         \* the scope; metas is process_meta_map
    sk,          \* the sockets: [at, pid, dst, peer, port]
    map_socks,   \* cookie -> dst
    map_ports,   \* key -> cookie
    addr_port_to_pid_map,
    active_tcp_source_addr_map,
    fwd          \* the forwarder's side: [at, safe, cookie, dst]

rdrVars == <<rdr, sk, map_socks, map_ports, addr_port_to_pid_map,
             active_tcp_source_addr_map, fwd>>

NoSk == [at |-> "new", pid |-> NoneR, dst |-> NoneR, peer |-> NoneR, port |-> NoneR]
NoFwd == [at |-> "none", safe |-> FALSE, cookie |-> NoneR, dst |-> NoneR]

\* struct addr_port_key, for a source address of the family of the peer's.
Keys == {"v4", "v6"} \X Ports

\* The key of the hooks on tcp_v4_connect and tcp_v6_connect.
ConnectKey(peer, port) == <<IF peer.addr[1] = "v6" THEN "v6" ELSE "v4", port>>

\* The key of cg_sock_ops.
OpsKey(peer, port) == <<IF peer.addr[1] = "v6" THEN "v6" ELSE "v4", port>>

\* The key of cg_sock_opt: the client of the IPv4 listener has an IPv4 address.
OptKey(peer, port) == <<IF peer.addr[1] = "v6" THEN "v6" ELSE "v4", port>>

Dests == [addr : Classes, managed : BOOLEAN]
Scopes ==
    [direction : Directions, listening : BOOLEAN, dests : SUBSET Dests,
     metas : [Programs -> [strategy : Strategies, tls_ok : BOOLEAN] \cup {NoneR}]]

ASSUME RdrAssumption ==
    /\ RdrScopes \subseteq Scopes
    /\ NoneR \notin Dests \cup Keys \cup Cookies \cup Programs \cup {qpid}

RdrInit ==
    /\ rdr \in RdrScopes
    /\ sk = [c \in Cookies |-> NoSk]
    /\ map_socks = [c \in Cookies |-> NoneR]
    /\ map_ports = [k \in Keys |-> NoneR]
    /\ addr_port_to_pid_map = [k \in Keys |-> NoneR]
    /\ active_tcp_source_addr_map = [c \in Cookies |-> NoneR]
    /\ fwd = [c \in Cookies |-> NoFwd]

\* What an update of an LRU map may leave: when the map is full, one of the
\* entries that may be dropped is gone.
PutLru(map, key, value, droppable) ==
    LET used == {k \in DOMAIN map : map[k] # NoneR} IN
    IF key \in used \/ Cardinality(used) < Capacity
      THEN {[map EXCEPT ![key] = value]}
      ELSE {[map EXCEPT ![old] = NoneR, ![key] = value] : old \in used \cap droppable}

-----------------------------------------------------------------------------
\* The client.

\* The conditions of cg_connect4 and cg_connect6.
Redirected(pid, dst) ==
    /\ pid # qpid
    /\ rdr.metas[pid] # NoneR
    /\ rdr.metas[pid].strategy \in {"forward", "proxy"}
    /\ ~is_local_ip(dst.addr)
    /\ ~dst.managed
    /\ rdr.direction = "egress_external" => ~is_private_ip(dst.addr)
    /\ rdr.direction = "egress_internal" => is_private_ip(dst.addr)

set_ipv4_listen_addr == ProxyV4
set_ipv6_listen_addr(is_ipv4_mapped) == IF is_ipv4_mapped THEN ProxyMapped ELSE ProxyV6

ListenAddr(dst) ==
    IF dst.addr[1] = "v4" THEN set_ipv4_listen_addr
    ELSE set_ipv6_listen_addr(dst.addr[1] = "mapped")

\* Where the socket is connected to.
PeerOf(pid, dst) == IF Redirected(pid, dst) /\ rdr.listening THEN ListenAddr(dst) ELSE dst

\* connect, up to the hook.
Connects(c, pid, dst) ==
    /\ sk[c].at = "new"
    /\ \A d \in Cookies : d < c => sk[d].at # "new"
    /\ map_socks' \in IF Redirected(pid, dst)
                         THEN PutLru(map_socks, c, dst,
                                     {d \in Cookies : sk[d].at \in {"established", "closed"}})
                         ELSE {map_socks}
    /\ sk' = [sk EXCEPT ![c] =
                [at |-> "connecting", pid |-> pid, dst |-> dst, port |-> NoneR,
                 peer |-> PeerOf(pid, dst)]]
    /\ UNCHANGED <<rdr, map_ports, addr_port_to_pid_map, active_tcp_source_addr_map>>

cg_connect4(c, pid, dst) == dst.addr[1] = "v4" /\ Connects(c, pid, dst) /\ UNCHANGED fwd
cg_connect6(c, pid, dst) == dst.addr[1] # "v4" /\ Connects(c, pid, dst) /\ UNCHANGED fwd

\* The port is free for this connection: no other socket, at either end, has it.
Free(port) == \A d \in Cookies : sk[d].port = port => sk[d].at = "closed" /\ fwd[d].at \in {"none", "done"}

\* The end of tcp_v4_connect or tcp_v6_connect.
Connected(c, port) ==
    /\ sk[c].at = "connecting" /\ Free(port)
    /\ sk' = [sk EXCEPT ![c].at = "sent", ![c].port = port]
    /\ LET key == ConnectKey(sk[c].peer, port) IN
       /\ addr_port_to_pid_map' = [addr_port_to_pid_map EXCEPT ![key] = sk[c].pid]
       /\ active_tcp_source_addr_map' = [active_tcp_source_addr_map EXCEPT ![c] = key]
    /\ UNCHANGED <<rdr, map_socks, map_ports, fwd>>

trace_tcp_v4_connect_fexit(c, port) == sk[c].peer # NoneR /\ sk[c].peer.addr[1] = "v4" /\ Connected(c, port)
trace_tcp_v6_connect_fexit(c, port) == sk[c].peer # NoneR /\ sk[c].peer.addr[1] # "v4" /\ Connected(c, port)

\* Mutant: a port that is in the map keeps its cookie.
map_ports_once(c, key) ==
    IF map_ports[key] # NoneR THEN {map_ports} ELSE PutLru(map_ports, key, c, Keys)

map_ports_with(c, key) == PutLru(map_ports, key, c, Keys)

\* cg_sock_ops, of the client's socket when its connection is established.
cg_sock_ops(c) ==
    /\ sk[c].at = "sent"
    /\ sk' = [sk EXCEPT ![c].at = "established"]
    /\ map_ports' \in IF map_socks[c] # NoneR
                         THEN map_ports_with(c, OpsKey(sk[c].peer, sk[c].port))
                         ELSE {map_ports}
    /\ fwd' = IF sk[c].peer \in {ProxyV4, ProxyMapped, ProxyV6}
                THEN [fwd EXCEPT ![c].at = "queued"] ELSE fwd
    /\ UNCHANGED <<rdr, map_socks, addr_port_to_pid_map, active_tcp_source_addr_map>>

\* The address is the one saved for the cookie; without one it is all zero.
pid_map_without(c) ==
    IF active_tcp_source_addr_map[c] = NoneR THEN addr_port_to_pid_map
    ELSE [addr_port_to_pid_map EXCEPT ![active_tcp_source_addr_map[c]] = NoneR]

\* trace_tcp_close
tcp_close(c) ==
    /\ sk[c].at \in {"sent", "established"}
    /\ sk' = [sk EXCEPT ![c].at = "closed"]
    /\ addr_port_to_pid_map' = pid_map_without(c)
    /\ active_tcp_source_addr_map' = [active_tcp_source_addr_map EXCEPT ![c] = NoneR]
    /\ UNCHANGED <<rdr, map_socks, map_ports, fwd>>

\* SetMeta of the process manager: tls_ok of a process.
SetTlsMark(pid) ==
    /\ rdr.metas[pid] # NoneR
    /\ ~rdr.metas[pid].tls_ok
    /\ rdr' = [rdr EXCEPT !.metas[pid].tls_ok = TRUE]
    /\ UNCHANGED <<sk, map_socks, map_ports, addr_port_to_pid_map, active_tcp_source_addr_map, fwd>>

-----------------------------------------------------------------------------
\* The forwarder: acceptConnections and getConnectionMeta, one getsockopt a step.

\* The first part of cg_sock_opt: the cookie and the destination that belong to
\* the source address and port of the client.
ClientCookie(c) == map_ports[OptKey(sk[c].peer, sk[c].port)]
KnownClient(c) == ClientCookie(c) # NoneR /\ map_socks[ClientCookie(c)] # NoneR

\* The answer for the process of the source address; the socket's own mark is 0.
TlsMark(c, pid) ==
    IF ~KnownClient(c) \/ pid \in {NoneR, qpid} THEN FALSE
    ELSE IF rdr.metas[pid] = NoneR THEN FALSE
    ELSE rdr.metas[pid].tls_ok

\* SO_MARK
getTlsTerminationSafe(c) ==
    /\ fwd[c].at = "queued"
    /\ fwd' = [fwd EXCEPT ![c].at = "marked",
            ![c].safe = TlsMark(c, addr_port_to_pid_map[OptKey(sk[c].peer, sk[c].port)])]
    /\ UNCHANGED <<rdr, sk, map_socks, map_ports, addr_port_to_pid_map, active_tcp_source_addr_map>>

\* SO_COOKIE; without an answer it is the cookie of the forwarder's own socket.
getRawConnectionCookie(c) ==
    /\ fwd[c].at = "marked"
    /\ fwd' = [fwd EXCEPT ![c].at = "cookie",
                          ![c].cookie = IF KnownClient(c) THEN ClientCookie(c) ELSE NoneR]
    /\ UNCHANGED <<rdr, sk, map_socks, map_ports, addr_port_to_pid_map, active_tcp_source_addr_map>>

\* The IPv4 listener is given an IPv4 address.
Unmapped(dst) ==
    IF dst.addr[1] = "mapped" THEN [dst EXCEPT !.addr = <<"v4", dst.addr[2]>>] ELSE dst

\* SO_ORIGINAL_DST; without an answer the connection is closed.  isDestinationSelf
\* ends the handling of a connection to the forwarder itself.
getOriginalDst(c) ==
    /\ fwd[c].at = "cookie"
    /\ LET dst == map_socks[ClientCookie(c)] IN
       fwd' = IF ~KnownClient(c)
                THEN [fwd EXCEPT ![c].at = "done"]
                ELSE [fwd EXCEPT ![c].at = IF dst.managed THEN "done" ELSE "handled",
                                 ![c].dst = Unmapped(dst)]
    /\ UNCHANGED <<rdr, sk, map_socks, map_ports, addr_port_to_pid_map, active_tcp_source_addr_map>>

\* handleConnection dials the destination, as qtap.
DialUpstream(c) ==
    /\ fwd[c].at = "handled"
    /\ fwd' = [fwd EXCEPT ![c].at = "proxying"]
    /\ \E d \in Cookies : Connects(d, qpid, fwd[c].dst)

\* handleConnection ends: the dial fails, or one of the two directions does.
ForwarderDone(c) ==
    /\ fwd[c].at \in {"handled", "proxying"}
    /\ fwd' = [fwd EXCEPT ![c].at = "done"]
    /\ UNCHANGED <<rdr, sk, map_socks, map_ports, addr_port_to_pid_map, active_tcp_source_addr_map>>

RdrNext ==
    \/ \E c \in Cookies, pid \in Programs, dst \in rdr.dests :
         cg_connect4(c, pid, dst) \/ cg_connect6(c, pid, dst)
    \/ \E c \in Cookies, port \in Ports :
         trace_tcp_v4_connect_fexit(c, port) \/ trace_tcp_v6_connect_fexit(c, port)
    \/ \E c \in Cookies : cg_sock_ops(c) \/ tcp_close(c)
    \/ \E pid \in Programs : SetTlsMark(pid)
    \/ \E c \in Cookies : \/ getTlsTerminationSafe(c) \/ getRawConnectionCookie(c)
                          \/ getOriginalDst(c) \/ DialUpstream(c) \/ ForwarderDone(c)

RdrSpec == RdrInit /\ [][RdrNext]_rdrVars

-----------------------------------------------------------------------------
\* The connection was sent to the forwarder in place of its destination.
Taken(c) == sk[c].peer # sk[c].dst

\* The forwarder connects each redirected client to the destination it asked for
\* and reports its events under the client's cookie: with source ports used again,
\* entries that the LRU maps drop at any time, and clients that close early.
DestinationKept ==
    \A c \in Cookies :
      Taken(c) /\ fwd[c].at \in {"handled", "proxying"} =>
        fwd[c].cookie = c /\ fwd[c].dst = Unmapped(sk[c].dst)

\* TLS of a redirected connection is terminated only when the process that made
\* the connection has been seen to trust the certificate.
TerminatedIsOk ==
    \A c \in Cookies :
      Taken(c) /\ fwd[c].safe => sk[c].pid # qpid /\ rdr.metas[sk[c].pid].tls_ok

\* The address and port of a source that is in use leads to its own process.
SourceIsOwner ==
    \A c \in Cookies :
      sk[c].at \in {"sent", "established"} =>
        addr_port_to_pid_map[OptKey(sk[c].peer, sk[c].port)] = sk[c].pid

\* A connection that the forwarder makes is never sent back to it.
NoLoop == \A c \in Cookies : sk[c].pid = qpid => ~Taken(c)
=============================================================================
