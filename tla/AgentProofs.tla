---------------------------- MODULE AgentProofs ----------------------------
(***************************************************************************)
(* Proofs about the parts of the agent that share no state, each for any   *)
(* number of goroutines or sockets: the redirection of connections to the  *)
(* forward proxy, the service registry, the scans of a container, the      *)
(* certificate store, the cache with expirations, the reporter of a        *)
(* connection and its plugins.                                             *)
(***************************************************************************)
EXTENDS Reporter, ServiceRegistry, ContainerScans, CertStore, TTLCache,
        Redirector, PluginConnection, FiniteSetTheorems, SequenceTheorems, TLAPS

\* A leaf that cites no prover is Zenon's.
USE Zenon

-----------------------------------------------------------------------------
(***************************************************************************)
(* The properties of Redirector for every set of sockets, processes, ports *)
(* and settings and every capacity of the LRU maps.                        *)
(*                                                                         *)
(* The argument: the keys of addr_port_to_pid_map and map_ports name an    *)
(* address and a port, not a socket.  The sockets whose port is not free,  *)
(* because either end of their connection is open, have different ports,   *)
(* so that the entries of such a socket are its own or are gone.           *)
(***************************************************************************)

Live(c) == sk[c].at \in {"sent", "established"}
Accepted(c) == fwd[c].at \in {"queued", "marked", "cookie", "handled", "proxying"}
KeyOf(c) == OptKey(sk[c].peer, sk[c].port)

Sockets ==
    [at : {"new", "connecting", "sent", "established", "closed"},
     pid : Programs \cup {qpid, NoneR}, dst : Dests \cup {NoneR},
     peer : Dests \cup {NoneR}, port : Ports \cup {NoneR}]
Accepts ==
    [at : {"none", "queued", "marked", "cookie", "handled", "proxying", "done"},
     safe : BOOLEAN, cookie : Cookies \cup {NoneR}, dst : Dests \cup {NoneR}]

RdrTypeOK ==
    /\ rdr \in Scopes
    /\ sk \in [Cookies -> Sockets]
    /\ map_socks \in [Cookies -> Dests \cup {NoneR}]
    /\ map_ports \in [Keys -> Cookies \cup {NoneR}]
    /\ addr_port_to_pid_map \in [Keys -> Programs \cup {qpid, NoneR}]
    /\ active_tcp_source_addr_map \in [Cookies -> Keys \cup {NoneR}]
    /\ fwd \in [Cookies -> Accepts]

\* What a socket has been through.
StageInv ==
    \A c \in Cookies :
      /\ sk[c].at = "new" => sk[c].peer = sk[c].dst
      /\ sk[c].at # "new" => sk[c].pid # NoneR /\ sk[c].dst # NoneR /\ sk[c].peer # NoneR
      /\ fwd[c].at # "none" => sk[c].at \in {"established", "closed"}
      /\ fwd[c].at = "none" => ~fwd[c].safe
      /\ fwd[c].at \in {"handled", "proxying"} => fwd[c].dst # NoneR

\* The sockets whose port is not free have different ports, and their entries of
\* the two maps of sock_pid_fd are their own.
PortInv ==
    /\ \A c \in Cookies :
         /\ Live(c) \/ Accepted(c) =>
              /\ sk[c].port \in Ports
              /\ addr_port_to_pid_map[KeyOf(c)] \in {sk[c].pid, NoneR}
         /\ Live(c) => /\ active_tcp_source_addr_map[c] = KeyOf(c)
                       /\ addr_port_to_pid_map[KeyOf(c)] = sk[c].pid
         /\ ~Live(c) => active_tcp_source_addr_map[c] = NoneR
    /\ \A c, d \in Cookies :
         (Live(c) \/ Accepted(c)) /\ (Live(d) \/ Accepted(d)) /\ c # d => sk[c].port # sk[d].port

\* What the two LRU maps hold for a connection that was sent to the forwarder.
LruInv ==
    \A c \in Cookies :
      /\ map_socks[c] # NoneR => sk[c].at # "new" /\ map_socks[c] = sk[c].dst
      /\ Taken(c) /\ sk[c].at \in {"connecting", "sent"} => map_socks[c] # NoneR
      /\ Taken(c) /\ Accepted(c) => map_ports[KeyOf(c)] \in {c, NoneR}
      /\ Taken(c) /\ fwd[c].at = "cookie" /\ KnownClient(c) => fwd[c].cookie = c

RdrInv ==
    RdrTypeOK /\ StageInv /\ PortInv /\ LruInv /\ NoLoop /\ TerminatedIsOk /\ DestinationKept

-----------------------------------------------------------------------------
\* Facts about the operators.

\* An update of an LRU map writes its entry; any other entry stays or, when it may
\* be dropped, is gone.
LEMMA PutLruFacts ==
    ASSUME NEW map, NEW key \in DOMAIN map, NEW value,
           NEW droppable, NEW m \in PutLru(map, key, value, droppable)
    PROVE  /\ m[key] = value
           /\ \A k \in DOMAIN map \ {key} :
                m[k] = map[k] \/ (k \in droppable /\ m[k] = NoneR)
<1> DEFINE used == {k \in DOMAIN map : map[k] # NoneR}
<1>1. CASE key \in used \/ Cardinality(used) < Capacity
  BY <1>1 DEF PutLru
<1>2. CASE ~(key \in used \/ Cardinality(used) < Capacity)
  <2>1. PICK old \in used \cap droppable : m = [map EXCEPT ![old] = NoneR, ![key] = value]
    BY <1>2 DEF PutLru
  <2>2. old \in DOMAIN map /\ old \in droppable /\ old # key
    BY <2>1, <1>2
  <2> QED BY <2>1, <2>2
<1> QED BY <1>1, <1>2

LEMMA PutLruType ==
    ASSUME NEW K, NEW V, NoneR \in V, NEW map \in [K -> V], NEW key \in K, NEW value \in V,
           NEW droppable, NEW m \in PutLru(map, key, value, droppable)
    PROVE  m \in [K -> V]
BY DEF PutLru

\* A connection is given the address of the forwarder's listener or its own.
LEMMA ListenAddrType == ASSUME NEW dst PROVE ListenAddr(dst) \in Dests
BY DEF ListenAddr, set_ipv4_listen_addr, set_ipv6_listen_addr, ProxyV4, ProxyV6,
       ProxyMapped, Dests, Classes, V4Classes

LEMMA PeerOfType == ASSUME NEW pid, NEW dst \in Dests PROVE PeerOf(pid, dst) \in Dests
BY ListenAddrType DEF PeerOf

\* Undoing the mapping of an IPv4 address gives an address.
LEMMA UnmappedType == ASSUME NEW dst \in Dests PROVE Unmapped(dst) \in Dests
<1>1. dst.addr \in Classes
  BY DEF Dests
<1>2. CASE dst.addr[1] = "mapped"
  <2>1. dst.addr[2] \in V4Classes
    BY <1>1, <1>2 DEF Classes
  <2>2. <<"v4", dst.addr[2]>> \in Classes
    BY <2>1 DEF Classes
  <2> QED BY <1>2, <2>2 DEF Unmapped, Dests
<1>3. CASE dst.addr[1] # "mapped"
  BY <1>3 DEF Unmapped
<1> QED BY <1>2, <1>3

\* The key of a source port is a key of the maps, the three hooks compute the same
\* one, and different ports have different keys.
LEMMA KeyFacts ==
    ASSUME NEW peer, NEW port \in Ports
    PROVE  /\ ConnectKey(peer, port) \in Keys
           /\ OptKey(peer, port) = ConnectKey(peer, port)
           /\ OpsKey(peer, port) = ConnectKey(peer, port)
           /\ \A p, q : q # port => OptKey(p, q) # ConnectKey(peer, port)
BY DEF ConnectKey, OptKey, OpsKey, Keys

-----------------------------------------------------------------------------
\* The steps of a connect, of a client or of the forwarder.
LEMMA ConnectsFacts ==
    ASSUME RdrTypeOK, NEW c \in Cookies, NEW pid \in Programs \cup {qpid}, NEW dst \in Dests,
           Connects(c, pid, dst)
    PROVE  /\ sk[c].at = "new"
           /\ sk' = [sk EXCEPT ![c] =
                       [at |-> "connecting", pid |-> pid, dst |-> dst, port |-> NoneR,
                        peer |-> PeerOf(pid, dst)]]
           /\ sk'[c].peer \in Dests
           /\ map_socks' \in [Cookies -> Dests \cup {NoneR}]
           /\ sk'[c].peer # dst => pid # qpid /\ map_socks'[c] = dst
           /\ map_socks'[c] \in {map_socks[c], dst}
           /\ \A d \in Cookies \ {c} :
                \/ map_socks'[d] = map_socks[d]
                \/ sk[d].at \in {"established", "closed"} /\ map_socks'[d] = NoneR
           /\ UNCHANGED <<rdr, map_ports, addr_port_to_pid_map, active_tcp_source_addr_map>>
<1> DEFINE drop == {d \in Cookies : sk[d].at \in {"established", "closed"}}
<1>1. PeerOf(pid, dst) \in Dests
  BY PeerOfType
<1>2. /\ sk[c].at = "new"
      /\ sk' = [sk EXCEPT ![c] =
                  [at |-> "connecting", pid |-> pid, dst |-> dst, port |-> NoneR,
                   peer |-> PeerOf(pid, dst)]]
      /\ UNCHANGED <<rdr, map_ports, addr_port_to_pid_map, active_tcp_source_addr_map>>
  BY DEF Connects
<1>3. sk'[c].peer = PeerOf(pid, dst)
  BY <1>2 DEF RdrTypeOK
<1>4. CASE Redirected(pid, dst)
  <2>1. map_socks' \in PutLru(map_socks, c, dst, drop)
    BY <1>4 DEF Connects
  <2>2. map_socks \in [Cookies -> Dests \cup {NoneR}]
    BY DEF RdrTypeOK
  <2>3. /\ map_socks' \in [Cookies -> Dests \cup {NoneR}]
        /\ map_socks'[c] = dst
        /\ \A d \in Cookies \ {c} :
             map_socks'[d] = map_socks[d] \/ (d \in drop /\ map_socks'[d] = NoneR)
    <3> HIDE DEF drop
    <3>1. DOMAIN map_socks = Cookies
      BY <2>2
    <3>2. map_socks' \in [Cookies -> Dests \cup {NoneR}]
      BY <2>1, <2>2, PutLruType
    <3>3. /\ map_socks'[c] = dst
          /\ \A d \in DOMAIN map_socks \ {c} :
               map_socks'[d] = map_socks[d] \/ (d \in drop /\ map_socks'[d] = NoneR)
      BY <2>1, <3>1, PutLruFacts, SMT
    <3> QED BY <3>1, <3>2, <3>3
  <2> QED BY <1>1, <1>2, <1>3, <1>4, <2>3 DEF Redirected
<1>5. CASE ~Redirected(pid, dst)
  <2>1. map_socks' = map_socks /\ PeerOf(pid, dst) = dst
    BY <1>5 DEF Connects, PeerOf
  <2> QED BY <1>1, <1>2, <1>3, <2>1 DEF RdrTypeOK
<1> QED BY <1>4, <1>5

\* A connect of a client or of the forwarder, which leaves fwd alone or not.
ConnectStep ==
    \E c \in Cookies, pid \in Programs \cup {qpid}, dst \in Dests :
      /\ Connects(c, pid, dst)
      /\ \/ UNCHANGED fwd
         \/ \E e \in Cookies : /\ fwd[e].at = "handled"
                               /\ fwd' = [fwd EXCEPT ![e].at = "proxying"]

\* The steps of Next, by what they change.
LEMMA Steps ==
    ASSUME RdrTypeOK, StageInv, RdrNext
    PROVE  \/ ConnectStep
           \/ \E c \in Cookies, port \in Ports : sk[c].peer # NoneR /\ Connected(c, port)
           \/ \E c \in Cookies : cg_sock_ops(c)
           \/ \E c \in Cookies : tcp_close(c)
           \/ \E pid \in Programs : SetTlsMark(pid)
           \/ \E c \in Cookies : getTlsTerminationSafe(c)
           \/ \E c \in Cookies : getRawConnectionCookie(c)
           \/ \E c \in Cookies : getOriginalDst(c)
           \/ \E c \in Cookies : ForwarderDone(c)
<1>1. ASSUME NEW c \in Cookies, NEW pid \in Programs, NEW dst \in rdr.dests,
             cg_connect4(c, pid, dst) \/ cg_connect6(c, pid, dst)
      PROVE  ConnectStep
  <2>1. dst \in Dests
    BY DEF RdrTypeOK, Scopes
  <2>2. Connects(c, pid, dst) /\ UNCHANGED fwd
    BY <1>1 DEF cg_connect4, cg_connect6
  <2> QED BY <2>1, <2>2 DEF ConnectStep
<1>2. ASSUME NEW c \in Cookies, NEW port \in Ports,
             trace_tcp_v4_connect_fexit(c, port) \/ trace_tcp_v6_connect_fexit(c, port)
      PROVE  sk[c].peer # NoneR /\ Connected(c, port)
  BY <1>2 DEF trace_tcp_v4_connect_fexit, trace_tcp_v6_connect_fexit
<1>3. ASSUME NEW c \in Cookies, DialUpstream(c)
      PROVE  ConnectStep
  <2>1. /\ fwd[c].at = "handled"
        /\ fwd' = [fwd EXCEPT ![c].at = "proxying"]
    BY <1>3 DEF DialUpstream
  <2>2. PICK d \in Cookies : Connects(d, qpid, fwd[c].dst)
    BY <1>3 DEF DialUpstream
  <2>3. fwd[c].dst \in Dests
    BY <2>1 DEF RdrTypeOK, StageInv, Accepts
  <2> QED BY <2>1, <2>2, <2>3 DEF ConnectStep
<1> QED BY <1>1, <1>2, <1>3 DEF RdrNext

-----------------------------------------------------------------------------
\* Each step keeps the types.
LEMMA TypeNext ==
    ASSUME RdrTypeOK, StageInv, PortInv, RdrNext PROVE RdrTypeOK'
<1>1. CASE ConnectStep
  <2>1. PICK c \in Cookies, pid \in Programs \cup {qpid}, dst \in Dests :
          /\ Connects(c, pid, dst)
          /\ \/ UNCHANGED fwd
             \/ \E e \in Cookies : /\ fwd[e].at = "handled"
                                   /\ fwd' = [fwd EXCEPT ![e].at = "proxying"]
    BY <1>1 DEF ConnectStep
  <2>2. PeerOf(pid, dst) \in Dests
    BY PeerOfType
  <2>3. /\ sk' = [sk EXCEPT ![c] =
                    [at |-> "connecting", pid |-> pid, dst |-> dst, port |-> NoneR,
                     peer |-> PeerOf(pid, dst)]]
        /\ map_socks' \in [Cookies -> Dests \cup {NoneR}]
        /\ UNCHANGED <<rdr, map_ports, addr_port_to_pid_map, active_tcp_source_addr_map>>
    BY <2>1, ConnectsFacts, SMT
  <2>4. sk' \in [Cookies -> Sockets]
    BY <2>2, <2>3 DEF RdrTypeOK, Sockets
  <2>5. fwd' \in [Cookies -> Accepts]
    BY <2>1, SMT DEF RdrTypeOK, Accepts
  <2> QED BY <2>3, <2>4, <2>5 DEF RdrTypeOK
<1>2. ASSUME NEW c \in Cookies, NEW port \in Ports, Connected(c, port)
      PROVE  RdrTypeOK'
  <2>1. ConnectKey(sk[c].peer, port) \in Keys
    BY KeyFacts
  <2>2. sk' \in [Cookies -> Sockets]
    <3>0. sk[c] \in Sockets
      BY DEF RdrTypeOK
    <3>1. [sk[c] EXCEPT !.at = "sent", !.port = port] \in Sockets
      BY <3>0 DEF Sockets
    <3>2. sk' = [sk EXCEPT ![c] = [sk[c] EXCEPT !.at = "sent", !.port = port]]
      BY <1>2 DEF Connected, RdrTypeOK
    <3> QED BY <3>1, <3>2 DEF RdrTypeOK
  <2>3. sk[c].pid \in Programs \cup {qpid, NoneR}
    BY DEF RdrTypeOK, Sockets
  <2>4. /\ addr_port_to_pid_map' \in [Keys -> Programs \cup {qpid, NoneR}]
        /\ active_tcp_source_addr_map' \in [Cookies -> Keys \cup {NoneR}]
    BY <1>2, <2>1, <2>3 DEF Connected, RdrTypeOK
  <2> QED BY <1>2, <2>2, <2>4 DEF Connected, RdrTypeOK
<1>3. ASSUME NEW c \in Cookies, cg_sock_ops(c)
      PROVE  RdrTypeOK'
  <2> DEFINE key == OpsKey(sk[c].peer, sk[c].port)
  <2>1. key \in Keys
    BY <1>3, KeyFacts DEF cg_sock_ops, PortInv, Live
  <2>2. map_ports' \in PutLru(map_ports, key, c, Keys) \/ map_ports' = map_ports
    BY <1>3 DEF cg_sock_ops, map_ports_with
  <2>3. map_ports' \in [Keys -> Cookies \cup {NoneR}]
    <3> HIDE DEF key
    <3>1. map_ports \in [Keys -> Cookies \cup {NoneR}]
      BY DEF RdrTypeOK
    <3> QED BY <2>1, <2>2, <3>1, PutLruType
  <2>4. fwd' \in {fwd, [fwd EXCEPT ![c].at = "queued"]}
    BY <1>3 DEF cg_sock_ops
  <2>5. sk' = [sk EXCEPT ![c].at = "established"]
        /\ UNCHANGED <<rdr, map_socks, addr_port_to_pid_map, active_tcp_source_addr_map>>
    BY <1>3 DEF cg_sock_ops
  <2>6. sk' \in [Cookies -> Sockets]
    BY <2>5, SMT DEF RdrTypeOK, Sockets
  <2>7. fwd' \in [Cookies -> Accepts]
    BY <2>4, SMT DEF RdrTypeOK, Accepts
  <2> QED BY <2>3, <2>5, <2>6, <2>7 DEF RdrTypeOK
<1>4. ASSUME NEW c \in Cookies, tcp_close(c)
      PROVE  RdrTypeOK'
  <2>1. sk' \in [Cookies -> Sockets]
    BY <1>4, SMT DEF tcp_close, RdrTypeOK, Sockets
  <2>2. addr_port_to_pid_map' \in [Keys -> Programs \cup {qpid, NoneR}]
    BY <1>4 DEF tcp_close, pid_map_without, RdrTypeOK
  <2>3. active_tcp_source_addr_map' \in [Cookies -> Keys \cup {NoneR}]
    BY <1>4 DEF tcp_close, RdrTypeOK
  <2> QED BY <1>4, <2>1, <2>2, <2>3 DEF tcp_close, RdrTypeOK
<1>5. ASSUME NEW pid \in Programs, SetTlsMark(pid)
      PROVE  RdrTypeOK'
  <2>1. rdr.metas[pid] \in [strategy : Strategies, tls_ok : BOOLEAN]
    BY <1>5 DEF SetTlsMark, RdrTypeOK, Scopes
  <2>2. rdr' = [rdr EXCEPT !.metas[pid].tls_ok = TRUE]
    BY <1>5 DEF SetTlsMark
  <2>3. rdr' \in Scopes
    BY <2>1, <2>2 DEF RdrTypeOK, Scopes
  <2> QED BY <1>5, <2>3 DEF SetTlsMark, RdrTypeOK
<1>6. ASSUME NEW c \in Cookies, getTlsTerminationSafe(c)
      PROVE  RdrTypeOK'
  <2> DEFINE safe == TlsMark(c, addr_port_to_pid_map[KeyOf(c)])
  <2>1. safe \in BOOLEAN
    <3>1. KeyOf(c) \in Keys
      BY <1>6, KeyFacts, SMT DEF getTlsTerminationSafe, PortInv, Accepted, KeyOf
    <3>2. addr_port_to_pid_map[KeyOf(c)] \in Programs \cup {qpid, NoneR}
      BY <3>1 DEF RdrTypeOK
    <3> QED BY <3>2 DEF TlsMark, RdrTypeOK, Scopes
  <2>2. fwd' = [fwd EXCEPT ![c].at = "marked", ![c].safe = safe]
    BY <1>6 DEF getTlsTerminationSafe, KeyOf
  <2> HIDE DEF safe
  <2>3. fwd' \in [Cookies -> Accepts]
    <3>1. [fwd[c] EXCEPT !.at = "marked", !.safe = safe] \in Accepts
      BY <2>1 DEF RdrTypeOK, Accepts
    <3>2. fwd' = [fwd EXCEPT ![c] = [fwd[c] EXCEPT !.at = "marked", !.safe = safe]]
      BY <2>2 DEF RdrTypeOK
    <3> QED BY <3>1, <3>2 DEF RdrTypeOK
  <2> QED BY <1>6, <2>3 DEF getTlsTerminationSafe, RdrTypeOK
<1>7. ASSUME NEW c \in Cookies, getRawConnectionCookie(c)
      PROVE  RdrTypeOK'
  <2>1. KeyOf(c) \in Keys
    BY <1>7, KeyFacts, SMT DEF getRawConnectionCookie, PortInv, Accepted, KeyOf
  <2>2. ClientCookie(c) \in Cookies \cup {NoneR}
    BY <2>1 DEF RdrTypeOK, ClientCookie, KeyOf
  <2>3. fwd' \in [Cookies -> Accepts]
    <3>1. PICK k \in Cookies \cup {NoneR} :
            fwd' = [fwd EXCEPT ![c].at = "cookie", ![c].cookie = k]
      BY <1>7, <2>2 DEF getRawConnectionCookie
    <3>2. [fwd[c] EXCEPT !.at = "cookie", !.cookie = k] \in Accepts
      BY DEF RdrTypeOK, Accepts
    <3>3. fwd' = [fwd EXCEPT ![c] = [fwd[c] EXCEPT !.at = "cookie", !.cookie = k]]
      BY <3>1 DEF RdrTypeOK
    <3> QED BY <3>2, <3>3 DEF RdrTypeOK
  <2> QED BY <1>7, <2>3 DEF getRawConnectionCookie, RdrTypeOK
<1>8. ASSUME NEW c \in Cookies, getOriginalDst(c)
      PROVE  RdrTypeOK'
  <2> DEFINE dst == map_socks[ClientCookie(c)]
  <2>1. KeyOf(c) \in Keys
    BY <1>8, KeyFacts, SMT DEF getOriginalDst, PortInv, Accepted, KeyOf
  <2>2. ClientCookie(c) \in Cookies \cup {NoneR}
    BY <2>1 DEF RdrTypeOK, ClientCookie, KeyOf
  <2>3. CASE KnownClient(c)
    <3>1. dst \in Dests
      BY <2>2, <2>3 DEF KnownClient, RdrTypeOK
    <3>2. Unmapped(dst) \in Dests
      BY <3>1, UnmappedType
    <3>3. \E a \in {"done", "handled"} :
            fwd' = [fwd EXCEPT ![c].at = a, ![c].dst = Unmapped(dst)]
      BY <1>8, <2>3 DEF getOriginalDst
    <3> HIDE DEF dst
    <3>4. fwd' \in [Cookies -> Accepts]
      <4>1. PICK a \in {"done", "handled"} :
              fwd' = [fwd EXCEPT ![c].at = a, ![c].dst = Unmapped(dst)]
        BY <3>3
      <4>2. PICK u \in Dests : u = Unmapped(dst)
        BY <3>2
      <4>3. [fwd[c] EXCEPT !.at = a, !.dst = u] \in Accepts
        BY DEF RdrTypeOK, Accepts
      <4>4. fwd' = [fwd EXCEPT ![c] = [fwd[c] EXCEPT !.at = a, !.dst = u]]
        BY <4>1, <4>2 DEF RdrTypeOK
      <4> QED BY <4>3, <4>4 DEF RdrTypeOK
    <3> QED BY <1>8, <3>4 DEF getOriginalDst, RdrTypeOK
  <2>4. CASE ~KnownClient(c)
    <3>1. fwd' \in [Cookies -> Accepts]
      BY <1>8, <2>4, SMT DEF getOriginalDst, RdrTypeOK, Accepts
    <3> QED BY <1>8, <3>1 DEF getOriginalDst, RdrTypeOK
  <2> QED BY <2>3, <2>4
<1>9. ASSUME NEW c \in Cookies, ForwarderDone(c)
      PROVE  RdrTypeOK'
  <2>1. fwd' \in [Cookies -> Accepts]
    BY <1>9, SMT DEF ForwarderDone, RdrTypeOK, Accepts
  <2> QED BY <1>9, <2>1 DEF ForwarderDone, RdrTypeOK
<1> QED BY <1>1, <1>2, <1>3, <1>4, <1>5, <1>6, <1>7, <1>8, <1>9, Steps

\* What each kind of step leaves, socket by socket.
LEMMA ConnectStepFacts ==
    ASSUME RdrTypeOK, ConnectStep
    PROVE  \E c \in Cookies :
             /\ sk[c].at = "new" /\ sk'[c].at = "connecting"
             /\ sk'[c].pid \in Programs \cup {qpid}
             /\ sk'[c].dst \in Dests /\ sk'[c].peer \in Dests
             /\ sk'[c].peer # sk'[c].dst => sk'[c].pid # qpid /\ map_socks'[c] = sk'[c].dst
             /\ map_socks'[c] \in {map_socks[c], sk'[c].dst}
             /\ \A d \in Cookies \ {c} :
                  /\ sk'[d] = sk[d]
                  /\ \/ map_socks'[d] = map_socks[d]
                     \/ sk[d].at \in {"established", "closed"} /\ map_socks'[d] = NoneR
             /\ \A d \in Cookies :
                  /\ fwd'[d].safe = fwd[d].safe /\ fwd'[d].cookie = fwd[d].cookie
                  /\ fwd'[d].dst = fwd[d].dst
                  /\ \/ fwd'[d].at = fwd[d].at
                     \/ fwd[d].at = "handled" /\ fwd'[d].at = "proxying"
             /\ UNCHANGED <<rdr, map_ports, addr_port_to_pid_map, active_tcp_source_addr_map>>
<1>1. PICK c \in Cookies, pid \in Programs \cup {qpid}, dst \in Dests :
        /\ Connects(c, pid, dst)
        /\ \/ UNCHANGED fwd
           \/ \E e \in Cookies : /\ fwd[e].at = "handled"
                                 /\ fwd' = [fwd EXCEPT ![e].at = "proxying"]
  BY DEF ConnectStep
<1>2. /\ sk[c].at = "new"
      /\ sk' = [sk EXCEPT ![c] =
                  [at |-> "connecting", pid |-> pid, dst |-> dst, port |-> NoneR,
                   peer |-> PeerOf(pid, dst)]]
      /\ sk'[c].peer \in Dests
      /\ sk'[c].peer # dst => pid # qpid /\ map_socks'[c] = dst
      /\ map_socks'[c] \in {map_socks[c], dst}
      /\ \A d \in Cookies \ {c} :
           \/ map_socks'[d] = map_socks[d]
           \/ sk[d].at \in {"established", "closed"} /\ map_socks'[d] = NoneR
      /\ UNCHANGED <<rdr, map_ports, addr_port_to_pid_map, active_tcp_source_addr_map>>
  BY <1>1, ConnectsFacts, SMT
<1>3. /\ sk'[c].at = "connecting" /\ sk'[c].pid = pid /\ sk'[c].dst = dst
      /\ \A d \in Cookies \ {c} : sk'[d] = sk[d]
  BY <1>2 DEF RdrTypeOK
<1>4. \A d \in Cookies :
        /\ fwd'[d].safe = fwd[d].safe /\ fwd'[d].cookie = fwd[d].cookie
        /\ fwd'[d].dst = fwd[d].dst
        /\ \/ fwd'[d].at = fwd[d].at
           \/ fwd[d].at = "handled" /\ fwd'[d].at = "proxying"
  BY <1>1, SMT DEF RdrTypeOK, Accepts
<1> WITNESS c \in Cookies
<1> QED BY <1>2, <1>3, <1>4

LEMMA ConnectedFacts ==
    ASSUME RdrTypeOK, NEW c \in Cookies, NEW port \in Ports, Connected(c, port)
    PROVE  /\ sk[c].at = "connecting" /\ sk'[c].at = "sent" /\ sk'[c].port = port
           /\ sk'[c].pid = sk[c].pid /\ sk'[c].dst = sk[c].dst /\ sk'[c].peer = sk[c].peer
           /\ \A d \in Cookies \ {c} : sk'[d] = sk[d]
           /\ UNCHANGED <<rdr, map_socks, map_ports, fwd>>
BY DEF Connected, RdrTypeOK, Sockets

LEMMA SockOpsFacts ==
    ASSUME RdrTypeOK, PortInv, NEW c \in Cookies, cg_sock_ops(c)
    PROVE  /\ sk[c].at = "sent" /\ sk'[c].at = "established"
           /\ sk'[c].pid = sk[c].pid /\ sk'[c].dst = sk[c].dst /\ sk'[c].peer = sk[c].peer
           /\ sk'[c].port = sk[c].port
           /\ \A d \in Cookies \ {c} : sk'[d] = sk[d] /\ fwd'[d] = fwd[d]
           /\ fwd'[c].at \in {fwd[c].at, "queued"}
           /\ fwd'[c].safe = fwd[c].safe
           /\ map_socks[c] # NoneR => map_ports'[KeyOf(c)] = c
           /\ \A k \in Keys \ {KeyOf(c)} : map_ports'[k] \in {map_ports[k], NoneR}
           /\ UNCHANGED <<rdr, map_socks, addr_port_to_pid_map, active_tcp_source_addr_map>>
<1>1. /\ sk[c].at = "sent"
      /\ sk' = [sk EXCEPT ![c].at = "established"]
      /\ fwd' \in {fwd, [fwd EXCEPT ![c].at = "queued"]}
      /\ UNCHANGED <<rdr, map_socks, addr_port_to_pid_map, active_tcp_source_addr_map>>
  BY DEF cg_sock_ops
<1>2. /\ sk'[c].at = "established"
      /\ sk'[c].pid = sk[c].pid /\ sk'[c].dst = sk[c].dst /\ sk'[c].peer = sk[c].peer
      /\ sk'[c].port = sk[c].port
      /\ \A d \in Cookies \ {c} : sk'[d] = sk[d]
  BY <1>1, SMT DEF RdrTypeOK, Sockets
<1>3. /\ \A d \in Cookies \ {c} : fwd'[d] = fwd[d]
      /\ fwd'[c].at \in {fwd[c].at, "queued"}
      /\ fwd'[c].safe = fwd[c].safe
  BY <1>1 DEF RdrTypeOK, Accepts
<1>4. KeyOf(c) \in Keys /\ OpsKey(sk[c].peer, sk[c].port) = KeyOf(c)
  BY <1>1, KeyFacts, SMT DEF KeyOf, PortInv, Live
<1>5. DOMAIN map_ports = Keys
  BY DEF RdrTypeOK
<1>6. CASE map_socks[c] # NoneR
  <2>1. map_ports' \in PutLru(map_ports, KeyOf(c), c, Keys)
    BY <1>4, <1>6 DEF cg_sock_ops, map_ports_with
  <2>2. /\ map_ports'[KeyOf(c)] = c
        /\ \A k \in DOMAIN map_ports \ {KeyOf(c)} :
             map_ports'[k] = map_ports[k] \/ (k \in Keys /\ map_ports'[k] = NoneR)
    BY <1>4, <1>5, <2>1, PutLruFacts, SMT
  <2> QED BY <1>1, <1>2, <1>3, <1>5, <2>2
<1>7. CASE map_socks[c] = NoneR
  <2>1. map_ports' = map_ports
    BY <1>7 DEF cg_sock_ops
  <2> QED BY <1>1, <1>2, <1>3, <1>7, <2>1
<1> QED BY <1>6, <1>7

LEMMA CloseFacts ==
    ASSUME RdrTypeOK, NEW c \in Cookies, tcp_close(c)
    PROVE  /\ Live(c) /\ sk'[c].at = "closed"
           /\ sk'[c].pid = sk[c].pid /\ sk'[c].dst = sk[c].dst /\ sk'[c].peer = sk[c].peer
           /\ sk'[c].port = sk[c].port
           /\ \A d \in Cookies \ {c} : sk'[d] = sk[d]
           /\ UNCHANGED <<rdr, map_socks, map_ports, fwd>>
BY DEF tcp_close, RdrTypeOK, Sockets, Live

\* The steps of the forwarder other than its connect.
Handles(c) ==
    \/ getTlsTerminationSafe(c) \/ getRawConnectionCookie(c)
    \/ getOriginalDst(c) \/ ForwarderDone(c)

LEMMA HandlesFacts ==
    ASSUME RdrTypeOK, NEW c \in Cookies, Handles(c)
    PROVE  /\ Accepted(c) /\ fwd'[c].at \notin {"none", "queued"}
           /\ \A d \in Cookies \ {c} : fwd'[d] = fwd[d]
           /\ UNCHANGED <<rdr, sk, map_socks, map_ports, addr_port_to_pid_map,
                          active_tcp_source_addr_map>>
<1>1. CASE getTlsTerminationSafe(c)
  BY <1>1 DEF getTlsTerminationSafe, Accepted, RdrTypeOK, Accepts
<1>2. CASE getRawConnectionCookie(c)
  BY <1>2 DEF getRawConnectionCookie, Accepted, RdrTypeOK, Accepts
<1>3. CASE getOriginalDst(c)
  BY <1>3 DEF getOriginalDst, Accepted, RdrTypeOK, Accepts
<1>4. CASE ForwarderDone(c)
  BY <1>4 DEF ForwarderDone, Accepted, RdrTypeOK, Accepts
<1> QED BY <1>1, <1>2, <1>3, <1>4 DEF Handles

-----------------------------------------------------------------------------
\* Each step keeps StageInv.
LEMMA StageNext ==
    ASSUME RdrTypeOK, StageInv, PortInv, RdrNext PROVE StageInv'
<1> USE RdrAssumption
<1>1. CASE ConnectStep
  BY <1>1, ConnectStepFacts, SMT DEF StageInv, RdrTypeOK
<1>2. ASSUME NEW c \in Cookies, NEW port \in Ports, Connected(c, port)
      PROVE  StageInv'
  BY <1>2, ConnectedFacts, SMT DEF StageInv
<1>3. ASSUME NEW c \in Cookies, cg_sock_ops(c)
      PROVE  StageInv'
  <2>1. fwd'[c].at = "none" \/ fwd'[c].at = "queued"
    BY <1>3, SockOpsFacts DEF StageInv
  <2> QED BY <1>3, <2>1, SockOpsFacts, SMT DEF StageInv
<1>4. ASSUME NEW c \in Cookies, tcp_close(c)
      PROVE  StageInv'
  BY <1>4, CloseFacts, SMT DEF StageInv, Live
<1>5. ASSUME NEW pid \in Programs, SetTlsMark(pid)
      PROVE  StageInv'
  BY <1>5 DEF SetTlsMark, StageInv
<1>6. ASSUME NEW c \in Cookies, Handles(c)
      PROVE  StageInv'
  <2>1. fwd'[c].at \in {"handled", "proxying"} => fwd'[c].dst # NoneR
    <3>1. CASE getOriginalDst(c)
      <4>1. CASE KnownClient(c)
        <5>1. KeyOf(c) \in Keys
          BY <3>1, KeyFacts, SMT DEF getOriginalDst, PortInv, Accepted, KeyOf
        <5>2. map_socks[ClientCookie(c)] \in Dests
          BY <4>1, <5>1 DEF KnownClient, ClientCookie, KeyOf, RdrTypeOK
        <5>3. Unmapped(map_socks[ClientCookie(c)]) \in Dests
          BY <5>2, UnmappedType
        <5>4. fwd'[c].dst = Unmapped(map_socks[ClientCookie(c)])
          BY <3>1, <4>1 DEF getOriginalDst, RdrTypeOK, Accepts
        <5> QED BY <5>3, <5>4
      <4>2. CASE ~KnownClient(c)
        BY <3>1, <4>2 DEF getOriginalDst, RdrTypeOK, Accepts
      <4> QED BY <4>1, <4>2
    <3>2. CASE getTlsTerminationSafe(c)
      BY <3>2 DEF getTlsTerminationSafe, RdrTypeOK, Accepts
    <3>3. CASE getRawConnectionCookie(c)
      BY <3>3 DEF getRawConnectionCookie, RdrTypeOK, Accepts
    <3>4. CASE ForwarderDone(c)
      BY <3>4 DEF ForwarderDone, RdrTypeOK, Accepts
    <3> QED BY <1>6, <3>1, <3>2, <3>3, <3>4 DEF Handles
  <2> QED BY <1>6, <2>1, HandlesFacts, SMT DEF StageInv, Accepted
<1> QED BY <1>1, <1>2, <1>3, <1>4, <1>5, <1>6, Steps DEF Handles

\* Each step keeps PortInv: a port is given out when it is free, and the entry that
\* a close deletes is of the socket that closes.
LEMMA PortNext ==
    ASSUME RdrTypeOK, StageInv, PortInv, RdrNext PROVE PortInv'
<1> USE RdrAssumption
<1>1. CASE ConnectStep
  <2>1. PICK c \in Cookies :
          /\ sk[c].at = "new" /\ sk'[c].at = "connecting"
          /\ \A d \in Cookies \ {c} : sk'[d] = sk[d]
          /\ \A d \in Cookies : \/ fwd'[d].at = fwd[d].at
                                \/ fwd[d].at = "handled" /\ fwd'[d].at = "proxying"
          /\ UNCHANGED <<rdr, map_ports, addr_port_to_pid_map, active_tcp_source_addr_map>>
    BY <1>1, ConnectStepFacts, SMT
  <2>2. ~Live(c) /\ ~Live(c)' /\ ~Accepted(c) /\ ~Accepted(c)'
    BY <2>1 DEF Live, Accepted, StageInv
  <2>3. \A d \in Cookies \ {c} : /\ Live(d)' <=> Live(d)
                                 /\ Accepted(d)' <=> Accepted(d)
                                 /\ KeyOf(d)' = KeyOf(d)
    BY <2>1 DEF Live, Accepted, KeyOf
  <2> QED BY <2>1, <2>2, <2>3, SMT DEF PortInv
<1>2. ASSUME NEW c \in Cookies, NEW port \in Ports, Connected(c, port)
      PROVE  PortInv'
  <2> DEFINE key == ConnectKey(sk[c].peer, port)
  <2>1. /\ addr_port_to_pid_map' = [addr_port_to_pid_map EXCEPT ![key] = sk[c].pid]
        /\ active_tcp_source_addr_map' = [active_tcp_source_addr_map EXCEPT ![c] = key]
        /\ Free(port)
    BY <1>2 DEF Connected
  <2>2. key \in Keys /\ KeyOf(c)' = key
    BY <1>2, ConnectedFacts, KeyFacts, SMT DEF KeyOf
  <2>3. ~Live(c) /\ Live(c)' /\ ~Accepted(c)'
    BY <1>2, ConnectedFacts DEF Live, Accepted, StageInv
  <2>4. \A d \in Cookies \ {c} :
          /\ Live(d)' <=> Live(d)
          /\ Accepted(d)' <=> Accepted(d)
          /\ KeyOf(d)' = KeyOf(d)
          /\ sk'[d] = sk[d]
          /\ Live(d) \/ Accepted(d) => sk[d].port # port
    BY <1>2, <2>1, ConnectedFacts DEF Live, Accepted, KeyOf, Free
  <2>5. \A d \in Cookies \ {c} : Live(d) \/ Accepted(d) => KeyOf(d) # key /\ KeyOf(d) \in Keys
    BY <2>4, KeyFacts, SMT DEF KeyOf, PortInv
  <2>6. addr_port_to_pid_map'[key] = sk'[c].pid /\ active_tcp_source_addr_map'[c] = key
        /\ sk'[c].port = port
    BY <1>2, <2>1, <2>2, ConnectedFacts DEF RdrTypeOK
  <2>7. /\ \A k \in Keys \ {key} : addr_port_to_pid_map'[k] = addr_port_to_pid_map[k]
        /\ \A d \in Cookies \ {c} :
             active_tcp_source_addr_map'[d] = active_tcp_source_addr_map[d]
    BY <2>1 DEF RdrTypeOK
  <2> HIDE DEF key
  <2> QED BY <2>2, <2>3, <2>4, <2>5, <2>6, <2>7, SMT DEF PortInv
<1>3. ASSUME NEW c \in Cookies, cg_sock_ops(c)
      PROVE  PortInv'
  <2>1. Live(c) /\ Live(c)'
    BY <1>3, SockOpsFacts DEF Live
  <2>2. \A d \in Cookies : /\ Live(d)' <=> Live(d)
                           /\ d # c => (Accepted(d)' <=> Accepted(d))
                           /\ KeyOf(d)' = KeyOf(d)
                           /\ sk'[d].port = sk[d].port /\ sk'[d].pid = sk[d].pid
    BY <1>3, <2>1, SockOpsFacts, SMT DEF Live, Accepted, KeyOf
  <2> QED BY <1>3, <2>1, <2>2, SockOpsFacts, SMT DEF PortInv
<1>4. ASSUME NEW c \in Cookies, tcp_close(c)
      PROVE  PortInv'
  <2>1. Live(c) /\ ~Live(c)'
    BY <1>4, CloseFacts DEF Live
  <2>2. \A d \in Cookies : /\ d # c => (Live(d)' <=> Live(d))
                           /\ Accepted(d)' <=> Accepted(d)
                           /\ KeyOf(d)' = KeyOf(d)
                           /\ sk'[d].port = sk[d].port /\ sk'[d].pid = sk[d].pid
    BY <1>4, CloseFacts, SMT DEF Live, Accepted, KeyOf
  <2>3. /\ active_tcp_source_addr_map[c] = KeyOf(c)
        /\ KeyOf(c) \in Keys
        /\ \A d \in Cookies \ {c} :
             Live(d) \/ Accepted(d) => KeyOf(d) # KeyOf(c) /\ KeyOf(d) \in Keys
    BY <2>1, KeyFacts, SMT DEF PortInv, KeyOf
  <2>4. /\ addr_port_to_pid_map' = [addr_port_to_pid_map EXCEPT ![KeyOf(c)] = NoneR]
        /\ active_tcp_source_addr_map' = [active_tcp_source_addr_map EXCEPT ![c] = NoneR]
    BY <1>4, <2>3 DEF tcp_close, pid_map_without
  <2>5. /\ addr_port_to_pid_map'[KeyOf(c)] = NoneR
        /\ \A k \in Keys \ {KeyOf(c)} : addr_port_to_pid_map'[k] = addr_port_to_pid_map[k]
        /\ active_tcp_source_addr_map'[c] = NoneR
        /\ \A d \in Cookies \ {c} :
             active_tcp_source_addr_map'[d] = active_tcp_source_addr_map[d]
    BY <2>3, <2>4 DEF RdrTypeOK
  <2> QED BY <2>1, <2>2, <2>3, <2>5, SMT DEF PortInv
<1>5. ASSUME NEW pid \in Programs, SetTlsMark(pid)
      PROVE  PortInv'
  BY <1>5 DEF SetTlsMark, PortInv, Live, Accepted, KeyOf
<1>6. ASSUME NEW c \in Cookies, Handles(c)
      PROVE  PortInv'
  <2>1. Accepted(c)
    BY <1>6, HandlesFacts
  <2>2. \A d \in Cookies : /\ Live(d)' <=> Live(d)
                           /\ Accepted(d)' => Accepted(d)
                           /\ KeyOf(d)' = KeyOf(d)
    BY <1>6, <2>1, HandlesFacts DEF Live, Accepted, KeyOf
  <2>3. UNCHANGED <<sk, addr_port_to_pid_map, active_tcp_source_addr_map>>
    BY <1>6, HandlesFacts
  <2> QED BY <2>2, <2>3 DEF PortInv
<1> QED BY <1>1, <1>2, <1>3, <1>4, <1>5, <1>6, Steps DEF Handles

-----------------------------------------------------------------------------
\* Each step keeps LruInv: an entry of map_ports is written again before the
\* forwarder sees a connection of its port, and no other connection writes it while
\* the port is not free.
LEMMA LruNext ==
    ASSUME RdrTypeOK, StageInv, PortInv, LruInv, RdrNext PROVE LruInv'
<1> USE RdrAssumption
<1>0. \A c \in Cookies : Live(c) \/ Accepted(c) => KeyOf(c) \in Keys
  BY KeyFacts, SMT DEF PortInv, KeyOf
<1>1. CASE ConnectStep
  <2>1. PICK c \in Cookies :
          /\ sk[c].at = "new" /\ sk'[c].at = "connecting"
          /\ sk'[c].dst \in Dests
          /\ sk'[c].peer # sk'[c].dst => map_socks'[c] = sk'[c].dst
          /\ map_socks'[c] \in {map_socks[c], sk'[c].dst}
          /\ \A d \in Cookies \ {c} :
               /\ sk'[d] = sk[d]
               /\ \/ map_socks'[d] = map_socks[d]
                  \/ sk[d].at \in {"established", "closed"} /\ map_socks'[d] = NoneR
          /\ \A d \in Cookies :
               /\ fwd'[d].cookie = fwd[d].cookie
               /\ \/ fwd'[d].at = fwd[d].at
                  \/ fwd[d].at = "handled" /\ fwd'[d].at = "proxying"
          /\ map_ports' = map_ports
    BY <1>1, ConnectStepFacts, SMT
  <2>2. map_socks[c] = NoneR /\ ~Accepted(c) /\ ~Accepted(c)'
    BY <2>1 DEF LruInv, StageInv, Accepted
  <2>3. ASSUME NEW d \in Cookies, d # c
        PROVE  /\ Taken(d)' <=> Taken(d)
               /\ Accepted(d)' <=> Accepted(d)
               /\ KeyOf(d)' = KeyOf(d) /\ ClientCookie(d)' = ClientCookie(d)
    BY <2>1, <2>3 DEF Taken, Accepted, KeyOf, ClientCookie
  <2>4. ASSUME NEW d \in Cookies, Taken(d)', fwd'[d].at = "cookie", KnownClient(d)'
        PROVE  fwd'[d].cookie = d
    <3>1. d # c /\ Accepted(d) /\ Taken(d) /\ fwd[d].at = "cookie"
      BY <2>1, <2>2, <2>3, <2>4 DEF Accepted
    <3>2. ClientCookie(d) = d
      BY <2>3, <2>4, <3>1 DEF LruInv, KnownClient, ClientCookie, KeyOf
    <3>3. map_socks'[d] # NoneR /\ map_socks[d] # NoneR
      BY <2>1, <2>3, <2>4, <3>1, <3>2, SMT DEF KnownClient
    <3>4. KnownClient(d)
      BY <3>2, <3>3 DEF KnownClient
    <3> QED BY <2>1, <3>1, <3>4 DEF LruInv
  <2>5. ASSUME NEW d \in Cookies
        PROVE  /\ map_socks'[d] # NoneR => sk'[d].at # "new" /\ map_socks'[d] = sk'[d].dst
               /\ Taken(d)' /\ sk'[d].at \in {"connecting", "sent"} => map_socks'[d] # NoneR
    BY <2>1, <2>2, SMT DEF LruInv, Taken
  <2>6. ASSUME NEW d \in Cookies, Taken(d)', Accepted(d)'
        PROVE  map_ports'[KeyOf(d)'] \in {d, NoneR}
    BY <2>1, <2>2, <2>3, <2>6 DEF LruInv
  <2> QED BY <2>4, <2>5, <2>6 DEF LruInv
<1>2. ASSUME NEW c \in Cookies, NEW port \in Ports, Connected(c, port)
      PROVE  LruInv'
  <2>1. ~Accepted(c) /\ fwd[c].at # "cookie"
    BY <1>2, ConnectedFacts DEF StageInv, Accepted
  <2>2. \A d \in Cookies : /\ Taken(d)' <=> Taken(d)
                           /\ Accepted(d)' <=> Accepted(d)
                           /\ d # c => /\ KeyOf(d)' = KeyOf(d)
                                       /\ KnownClient(d)' <=> KnownClient(d)
    BY <1>2, ConnectedFacts, SMT DEF Taken, Accepted, KeyOf, KnownClient, ClientCookie
  <2>3. UNCHANGED <<map_socks, map_ports, fwd>>
    BY <1>2, ConnectedFacts
  <2>4. ASSUME NEW d \in Cookies
        PROVE  /\ map_socks'[d] # NoneR => sk'[d].at # "new" /\ map_socks'[d] = sk'[d].dst
               /\ Taken(d)' /\ sk'[d].at \in {"connecting", "sent"} => map_socks'[d] # NoneR
    <3>1. CASE d = c
      BY <1>2, <2>2, <2>3, <3>1, ConnectedFacts DEF LruInv
    <3>2. CASE d # c
      <4>1. sk'[d] = sk[d]
        BY <1>2, <3>2, ConnectedFacts
      <4> QED BY <2>2, <2>3, <4>1 DEF LruInv
    <3> QED BY <3>1, <3>2
  <2>5. ASSUME NEW d \in Cookies, Taken(d)', Accepted(d)'
        PROVE  map_ports'[KeyOf(d)'] \in {d, NoneR}
    BY <2>1, <2>2, <2>3, <2>5 DEF LruInv
  <2>6. ASSUME NEW d \in Cookies, Taken(d)', fwd'[d].at = "cookie", KnownClient(d)'
        PROVE  fwd'[d].cookie = d
    <3>1. d # c
      BY <2>1, <2>3, <2>6
    <3> QED BY <2>2, <2>3, <2>6, <3>1 DEF LruInv
  <2> QED BY <2>4, <2>5, <2>6 DEF LruInv
<1>3. ASSUME NEW c \in Cookies, cg_sock_ops(c)
      PROVE  LruInv'
  <2>1. Live(c) /\ fwd[c].at = "none" /\ fwd'[c].at \in {"none", "queued"}
    BY <1>3, SockOpsFacts DEF Live, StageInv
  <2>2. \A d \in Cookies : /\ Taken(d)' <=> Taken(d)
                           /\ KeyOf(d)' = KeyOf(d)
                           /\ d # c => fwd'[d] = fwd[d] /\ (Accepted(d)' <=> Accepted(d))
    BY <1>3, SockOpsFacts, SMT DEF Taken, Accepted, KeyOf
  <2>3. Taken(c) => map_ports'[KeyOf(c)] = c
    BY <1>3, SockOpsFacts DEF LruInv
  <2>4. \A d \in Cookies \ {c} :
          Accepted(d) => map_ports'[KeyOf(d)] \in {map_ports[KeyOf(d)], NoneR}
    <3>1. \A d \in Cookies \ {c} : Accepted(d) => KeyOf(d) # KeyOf(c)
      BY <2>1, KeyFacts, SMT DEF PortInv, KeyOf
    <3> QED BY <1>0, <1>3, <3>1, SockOpsFacts
  <2>5. ASSUME NEW d \in Cookies, Taken(d)', fwd'[d].at = "cookie", KnownClient(d)'
        PROVE  fwd'[d].cookie = d
    <3>1. d # c /\ Accepted(d) /\ Taken(d) /\ fwd[d].at = "cookie"
      BY <2>1, <2>2, <2>5 DEF Accepted
    <3>2. map_ports'[KeyOf(d)] # NoneR /\ map_ports[KeyOf(d)] = map_ports'[KeyOf(d)]
      BY <2>2, <2>4, <2>5, <3>1 DEF KnownClient, ClientCookie, KeyOf
    <3>3. KnownClient(d)
      <4>1. map_socks' = map_socks
        BY <1>3, SockOpsFacts
      <4>2. ClientCookie(d)' = map_ports'[KeyOf(d)'] /\ ClientCookie(d) = map_ports[KeyOf(d)]
        BY DEF ClientCookie, KeyOf
      <4>3. KeyOf(d)' = KeyOf(d)
        BY <2>2
      <4>4. ClientCookie(d)' = ClientCookie(d)
        BY <3>2, <4>2, <4>3
      <4>5. ClientCookie(d)' # NoneR /\ map_socks'[ClientCookie(d)'] # NoneR
        BY <2>5 DEF KnownClient
      <4> QED BY <4>1, <4>4, <4>5 DEF KnownClient
    <3> QED BY <2>2, <3>1, <3>3 DEF LruInv
  <2>6. ASSUME NEW d \in Cookies
        PROVE  /\ map_socks'[d] # NoneR => sk'[d].at # "new" /\ map_socks'[d] = sk'[d].dst
               /\ Taken(d)' /\ sk'[d].at \in {"connecting", "sent"} => map_socks'[d] # NoneR
    <3>1. /\ map_socks' = map_socks /\ sk'[c].dst = sk[c].dst
          /\ sk[c].at = "sent" /\ sk'[c].at = "established"
      BY <1>3, SockOpsFacts
    <3>2. d # c => sk'[d] = sk[d]
      BY <1>3, SockOpsFacts, ZenonT(30)
    <3> QED BY <2>2, <3>1, <3>2 DEF LruInv
  <2>7. ASSUME NEW d \in Cookies, Taken(d)', Accepted(d)'
        PROVE  map_ports'[KeyOf(d)'] \in {d, NoneR}
    <3>1. CASE d = c
      BY <2>2, <2>3, <2>7, <3>1
    <3>2. CASE d # c
      <4>1. Taken(d) /\ Accepted(d) /\ KeyOf(d)' = KeyOf(d)
        BY <2>2, <2>7, <3>2
      <4>2. map_ports[KeyOf(d)] \in {d, NoneR}
        BY <4>1 DEF LruInv
      <4> QED BY <2>4, <3>2, <4>1, <4>2
    <3> QED BY <3>1, <3>2
  <2> QED BY <2>5, <2>6, <2>7 DEF LruInv
<1>4. ASSUME NEW c \in Cookies, tcp_close(c)
      PROVE  LruInv'
  <2>1. \A d \in Cookies : /\ Taken(d)' <=> Taken(d)
                           /\ Accepted(d)' <=> Accepted(d)
                           /\ KeyOf(d)' = KeyOf(d)
                           /\ KnownClient(d)' <=> KnownClient(d)
    BY <1>4, CloseFacts DEF Taken, Accepted, KeyOf, KnownClient, ClientCookie
  <2>2. /\ UNCHANGED <<map_socks, map_ports, fwd>>
        /\ sk[c].at # "new" /\ sk'[c].at = "closed" /\ sk'[c].dst = sk[c].dst
        /\ \A d \in Cookies \ {c} : sk'[d] = sk[d]
    BY <1>4, CloseFacts DEF Live
  <2>3. ASSUME NEW d \in Cookies
        PROVE  /\ map_socks'[d] # NoneR => sk'[d].at # "new" /\ map_socks'[d] = sk'[d].dst
               /\ Taken(d)' /\ sk'[d].at \in {"connecting", "sent"} => map_socks'[d] # NoneR
    <3>1. CASE d = c
      BY <2>2, <3>1 DEF LruInv
    <3>2. CASE d # c
      BY <2>1, <2>2, <3>2 DEF LruInv
    <3> QED BY <3>1, <3>2
  <2>4. ASSUME NEW d \in Cookies
        PROVE  /\ Taken(d)' /\ Accepted(d)' => map_ports'[KeyOf(d)'] \in {d, NoneR}
               /\ Taken(d)' /\ fwd'[d].at = "cookie" /\ KnownClient(d)' => fwd'[d].cookie = d
    BY <2>1, <2>2 DEF LruInv
  <2> QED BY <2>3, <2>4 DEF LruInv
<1>5. ASSUME NEW pid \in Programs, SetTlsMark(pid)
      PROVE  LruInv'
  BY <1>5 DEF SetTlsMark, LruInv, Taken, Accepted, KeyOf, KnownClient, ClientCookie
<1>6. ASSUME NEW c \in Cookies, Handles(c)
      PROVE  LruInv'
  <2>1. \A d \in Cookies : /\ Taken(d)' <=> Taken(d)
                           /\ Accepted(d)' => Accepted(d)
                           /\ KeyOf(d)' = KeyOf(d)
                           /\ KnownClient(d)' <=> KnownClient(d)
                           /\ d # c => fwd'[d] = fwd[d]
    BY <1>6, HandlesFacts DEF Taken, Accepted, KeyOf, KnownClient, ClientCookie
  <2>2. UNCHANGED <<sk, map_socks, map_ports>>
    BY <1>6, HandlesFacts
  <2>3. ASSUME Taken(c), fwd'[c].at = "cookie", KnownClient(c)
        PROVE  fwd'[c].cookie = c
    <3>1. getRawConnectionCookie(c)
      BY <1>6, <2>3, SMT DEF Handles, getTlsTerminationSafe, getOriginalDst, ForwarderDone,
                        RdrTypeOK, Accepts
    <3>2. fwd'[c].cookie = ClientCookie(c) /\ Accepted(c)
      BY <2>3, <3>1, ZenonT(30) DEF getRawConnectionCookie, RdrTypeOK, Accepts, Accepted
    <3> QED BY <2>3, <3>2 DEF LruInv, KnownClient, ClientCookie, KeyOf
  <2> QED BY <2>1, <2>2, <2>3, SMT DEF LruInv
<1> QED BY <1>1, <1>2, <1>3, <1>4, <1>5, <1>6, Steps DEF Handles

-----------------------------------------------------------------------------
\* Each step keeps NoLoop.
LEMMA NoLoopNext ==
    ASSUME RdrTypeOK, StageInv, PortInv, NoLoop, RdrNext PROVE NoLoop'
<1>1. CASE ConnectStep
  BY <1>1, ConnectStepFacts, SMT DEF NoLoop, Taken
<1>2. ASSUME NEW c \in Cookies, NEW port \in Ports, Connected(c, port)
      PROVE  NoLoop'
  BY <1>2, ConnectedFacts, SMT DEF NoLoop, Taken
<1>3. ASSUME NEW c \in Cookies, cg_sock_ops(c)
      PROVE  NoLoop'
  BY <1>3, SockOpsFacts, SMT DEF NoLoop, Taken
<1>4. ASSUME NEW c \in Cookies, tcp_close(c)
      PROVE  NoLoop'
  BY <1>4, CloseFacts, SMT DEF NoLoop, Taken
<1>5. ASSUME NEW pid \in Programs, SetTlsMark(pid)
      PROVE  NoLoop'
  BY <1>5 DEF SetTlsMark, NoLoop, Taken
<1>6. ASSUME NEW c \in Cookies, Handles(c)
      PROVE  NoLoop'
  BY <1>6, HandlesFacts DEF NoLoop, Taken
<1> QED BY <1>1, <1>2, <1>3, <1>4, <1>5, <1>6, Steps DEF Handles

\* Each step keeps TerminatedIsOk: the mark is that of the process of the socket, and
\* it is never taken back.
LEMMA TerminatedNext ==
    ASSUME RdrTypeOK, StageInv, PortInv, TerminatedIsOk, RdrNext PROVE TerminatedIsOk'
<1> USE RdrAssumption
<1>1. CASE ConnectStep
  <2>1. PICK c \in Cookies :
          /\ sk[c].at = "new"
          /\ \A d \in Cookies \ {c} : sk'[d] = sk[d]
          /\ \A d \in Cookies : fwd'[d].safe = fwd[d].safe
          /\ rdr' = rdr
    BY <1>1, ConnectStepFacts, SMT
  <2>2. ~fwd[c].safe
    BY <2>1 DEF StageInv
  <2> QED BY <2>1, <2>2 DEF TerminatedIsOk, Taken
<1>2. ASSUME NEW c \in Cookies, NEW port \in Ports, Connected(c, port)
      PROVE  TerminatedIsOk'
  BY <1>2, ConnectedFacts, SMT DEF TerminatedIsOk, Taken
<1>3. ASSUME NEW c \in Cookies, cg_sock_ops(c)
      PROVE  TerminatedIsOk'
  BY <1>3, SockOpsFacts, SMT DEF TerminatedIsOk, Taken
<1>4. ASSUME NEW c \in Cookies, tcp_close(c)
      PROVE  TerminatedIsOk'
  BY <1>4, CloseFacts, SMT DEF TerminatedIsOk, Taken
<1>5. ASSUME NEW pid \in Programs, SetTlsMark(pid)
      PROVE  TerminatedIsOk'
  <2>1. /\ rdr' = [rdr EXCEPT !.metas[pid].tls_ok = TRUE]
        /\ rdr.metas[pid] \in [strategy : Strategies, tls_ok : BOOLEAN]
        /\ UNCHANGED <<sk, fwd>>
    BY <1>5 DEF SetTlsMark, RdrTypeOK, Scopes
  <2>2. /\ rdr'.metas[pid].tls_ok
        /\ \A p \in Programs \ {pid} : rdr'.metas[p] = rdr.metas[p]
    BY <2>1 DEF RdrTypeOK, Scopes
  <2>3. ASSUME NEW c \in Cookies, Taken(c)', fwd'[c].safe
        PROVE  sk'[c].pid # qpid /\ rdr'.metas[sk'[c].pid].tls_ok
    <3>1. Taken(c) /\ fwd[c].safe /\ sk'[c].pid = sk[c].pid
      BY <2>1, <2>3 DEF Taken
    <3>2. sk[c].pid # qpid /\ rdr.metas[sk[c].pid].tls_ok
      BY <3>1 DEF TerminatedIsOk
    <3>3. sk[c].pid \in Programs
      BY <3>1, <3>2 DEF StageInv, RdrTypeOK, Sockets, Taken
    <3> QED BY <2>2, <3>1, <3>2, <3>3
  <2> QED BY <2>3 DEF TerminatedIsOk
<1>6. ASSUME NEW c \in Cookies, Handles(c)
      PROVE  TerminatedIsOk'
  <2>1. /\ \A d \in Cookies \ {c} : fwd'[d] = fwd[d]
        /\ UNCHANGED <<rdr, sk>>
    BY <1>6, HandlesFacts
  <2>2. ASSUME Taken(c), fwd'[c].safe
        PROVE  sk[c].pid # qpid /\ rdr.metas[sk[c].pid].tls_ok
    <3>1. CASE getTlsTerminationSafe(c)
      <4>1. TlsMark(c, addr_port_to_pid_map[KeyOf(c)])
        BY <2>2, <3>1 DEF getTlsTerminationSafe, RdrTypeOK, Accepts, KeyOf
      <4>2. addr_port_to_pid_map[KeyOf(c)] \in {sk[c].pid, NoneR}
        BY <3>1 DEF getTlsTerminationSafe, PortInv, Accepted
      <4> QED BY <4>1, <4>2 DEF TlsMark
    <3>2. CASE ~getTlsTerminationSafe(c)
      <4>1. fwd[c].safe
        BY <1>6, <2>2, <3>2, SMT DEF Handles, getRawConnectionCookie, getOriginalDst, ForwarderDone,
                                RdrTypeOK, Accepts
      <4> QED BY <2>2, <4>1 DEF TerminatedIsOk
    <3> QED BY <3>1, <3>2
  <2> QED BY <2>1, <2>2 DEF TerminatedIsOk, Taken
<1> QED BY <1>1, <1>2, <1>3, <1>4, <1>5, <1>6, Steps DEF Handles

\* Each step keeps DestinationKept.
LEMMA DestinationNext ==
    ASSUME RdrTypeOK, StageInv, PortInv, LruInv, DestinationKept, RdrNext
    PROVE  DestinationKept'
<1> USE RdrAssumption
<1>1. CASE ConnectStep
  <2>1. PICK c \in Cookies :
          /\ sk[c].at = "new"
          /\ \A d \in Cookies \ {c} : sk'[d] = sk[d]
          /\ \A d \in Cookies :
               /\ fwd'[d].cookie = fwd[d].cookie /\ fwd'[d].dst = fwd[d].dst
               /\ \/ fwd'[d].at = fwd[d].at
                  \/ fwd[d].at = "handled" /\ fwd'[d].at = "proxying"
    BY <1>1, ConnectStepFacts, SMT
  <2>2. fwd[c].at = "none"
    BY <2>1 DEF StageInv
  <2> QED BY <2>1, <2>2, SMT DEF DestinationKept, Taken
<1>2. ASSUME NEW c \in Cookies, NEW port \in Ports, Connected(c, port)
      PROVE  DestinationKept'
  BY <1>2, ConnectedFacts, SMT DEF DestinationKept, Taken
<1>3. ASSUME NEW c \in Cookies, cg_sock_ops(c)
      PROVE  DestinationKept'
  <2>1. fwd'[c].at \in {"none", "queued"}
    BY <1>3, SockOpsFacts DEF StageInv
  <2>2. \A d \in Cookies : /\ d # c => sk'[d] = sk[d] /\ fwd'[d] = fwd[d]
                           /\ sk'[d].peer = sk[d].peer /\ sk'[d].dst = sk[d].dst
    BY <1>3, SockOpsFacts, SMT
  <2> QED BY <2>1, <2>2, SMT DEF DestinationKept, Taken
<1>4. ASSUME NEW c \in Cookies, tcp_close(c)
      PROVE  DestinationKept'
  BY <1>4, CloseFacts, SMT DEF DestinationKept, Taken
<1>5. ASSUME NEW pid \in Programs, SetTlsMark(pid)
      PROVE  DestinationKept'
  BY <1>5 DEF SetTlsMark, DestinationKept, Taken
<1>6. ASSUME NEW c \in Cookies, Handles(c)
      PROVE  DestinationKept'
  <2>1. /\ \A d \in Cookies \ {c} : fwd'[d] = fwd[d]
        /\ sk' = sk
    BY <1>6, HandlesFacts
  <2>2. ASSUME Taken(c), fwd'[c].at \in {"handled", "proxying"}
        PROVE  fwd'[c].cookie = c /\ fwd'[c].dst = Unmapped(sk[c].dst)
    <3>1. getOriginalDst(c)
      BY <1>6, <2>2, SMT DEF Handles, getTlsTerminationSafe, getRawConnectionCookie, ForwarderDone,
                        RdrTypeOK, Accepts
    <3>2. KnownClient(c) /\ Accepted(c) /\ fwd[c].at = "cookie"
      BY <2>2, <3>1 DEF getOriginalDst, Accepted, RdrTypeOK, Accepts
    <3>3. ClientCookie(c) = c
      BY <2>2, <3>2 DEF LruInv, KnownClient, ClientCookie, KeyOf
    <3>4. map_socks[c] = sk[c].dst
      BY <3>2, <3>3 DEF KnownClient, LruInv
    <3>5. /\ fwd'[c].dst = Unmapped(map_socks[ClientCookie(c)])
          /\ fwd'[c].cookie = fwd[c].cookie
      BY <3>1, <3>2 DEF getOriginalDst, RdrTypeOK, Accepts
    <3> QED BY <2>2, <3>2, <3>3, <3>4, <3>5 DEF LruInv
  <2> QED BY <2>1, <2>2 DEF DestinationKept, Taken
<1> QED BY <1>1, <1>2, <1>3, <1>4, <1>5, <1>6, Steps DEF Handles

-----------------------------------------------------------------------------
LEMMA RdrInvInit == RdrInit => RdrInv
<1> SUFFICES ASSUME RdrInit PROVE RdrInv
  OBVIOUS
<1> USE RdrAssumption
<1>1. RdrTypeOK
  BY DEF RdrInit, RdrTypeOK, Sockets, Accepts, NoSk, NoFwd
<1>2. StageInv /\ NoLoop /\ DestinationKept /\ TerminatedIsOk
  BY DEF RdrInit, StageInv, NoLoop, Taken, DestinationKept, TerminatedIsOk, NoSk, NoFwd, qpid
<1>3. PortInv
  BY DEF RdrInit, PortInv, Live, Accepted, NoSk, NoFwd
<1>4. LruInv
  BY DEF RdrInit, LruInv, Taken, Accepted, NoSk, NoFwd
<1> QED BY <1>1, <1>2, <1>3, <1>4 DEF RdrInv

LEMMA RdrInvNext == RdrInv /\ [RdrNext]_rdrVars => RdrInv'
<1> SUFFICES ASSUME RdrInv, [RdrNext]_rdrVars PROVE RdrInv'
  OBVIOUS
<1>1. CASE RdrNext
  BY <1>1, TypeNext, StageNext, PortNext, LruNext, NoLoopNext, TerminatedNext, DestinationNext
     DEF RdrInv
<1>2. CASE UNCHANGED rdrVars
  BY <1>2 DEF rdrVars, RdrInv, RdrTypeOK, StageInv, PortInv, LruInv, NoLoop, TerminatedIsOk,
              DestinationKept, Live, Accepted, KeyOf, Taken, KnownClient, ClientCookie
<1> QED BY <1>1, <1>2

\* The inductive invariant holds in every reachable state.
THEOREM RdrInvariant == RdrSpec => []RdrInv
BY RdrInvInit, RdrInvNext, PTL DEF RdrSpec

\* The forwarder connects each redirected client to the destination it asked for, and
\* reports it under the client's cookie (getOriginalDst, getRawConnectionCookie): for
\* any number of sockets and ports and any capacity of map_ports and map_socks.
THEOREM RdrDestinationKept == RdrSpec => []DestinationKept
<1>1. RdrInv => DestinationKept
  BY DEF RdrInv
<1> QED BY <1>1, RdrInvariant, PTL

\* TLS is terminated only for a process that was seen to trust the certificate
\* (cg_sock_opt, SO_MARK).
THEOREM RdrTerminatedIsOk == RdrSpec => []TerminatedIsOk
<1>1. RdrInv => TerminatedIsOk
  BY DEF RdrInv
<1> QED BY <1>1, RdrInvariant, PTL

\* While a source port is in use, addr_port_to_pid_map leads to the process that uses
\* it (tcp_v4_connect, tcp_v6_connect, tcp_close).
THEOREM RdrSourceIsOwner == RdrSpec => []SourceIsOwner
<1>1. RdrInv => SourceIsOwner
  BY DEF RdrInv, PortInv, SourceIsOwner, Live, KeyOf
<1> QED BY <1>1, RdrInvariant, PTL

\* The forwarder's own connections are not redirected (cg_connect4, cg_connect6).
THEOREM RdrNoLoop == RdrSpec => []NoLoop
<1>1. RdrInv => NoLoop
  BY DEF RdrInv
<1> QED BY <1>1, RdrInvariant, PTL

-----------------------------------------------------------------------------
(***************************************************************************)
(* ServiceRegistry.Get for any number of goroutines: one service, one's    *)
(* own errors, and a Close that closes what was handed out.                *)
(*                                                                         *)
(* The argument: a goroutine that runs the function is the one in the map  *)
(* of SingleFlight, so there is at most one; what is registered while it   *)
(* creates a service is nothing, so a registered service is never          *)
(* replaced; and every result without an error is the registered service.  *)
(***************************************************************************)

Inside == {"create", "configure", "register"}
Leads == Inside \cup {"fn", "ran"}
Over == {"ran", "removed", "returned"}
Places == Leads \cup Over \cup {"idle", "do", "wait"}

FlightRecord ==
    [at : Places, waits : Getters \cup {NoneF}, val : Getters \cup {NoneF}, err : BOOLEAN, led : BOOLEAN]

RegistryTypeOK ==
    /\ flight \in Getters \cup {NoneF}
    /\ fl \in [Getters -> FlightRecord]
    /\ registered \in Getters \cup {NoneF}

\* What holds of a goroutine g whose record is r, when f is the call in the map
\* and s the service that is registered.
RecordInv(g, r, f, s) ==
    /\ r.at \in Leads => f = g
    /\ r.at \in Inside => s = NoneF
    /\ r.at \in {"configure", "register"} => r.val = g
    /\ r.at \in Over /\ ~r.err => r.val = s /\ s # NoneF
    /\ r.err => r.led /\ r.at \in Over
    /\ r.at = "wait" => r.waits \in Getters

RegistryInv == RegistryTypeOK /\ \A g \in Getters : RecordInv(g, fl[g], flight, registered)

RegistrySpec == RegistryInit /\ [][RegistryNext]_registryVars
-----------------------------------------------------------------------------
\* The steps of SingleFlight.Do keep the invariant.
LEMMA FlightStepInv ==
    ASSUME RegistryInv, NEW g \in Getters, FlightStep(g), UNCHANGED registered
    PROVE  RegistryInv'
  <1> USE FlightAssumption
  <1>0. fl[g] \in FlightRecord /\ RecordInv(g, fl[g], flight, registered)
    BY DEF RegistryInv, RegistryTypeOK
  <1>1. CASE Do(g)
    <2> DEFINE r == IF flight = NoneF THEN [fl[g] EXCEPT !.at = "fn"]
                                      ELSE [fl[g] EXCEPT !.at = "wait", !.waits = flight]
    <2>1. fl' = [fl EXCEPT ![g] = r]
      BY <1>1 DEF Do, GotoF, RegistryInv, RegistryTypeOK
    <2>2. r \in FlightRecord
      BY <1>0 DEF FlightRecord, Places, Leads, RegistryInv, RegistryTypeOK
    <2>3. flight' = IF flight = NoneF THEN g ELSE flight
      BY <1>1 DEF Do
    <2>4. RecordInv(g, r, flight', registered)
      BY <1>0, <1>1, <2>3 DEF RecordInv, FlightRecord, Leads, Inside, Over, Do, RegistryInv, RegistryTypeOK
    <2>5. ASSUME NEW h \in Getters \ {g} PROVE RecordInv(h, fl[h], flight', registered)
      BY <2>3 DEF RecordInv, RegistryInv
    <2> QED
      BY <2>1, <2>2, <2>3, <2>4, <2>5 DEF RegistryInv, RegistryTypeOK
  <1>2. CASE Wait(g)
    <2> DEFINE h == fl[g].waits
    <2>1. h \in Getters /\ fl[h] \in FlightRecord /\ RecordInv(h, fl[h], flight, registered)
      BY <1>0, <1>2 DEF Wait, RecordInv, RegistryInv, RegistryTypeOK
    <2>2. Shared(g, h) \in FlightRecord
      BY <1>0, <2>1 DEF Shared, FlightRecord, Places, Over
    <2>3. RecordInv(g, Shared(g, h), flight, registered)
      BY <1>0, <1>2, <2>1 DEF Wait, Returned, Shared, RecordInv, FlightRecord, Leads, Inside, Over
    <2>4. fl' = [fl EXCEPT ![g] = Shared(g, h)] /\ UNCHANGED flight
      BY <1>2 DEF Wait
    <2> QED
      BY <2>2, <2>3, <2>4 DEF RegistryInv, RegistryTypeOK
  <1>3. CASE Remove(g)
    <2> DEFINE r == [fl[g] EXCEPT !.at = "removed"]
    <2>1. fl' = [fl EXCEPT ![g] = r] /\ flight' = NoneF
      BY <1>3 DEF Remove, GotoF, RegistryInv, RegistryTypeOK
    <2>2. r \in FlightRecord
      BY <1>0 DEF FlightRecord, Places, Over
    <2>3. RecordInv(g, r, NoneF, registered)
      BY <1>0, <1>3 DEF Remove, RecordInv, FlightRecord, Leads, Inside, Over
    <2>4. flight = g
      BY <1>0, <1>3 DEF Remove, RecordInv, Leads
    <2>5. ASSUME NEW h \in Getters \ {g} PROVE RecordInv(h, fl[h], NoneF, registered)
      BY <2>4 DEF RecordInv, RegistryInv
    <2> QED
      BY <2>1, <2>2, <2>3, <2>5 DEF RegistryInv, RegistryTypeOK
  <1>4. CASE Release(g)
    <2> DEFINE r == [fl[g] EXCEPT !.at = "returned"]
    <2>1. fl' = [fl EXCEPT ![g] = r] /\ UNCHANGED flight
      BY <1>4 DEF Release, GotoF, RegistryInv, RegistryTypeOK
    <2>2. r \in FlightRecord
      BY <1>0 DEF FlightRecord, Places, Over
    <2>3. RecordInv(g, r, flight, registered)
      BY <1>0, <1>4 DEF Release, RecordInv, FlightRecord, Leads, Inside, Over
    <2> QED
      BY <2>1, <2>2, <2>3 DEF RegistryInv, RegistryTypeOK
  <1> QED
    BY <1>1, <1>2, <1>3, <1>4 DEF FlightStep

\* So do those of Get outside it.
LEMMA GetInv ==
    ASSUME RegistryInv, NEW g \in Getters, Get(g)
    PROVE  RegistryInv'
  <1> USE FlightAssumption
  <1>0. fl[g] \in FlightRecord /\ RecordInv(g, fl[g], flight, registered)
    BY DEF RegistryInv, RegistryTypeOK
  <1>1. ASSUME NEW r \in FlightRecord, fl' = [fl EXCEPT ![g] = r], UNCHANGED <<flight, registered>>,
               RecordInv(g, r, flight, registered)
        PROVE  RegistryInv'
    BY <1>1 DEF RegistryInv, RegistryTypeOK
  <1>2. CASE GetLoad(g)
    <2> DEFINE r == IF registered # NoneF
                      THEN [fl[g] EXCEPT !.at = "returned", !.val = registered]
                      ELSE [fl[g] EXCEPT !.at = "do"]
    <2>1. r \in FlightRecord
      BY <1>0 DEF FlightRecord, Places, Over, RegistryInv, RegistryTypeOK
    <2>2. fl' = [fl EXCEPT ![g] = r] /\ UNCHANGED <<flight, registered>>
      BY <1>2 DEF GetLoad, GotoF, RegistryInv, RegistryTypeOK
    <2>3. RecordInv(g, r, flight, registered)
      BY <1>0, <1>2 DEF GetLoad, RecordInv, FlightRecord, Leads, Inside, Over
    <2> QED
      BY <1>1, <2>1, <2>2, <2>3
  <1>3. CASE LoadAgain(g) /\ UNCHANGED <<flight, registered, closedSvc>>
    <2> DEFINE r == IF registered # NoneF
                      THEN [fl[g] EXCEPT !.at = "ran", !.val = registered, !.err = FALSE, !.led = TRUE]
                      ELSE [fl[g] EXCEPT !.at = "create"]
    <2>1. r \in FlightRecord
      BY <1>0 DEF FlightRecord, Places, Leads, Inside, RegistryInv, RegistryTypeOK
    <2>2. fl' = [fl EXCEPT ![g] = r] /\ UNCHANGED <<flight, registered>>
      BY <1>3 DEF LoadAgain, Ran, GotoF, RegistryInv, RegistryTypeOK
    <2>3. RecordInv(g, r, flight, registered)
      BY <1>0, <1>3 DEF LoadAgain, RecordInv, FlightRecord, Leads, Inside, Over
    <2> QED
      BY <1>1, <2>1, <2>2, <2>3
  <1> DEFINE failed == [fl[g] EXCEPT !.at = "ran", !.val = NoneF, !.err = TRUE, !.led = TRUE]
  <1>4. failed \in FlightRecord
    BY <1>0 DEF FlightRecord, Places, Leads
  <1>5. CASE Create(g) /\ UNCHANGED <<flight, registered, closedSvc>>
    <2> DEFINE r == [fl[g] EXCEPT !.at = "configure", !.val = g]
    <2>1. r \in FlightRecord
      BY <1>0 DEF FlightRecord, Places, Leads, Inside
    <2>2. (fl' = [fl EXCEPT ![g] = r] \/ fl' = [fl EXCEPT ![g] = failed]) /\ UNCHANGED <<flight, registered>>
      BY <1>5 DEF Create, Ran, RegistryInv, RegistryTypeOK
    <2>3. RecordInv(g, r, flight, registered)
      BY <1>0, <1>5 DEF Create, RecordInv, FlightRecord, Leads, Inside, Over
    <2>4. RecordInv(g, failed, flight, registered)
      BY <1>0, <1>5 DEF Create, RecordInv, FlightRecord, Leads, Inside, Over
    <2> QED
      BY <1>1, <1>4, <2>1, <2>2, <2>3, <2>4
  <1>6. CASE Configure(g) /\ UNCHANGED <<flight, registered, closedSvc>>
    <2> DEFINE r == [fl[g] EXCEPT !.at = "register"]
    <2>1. r \in FlightRecord
      BY <1>0 DEF FlightRecord, Places, Leads, Inside
    <2>2. (fl' = [fl EXCEPT ![g] = r] \/ fl' = [fl EXCEPT ![g] = failed]) /\ UNCHANGED <<flight, registered>>
      BY <1>6 DEF Configure, Ran, GotoF, RegistryInv, RegistryTypeOK
    <2>3. RecordInv(g, r, flight, registered)
      BY <1>0, <1>6 DEF Configure, RecordInv, FlightRecord, Leads, Inside, Over
    <2>4. RecordInv(g, failed, flight, registered)
      BY <1>0, <1>6 DEF Configure, RecordInv, FlightRecord, Leads, Inside, Over
    <2> QED
      BY <1>1, <1>4, <2>1, <2>2, <2>3, <2>4
  <1>7. CASE RegisterStep(g)
    <2> DEFINE r == [fl[g] EXCEPT !.at = "ran", !.val = fl[g].val, !.err = FALSE, !.led = TRUE]
    <2>1. r \in FlightRecord
      BY <1>0 DEF FlightRecord, Places, Leads
    <2>2. fl' = [fl EXCEPT ![g] = r] /\ flight' = flight /\ registered' = g
      BY <1>0, <1>7 DEF RegisterStep, Register, Ran, RecordInv, RegistryInv, RegistryTypeOK
    <2>3. RecordInv(g, r, flight, g)
      BY <1>0, <1>7 DEF RegisterStep, RecordInv, FlightRecord, Leads, Inside, Over
    <2>4. flight = g /\ registered = NoneF
      BY <1>0, <1>7 DEF RegisterStep, RecordInv, Leads, Inside
    <2>5. ASSUME NEW h \in Getters \ {g} PROVE RecordInv(h, fl[h], flight, g)
      BY <2>4 DEF RecordInv, RegistryInv, Leads
    <2> QED
      BY <2>1, <2>2, <2>3, <2>5 DEF RegistryInv, RegistryTypeOK
  <1>8. CASE FlightStep(g) /\ UNCHANGED <<registered, closedSvc>>
    BY <1>8, FlightStepInv
  <1> QED
    BY <1>2, <1>3, <1>5, <1>6, <1>7, <1>8 DEF Get

\* The invariant, for any number of goroutines that call Get.
THEOREM RegistryInvariant == RegistrySpec => []RegistryInv
  <1> USE FlightAssumption
  <1>1. RegistryInit => RegistryInv
    BY SMT DEF RegistryInit, FlightInit, NoFlight, RegistryInv, RegistryTypeOK, FlightRecord, Places,
           RecordInv, Leads, Inside, Over
  <1>2. RegistryInv /\ [RegistryNext]_registryVars => RegistryInv'
    <2> SUFFICES ASSUME RegistryInv, [RegistryNext]_registryVars PROVE RegistryInv'
      OBVIOUS
    <2>1. CASE CloseRegistry
      BY <2>1 DEF CloseRegistry, flightVars, RegistryInv, RegistryTypeOK
    <2>2. ASSUME NEW g \in Getters, Get(g) PROVE RegistryInv'
      BY <2>2, GetInv
    <2>3. CASE UNCHANGED registryVars
      BY <2>3 DEF registryVars, flightVars, RegistryInv, RegistryTypeOK
    <2> QED
      BY <2>1, <2>2, <2>3 DEF RegistryNext
  <1> QED
    BY <1>1, <1>2, PTL DEF RegistrySpec

\* Every Get that succeeds returns the same service (registry.go:108).
THEOREM RegistryOneService == RegistrySpec => []OneService
  <1>1. RegistryInv => OneService
    BY DEF RegistryInv, RecordInv, OneService, Returned, Over
  <1> QED
    BY <1>1, RegistryInvariant, PTL

\* A Get fails only when its own creation failed (singleflight.go:33).
THEOREM RegistryOwnError == RegistrySpec => []OwnError
  <1>1. RegistryInv => OwnError
    BY DEF RegistryInv, RecordInv, OwnError
  <1> QED
    BY <1>1, RegistryInvariant, PTL

\* What was handed out before Close is closed by it (registry.go:143).
THEOREM RegistryHandedOutIsClosed == RegistrySpec => HandedOutIsClosed
  <1>1. RegistryInv /\ [RegistryNext]_registryVars =>
          [CloseRegistry => \A g \in Getters :
             Returned(g) /\ ~fl[g].err => fl[g].val \in closedSvc']_registryVars
    BY DEF RegistryInv, RecordInv, CloseRegistry, Returned, Over
  <1> QED
    BY <1>1, RegistryInvariant, PTL DEF RegistrySpec, HandedOutIsClosed

-----------------------------------------------------------------------------
(***************************************************************************)
(* The scans of a container, for any number of goroutines and any maximum. *)
(* A goroutine that scans leads the flight, so there is one; it has found  *)
(* the container with an attempt left, which nobody takes meanwhile; and   *)
(* each scan that was begun is an attempt, has panicked or is still going. *)
(***************************************************************************)

ScanLeads == {"fn", "scan", "ran"}
ScanPlaces == ScanLeads \cup {"idle", "do", "wait", "removed", "returned"}

ScanRecord ==
    [at : ScanPlaces, waits : Getters \cup {NoneF}, val : {NoneF}, err : BOOLEAN, led : BOOLEAN]

ScansTypeOK ==
    /\ flight \in Getters \cup {NoneF}
    /\ fl \in [Getters -> ScanRecord]
    /\ container \in [scanned : BOOLEAN, attempts : Nat]
    /\ scans \in Nat

Scanning == {g \in Getters : fl[g].at = "scan"}

\* What holds of a goroutine g whose record is r, when f is the call in the map and
\* ct the container's entry.
ScanRecordInv(g, r, f, ct) ==
    /\ r.at \in ScanLeads => f = g
    /\ r.at = "scan" => ~ct.scanned /\ ct.attempts < maxContainerScanAttempts
    /\ r.at \in Over /\ ~r.err => ct.scanned \/ ct.attempts > 0
    /\ r.err => r.at \in Over
    /\ r.led => r.at \in Over
    /\ r.at = "wait" => r.waits \in Getters

ScansSpec == ScansInit /\ [][ScansNext]_scanVars

ScansInv ==
    /\ ScansTypeOK
    /\ \A g \in Getters : ScanRecordInv(g, fl[g], flight, container)
    /\ container.attempts <= maxContainerScanAttempts
    /\ IsFiniteSet(Panicked)
    /\ scans = container.attempts + Cardinality(Panicked) + (IF Scanning = {} THEN 0 ELSE 1)
-----------------------------------------------------------------------------
\* A step of one goroutine that neither begins nor ends a scan.
LEMMA ScanOneStep ==
    ASSUME ScansInv, NEW g \in Getters, NEW r \in ScanRecord, fl' = [fl EXCEPT ![g] = r],
           NEW f \in Getters \cup {NoneF}, flight' = f, UNCHANGED <<container, scans>>,
           \A h \in Getters \ {g} : ScanRecordInv(h, fl[h], f, container),
           ScanRecordInv(g, r, f, container),
           r.at # "scan", fl[g].at # "scan",
           (r.led /\ r.err) = (fl[g].led /\ fl[g].err)
    PROVE  ScansInv'
  <1>1. ScansTypeOK'
    BY DEF ScansInv, ScansTypeOK
  <1>2. \A h \in Getters : fl'[h] = IF h = g THEN r ELSE fl[h]
    BY DEF ScansInv, ScansTypeOK
  <1>3. Scanning' = Scanning
    BY <1>2 DEF Scanning
  <1>4. Panicked' = Panicked
    BY <1>2 DEF Panicked
  <1>5. \A h \in Getters : ScanRecordInv(h, fl'[h], f, container)
    BY <1>2
  <1> QED
    BY <1>1, <1>3, <1>4, <1>5 DEF ScansInv

\* The steps of SingleFlight.Do.
LEMMA ScanFlightStep ==
    ASSUME ScansInv, NEW g \in Getters, FlightStep(g), UNCHANGED <<container, scans>>
    PROVE  ScansInv'
  <1> USE FlightAssumption
  <1>0. /\ fl[g] \in ScanRecord /\ ScanRecordInv(g, fl[g], flight, container)
        /\ fl \in [Getters -> ScanRecord] /\ flight \in Getters \cup {NoneF}
        /\ \A h \in Getters : ScanRecordInv(h, fl[h], flight, container)
    BY DEF ScansInv, ScansTypeOK
  <1>1. CASE Do(g) /\ flight = NoneF
    <2> DEFINE r == [fl[g] EXCEPT !.at = "fn"]
    <2>1. fl' = [fl EXCEPT ![g] = r] /\ flight' = g /\ fl[g].at = "do"
      BY <1>0, <1>1 DEF Do, GotoF
    <2>2. r \in ScanRecord
      BY <1>0 DEF ScanRecord, ScanPlaces, ScanLeads
    <2>3. r.at = "fn" /\ r.err = fl[g].err /\ r.led = fl[g].led
      BY <1>0 DEF ScanRecord
    <2>4. ScanRecordInv(g, r, g, container)
      BY <1>0, <2>1, <2>3 DEF ScanRecordInv, ScanLeads, Over
    <2>5. \A h \in Getters \ {g} : ScanRecordInv(h, fl[h], g, container)
      BY <1>0, <1>1 DEF ScanRecordInv
    <2> HIDE DEF r
    <2> QED
      BY <2>1, <2>2, <2>3, <2>4, <2>5, ScanOneStep
  <1>2. CASE Do(g) /\ flight # NoneF
    <2> DEFINE r == [fl[g] EXCEPT !.at = "wait", !.waits = flight]
    <2>1. fl' = [fl EXCEPT ![g] = r] /\ flight' = flight /\ fl[g].at = "do"
      BY <1>0, <1>2 DEF Do
    <2>2. r \in ScanRecord
      BY <1>0 DEF ScanRecord, ScanPlaces
    <2>3. r.at = "wait" /\ r.err = fl[g].err /\ r.led = fl[g].led /\ r.waits = flight
      BY <1>0 DEF ScanRecord
    <2>4. ScanRecordInv(g, r, flight, container)
      BY <1>0, <1>2, <2>1, <2>3 DEF ScanRecordInv, ScanLeads, Over
    <2> HIDE DEF r
    <2> QED
      BY <1>0, <2>1, <2>2, <2>3, <2>4, ScanOneStep
  <1>3. CASE Wait(g)
    <2> DEFINE h == fl[g].waits
               r == Shared(g, h)
    <2>1. h \in Getters /\ fl[h] \in ScanRecord /\ ScanRecordInv(h, fl[h], flight, container)
      BY <1>0, <1>3 DEF Wait, ScanRecordInv
    <2>2. fl' = [fl EXCEPT ![g] = r] /\ flight' = flight /\ fl[g].at = "wait" /\ fl[h].at = "returned"
      BY <1>3 DEF Wait, Returned
    <2>3. r \in ScanRecord
      BY <1>0, <2>1 DEF Shared, ScanRecord, ScanPlaces
    <2>4. /\ r.err = fl[g].err /\ r.led = fl[g].led
          /\ r.at = IF fl[h].err THEN "do" ELSE "returned"
      BY <1>0, <2>1 DEF Shared, ScanRecord
    <2>5. ScanRecordInv(g, r, flight, container)
      BY <1>0, <2>1, <2>2, <2>4 DEF ScanRecordInv, ScanLeads, Over
    <2> HIDE DEF r
    <2> QED
      BY <1>0, <2>2, <2>3, <2>4, <2>5, ScanOneStep
  <1>4. CASE Remove(g)
    <2> DEFINE r == [fl[g] EXCEPT !.at = "removed"]
    <2>1. fl' = [fl EXCEPT ![g] = r] /\ flight' = NoneF /\ fl[g].at = "ran"
      BY <1>0, <1>4 DEF Remove, GotoF
    <2>2. r \in ScanRecord
      BY <1>0 DEF ScanRecord, ScanPlaces
    <2>3. r.at = "removed" /\ r.err = fl[g].err /\ r.led = fl[g].led
      BY <1>0 DEF ScanRecord
    <2>4. flight = g
      BY <1>0, <2>1 DEF ScanRecordInv, ScanLeads
    <2>5. ScanRecordInv(g, r, NoneF, container)
      BY <1>0, <2>1, <2>3 DEF ScanRecordInv, ScanLeads, Over
    <2>6. \A h \in Getters \ {g} : ScanRecordInv(h, fl[h], NoneF, container)
      BY <1>0, <2>4 DEF ScanRecordInv
    <2> HIDE DEF r
    <2> QED
      BY <2>1, <2>2, <2>3, <2>5, <2>6, ScanOneStep
  <1>5. CASE Release(g)
    <2> DEFINE r == [fl[g] EXCEPT !.at = "returned"]
    <2>1. fl' = [fl EXCEPT ![g] = r] /\ flight' = flight /\ fl[g].at = "removed"
      BY <1>0, <1>5 DEF Release, GotoF
    <2>2. r \in ScanRecord
      BY <1>0 DEF ScanRecord, ScanPlaces
    <2>3. r.at = "returned" /\ r.err = fl[g].err /\ r.led = fl[g].led
      BY <1>0 DEF ScanRecord
    <2>4. ScanRecordInv(g, r, flight, container)
      BY <1>0, <2>1, <2>3 DEF ScanRecordInv, ScanLeads, Over
    <2> HIDE DEF r
    <2> QED
      BY <1>0, <2>1, <2>2, <2>3, <2>4, ScanOneStep
  <1> QED
    BY <1>1, <1>2, <1>3, <1>4, <1>5 DEF FlightStep, Do

LEMMA ScanContainerStarted ==
    ASSUME ScansInv, NEW g \in Getters, containerStarted(g)
    PROVE  ScansInv'
  <1> USE ScansAssumption
  <1> DEFINE r == [fl[g] EXCEPT !.at = IF NoScanLeft THEN "returned" ELSE "do"]
  <1>0. /\ fl[g] \in ScanRecord /\ ScanRecordInv(g, fl[g], flight, container)
        /\ fl \in [Getters -> ScanRecord] /\ flight \in Getters \cup {NoneF}
        /\ \A h \in Getters : ScanRecordInv(h, fl[h], flight, container)
        /\ container.attempts \in Nat
    BY DEF ScansInv, ScansTypeOK
  <1>1. fl' = [fl EXCEPT ![g] = r] /\ fl[g].at = "idle" /\ flight' = flight /\ UNCHANGED <<container, scans>>
    BY <1>0 DEF containerStarted, GotoF
  <1>2. r \in ScanRecord
    BY <1>0 DEF ScanRecord, ScanPlaces
  <1>3. r.at = (IF NoScanLeft THEN "returned" ELSE "do") /\ r.err = fl[g].err /\ r.led = fl[g].led
    BY <1>0 DEF ScanRecord
  <1>4. NoScanLeft => container.scanned \/ container.attempts > 0
    BY <1>0, SMT DEF NoScanLeft
  <1>5. ScanRecordInv(g, r, flight, container)
    BY <1>0, <1>1, <1>3, <1>4, SMT DEF ScanRecordInv, ScanLeads, Over
  <1> HIDE DEF r
  <1> QED
    BY <1>0, <1>1, <1>2, <1>3, <1>5, ScanOneStep

LEMMA ScanCheckAgain ==
    ASSUME ScansInv, NEW g \in Getters, CheckAgain(g), UNCHANGED <<flight, container>>
    PROVE  ScansInv'
  <1> USE ScansAssumption
  <1>0. /\ fl[g] \in ScanRecord /\ ScanRecordInv(g, fl[g], flight, container)
        /\ fl \in [Getters -> ScanRecord] /\ flight \in Getters \cup {NoneF}
        /\ \A h \in Getters : fl[h] \in ScanRecord /\ ScanRecordInv(h, fl[h], flight, container)
        /\ container.attempts \in Nat
    BY DEF ScansInv, ScansTypeOK
  <1>1. fl[g].at = "fn" /\ flight = g /\ ~fl[g].led /\ ~fl[g].err
    BY <1>0 DEF CheckAgain, ScanRecordInv, ScanLeads, Over
  <1>2. CASE NoScanLeft /\ Ran(g, NoneF, FALSE) /\ UNCHANGED scans
    <2> DEFINE r == [fl[g] EXCEPT !.at = "ran", !.val = NoneF, !.err = FALSE, !.led = TRUE]
    <2>1. fl' = [fl EXCEPT ![g] = r]
      BY <1>0, <1>2 DEF Ran
    <2>2. r \in ScanRecord /\ r.at = "ran" /\ r.err = FALSE
      BY <1>0 DEF ScanRecord, ScanPlaces, ScanLeads
    <2>3. container.scanned \/ container.attempts > 0
      BY <1>0, <1>2, SMT DEF NoScanLeft
    <2>4. ScanRecordInv(g, r, flight, container)
      BY <1>1, <2>2, <2>3 DEF ScanRecordInv, ScanLeads, Over
    <2> HIDE DEF r
    <2> QED
      BY <1>0, <1>1, <1>2, <2>1, <2>2, <2>4, ScanOneStep
  <1>3. CASE ~NoScanLeft /\ scans' = scans + 1 /\ GotoF(g, "scan")
    <2> DEFINE r == [fl[g] EXCEPT !.at = "scan"]
    <2>1. fl' = [fl EXCEPT ![g] = r]
      BY <1>0, <1>3 DEF GotoF
    <2>2. r \in ScanRecord /\ r.at = "scan" /\ r.err = FALSE /\ r.led = FALSE
      BY <1>0, <1>1 DEF ScanRecord, ScanPlaces, ScanLeads
    <2>3. ScanRecordInv(g, r, flight, container)
      BY <1>0, <1>1, <1>3, <2>2, SMT DEF ScanRecordInv, ScanLeads, Over, NoScanLeft
    <2> HIDE DEF r
    <2>4. \A h \in Getters : fl'[h] = IF h = g THEN r ELSE fl[h]
      BY <1>0, <2>1
    <2>5. \A h \in Getters : ScanRecordInv(h, fl'[h], flight, container)
      BY <1>0, <2>3, <2>4
    <2>6. Scanning = {} /\ Scanning' = {g}
      BY <1>0, <1>1, <2>2, <2>4 DEF Scanning, ScanRecordInv, ScanLeads
    <2>7. Panicked' = Panicked
      BY <1>1, <2>2, <2>4 DEF Panicked
    <2>8. ScansTypeOK'
      BY <1>3, <2>1, <2>2, SMT DEF ScansInv, ScansTypeOK
    <2>9. Cardinality(Panicked) \in Nat
      BY FS_CardinalityType DEF ScansInv
    <2>10. scans' = container'.attempts + Cardinality(Panicked') + 1
      BY <1>0, <1>3, <2>6, <2>7, <2>9, SMT DEF ScansInv
    <2> QED
      BY <2>5, <2>6, <2>7, <2>8, <2>10 DEF ScansInv
  <1> QED
    BY <1>2, <1>3 DEF CheckAgain

\* What a scan leaves in the container's entry; p: the scan panicked.
EntryAfter(p) ==
    /\ container' \in [scanned : BOOLEAN, attempts : Nat]
    /\ container'.attempts = container.attempts + (IF p THEN 0 ELSE 1)

LEMMA ScanEndsAs ==
    ASSUME ScansInv, NEW g \in Getters, fl[g].at = "scan", UNCHANGED <<flight, scans>>,
           NEW p \in BOOLEAN, Ran(g, NoneF, p), EntryAfter(p)
    PROVE  ScansInv'
  <1> USE ScansAssumption DEF EntryAfter
  <1> DEFINE r == [fl[g] EXCEPT !.at = "ran", !.val = NoneF, !.err = p, !.led = TRUE]
  <1>0. /\ fl[g] \in ScanRecord /\ ScanRecordInv(g, fl[g], flight, container)
        /\ fl \in [Getters -> ScanRecord] /\ flight \in Getters \cup {NoneF}
        /\ \A h \in Getters : fl[h] \in ScanRecord /\ ScanRecordInv(h, fl[h], flight, container)
        /\ container \in [scanned : BOOLEAN, attempts : Nat] /\ scans \in Nat
    BY DEF ScansInv, ScansTypeOK
  <1>1. /\ flight = g /\ ~fl[g].led /\ ~fl[g].err
        /\ ~container.scanned /\ container.attempts < maxContainerScanAttempts
    BY <1>0 DEF ScanRecordInv, ScanLeads, Over
  <1>2. fl' = [fl EXCEPT ![g] = r]
    BY <1>0 DEF Ran
  <1>3. r \in ScanRecord /\ r.at = "ran" /\ r.err = p /\ r.led = TRUE
    BY <1>0 DEF ScanRecord, ScanPlaces, ScanLeads
  <1> HIDE DEF r
  <1>4. \A h \in Getters : fl'[h] = IF h = g THEN r ELSE fl[h]
    BY <1>0, <1>2
  <1>5. ScanRecordInv(g, r, flight, container')
    BY <1>0, <1>1, <1>3, SMT DEF ScanRecordInv, ScanLeads, Over
  <1>6. \A h \in Getters \ {g} : ScanRecordInv(h, fl[h], flight, container')
    BY <1>0, <1>1, SMT DEF ScanRecordInv, ScanLeads, Over
  <1>7. \A h \in Getters : ScanRecordInv(h, fl'[h], flight, container')
    BY <1>4, <1>5, <1>6
  <1>8. ScansTypeOK'
    BY <1>0, <1>2, <1>3 DEF ScansTypeOK
  <1>9. g \in Scanning /\ Scanning' = {}
    BY <1>0, <1>1, <1>3, <1>4 DEF Scanning, ScanRecordInv, ScanLeads
  <1>10. g \notin Panicked /\ Panicked' = IF p THEN Panicked \cup {g} ELSE Panicked
    BY <1>1, <1>3, <1>4 DEF Panicked
  <1>11. IsFiniteSet(Panicked) /\ Cardinality(Panicked) \in Nat
    BY FS_CardinalityType DEF ScansInv
  <1>12. IsFiniteSet(Panicked') /\ Cardinality(Panicked') = Cardinality(Panicked) + (IF p THEN 1 ELSE 0)
    <2>1. /\ IsFiniteSet(Panicked \cup {g})
          /\ Cardinality(Panicked \cup {g}) = Cardinality(Panicked) + 1
      BY <1>10, <1>11, FS_AddElement
    <2> QED
      BY <1>10, <1>11, <2>1, SMT
  <1>13. scans' = container'.attempts + Cardinality(Panicked')
    BY <1>0, <1>9, <1>11, <1>12, SMT DEF ScansInv
  <1>14. container'.attempts <= maxContainerScanAttempts
    BY <1>0, <1>1, SMT
  <1> QED
    BY <1>0, <1>7, <1>8, <1>9, <1>12, <1>13, <1>14, SMT DEF ScansInv

\* Inductive invariant of the scans of a container (containerStarted under
\* SingleFlight.Do, manager.go): see above.
THEOREM ScansInvariant == ScansSpec => []ScansInv
  <1>1. ScansInit => ScansInv
    <2> SUFFICES ASSUME ScansInit PROVE ScansInv
      OBVIOUS
    <2>1. Panicked = {} /\ Scanning = {}
      BY DEF ScansInit, FlightInit, NoFlight, Panicked, Scanning
    <2>2. ScansTypeOK
      BY DEF ScansTypeOK, ScansInit, FlightInit, NoFlight, ScanRecord, ScanPlaces
    <2>3. \A g \in Getters : ScanRecordInv(g, fl[g], flight, container)
      BY DEF ScansInit, FlightInit, NoFlight, ScanRecordInv, ScanLeads, Over
    <2> QED
      BY <2>1, <2>2, <2>3, FS_EmptySet, ScansAssumption, SMT DEF ScansInv, ScansInit
  <1>2. ScansInv /\ [ScansNext]_scanVars => ScansInv'
    <2> SUFFICES ASSUME ScansInv, [ScansNext]_scanVars PROVE ScansInv'
      OBVIOUS
    <2>1. ASSUME NEW g \in Getters, containerStarted(g) PROVE ScansInv'
      BY <2>1, ScanContainerStarted
    <2>2. ASSUME NEW g \in Getters, CheckAgain(g), UNCHANGED <<flight, container>> PROVE ScansInv'
      BY <2>2, ScanCheckAgain
    <2>3. ASSUME NEW g \in Getters, ScanEnds(g), UNCHANGED <<flight, scans>> PROVE ScansInv'
      <3>0. container \in [scanned : BOOLEAN, attempts : Nat]
        BY DEF ScansInv, ScansTypeOK
      <3>4. ASSUME NEW p \in BOOLEAN, Ran(g, NoneF, p), EntryAfter(p) PROVE ScansInv'
        BY <2>3, <3>4, ScanEndsAs DEF ScanEnds
      <3>1. CASE /\ container' = [scanned |-> TRUE, attempts |-> container.attempts + 1]
                 /\ Ran(g, NoneF, FALSE)
        <4>1. EntryAfter(FALSE)
          BY <3>0, <3>1, SMT DEF EntryAfter
        <4> QED
          BY <3>1, <3>4, <4>1
      <3>2. CASE container' = Failed /\ Ran(g, NoneF, FALSE)
        <4>1. EntryAfter(FALSE)
          BY <3>0, <3>2, SMT DEF EntryAfter, Failed
        <4> QED
          BY <3>2, <3>4, <4>1
      <3>3. CASE UNCHANGED container /\ Ran(g, NoneF, TRUE)
        <4>1. EntryAfter(TRUE)
          BY <3>0, <3>3, SMT DEF EntryAfter
        <4> QED
          BY <3>3, <3>4, <4>1
      <3> QED
        BY <2>3, <3>1, <3>2, <3>3 DEF ScanEnds
    <2>4. ASSUME NEW g \in Getters, FlightStep(g), UNCHANGED <<container, scans>> PROVE ScansInv'
      BY <2>4, ScanFlightStep
    <2>5. CASE UNCHANGED scanVars
      BY <2>5 DEF scanVars, flightVars, ScansInv, ScansTypeOK, Panicked, Scanning
    <2> QED
      BY <2>1, <2>2, <2>3, <2>4, <2>5 DEF ScansNext, ContainerStep
  <1> QED
    BY <1>1, <1>2, PTL DEF ScansSpec

\* A container is scanned by one goroutine at a time and at most as often as the
\* maximum, scans that panic apart, and nobody returns before it was tried
\* (containerStarted), for any number of processes and any maximum.
THEOREM ScansAreBounded == ScansSpec => []ScansBounded
  <1>1. ScansInv => ScansBounded
    <2> SUFFICES ASSUME ScansInv PROVE ScansBounded
      OBVIOUS
    <2>1. Scanning \subseteq {flight}
      BY DEF ScansInv, Scanning, ScanRecordInv, ScanLeads
    <2>2. Scanning = {} \/ Scanning = {flight}
      BY <2>1
    <2>3. Cardinality(Scanning) <= 1
      <3>1. Cardinality({}) = 0 /\ Cardinality({flight}) = 1
        BY FS_EmptySet, FS_Singleton
      <3> QED
        BY <2>2, <3>1, SMT
    <2>4. Cardinality(Panicked) \in Nat
      BY FS_CardinalityType DEF ScansInv
    <2>5. Scanning # {} => container.attempts < maxContainerScanAttempts
      BY DEF ScansInv, Scanning, ScanRecordInv
    <2>6. scans <= maxContainerScanAttempts + Cardinality(Panicked)
      BY <2>4, <2>5, ScansAssumption, SMT DEF ScansInv, ScansTypeOK
    <2>7. \A g \in Getters : Returned(g) /\ ~fl[g].err => container.scanned \/ container.attempts > 0
      BY DEF ScansInv, ScanRecordInv, Returned, Over
    <2> QED
      BY <2>3, <2>6, <2>7 DEF ScansBounded, Scanning
  <1> QED
    BY <1>1, ScansInvariant, PTL

-----------------------------------------------------------------------------
(***************************************************************************)
(* CertStore for any number of handshakes, names and any size of the       *)
(* certificates.                                                           *)
(*                                                                         *)
(* The argument: the names that are signed are among those of the          *)
(* template, so signing again takes no name away; and the counter is the   *)
(* number of names that are signed in the current certificate, also when a *)
(* name that cannot be signed has stayed in its template.                  *)
(***************************************************************************)

CertRecord == [template : Seq(Domains), signed : Seq(Domains)]
ShakeRecord ==
    [at : {"load", "lock", "returned", "failed"}, domain : Domains, cert : Nat \cup {NoneC}]

CertTypeOK ==
    /\ certs \in Seq(CertRecord)
    /\ counter \in Nat
    /\ domainToCert \in [Domains -> Nat \cup {NoneC}]
    /\ shake \in [Handshakes -> ShakeRecord]

Clean(names) == NamesOf(names) \cap Unsignable = {}

CertOK(cert) ==
    Len(cert.signed) <= sanCertMaxSize /\ NamesOf(cert.signed) \subseteq NamesOf(cert.template)

\* What holds of the current certificate when the counter is c.
CurrentOK(cert, c) ==
    c = Len(cert.signed) /\ (Clean(cert.template) => cert.signed = cert.template)

\* The certificate n of store names d.
Covers(store, n, d) == n \in 1..Len(store) /\ d \in NamesOf(store[n].signed)

CertInv ==
    /\ CertTypeOK
    /\ \A n \in 1..Len(certs) : CertOK(certs[n])
    /\ certs # <<>> => CurrentOK(certs[Len(certs)], counter)
    /\ \A d \in Domains : domainToCert[d] # NoneC => Covers(certs, domainToCert[d], d)
    /\ \A h \in Handshakes : shake[h].at = "returned" => Covers(certs, shake[h].cert, shake[h].domain)

CertSpec == CertInit /\ [][CertNext]_certVars
-----------------------------------------------------------------------------
LEMMA NamesOfAppend ==
    ASSUME NEW names \in Seq(Domains), NEW d \in Domains
    PROVE  NamesOf(Append(names, d)) = NamesOf(names) \cup {d}
  <1>1. Len(Append(names, d)) = Len(names) + 1 /\ Len(names) \in Nat
    BY SMT
  <1>2. \A i \in 1..Len(names) : Append(names, d)[i] = names[i]
    BY SMT
  <1>3. Append(names, d)[Len(names) + 1] = d
    BY SMT
  <1>4. \A i \in 1..(Len(names) + 1) : i \in 1..Len(names) \/ i = Len(names) + 1
    BY <1>1, SMT
  <1>5. 1..Len(names) \subseteq 1..(Len(names) + 1) /\ Len(names) + 1 \in 1..(Len(names) + 1)
    BY <1>1, SMT
  <1> QED
    BY <1>1, <1>2, <1>3, <1>4, <1>5 DEF NamesOf

\* AddDomain keeps what a certificate satisfies, as long as it is not full, and
\* takes no name away.
LEMMA AddDomainOK ==
    ASSUME NEW cert \in CertRecord, NEW d \in Domains, NEW c \in Nat,
           CertOK(cert), CurrentOK(cert, c), c < sanCertMaxSize
    PROVE  LET new == AddDomain(cert, d)
               ok == Clean(new.template)
           IN  /\ new \in CertRecord
               /\ CertOK(new)
               /\ CurrentOK(new, c + (IF ok THEN 1 ELSE 0))
               /\ NamesOf(cert.signed) \subseteq NamesOf(new.signed)
               /\ ok => d \in NamesOf(new.signed)
  <1> DEFINE t == Append(cert.template, d)
             new == AddDomain(cert, d)
  <1>1. cert.template \in Seq(Domains) /\ cert.signed \in Seq(Domains) /\ t \in Seq(Domains)
    BY SMT DEF CertRecord
  <1>2. NamesOf(t) = NamesOf(cert.template) \cup {d}
    BY <1>1, NamesOfAppend
  <1>3. new = [template |-> t, signed |-> IF Clean(t) THEN t ELSE cert.signed]
    BY DEF AddDomain, Clean
  <1>4. new.template = t /\ new.signed = IF Clean(t) THEN t ELSE cert.signed
    BY <1>3, SMT
  <1>5. new \in CertRecord
    BY <1>1, <1>3, SMT DEF CertRecord
  <1>6. CASE Clean(t)
    <2>1. Clean(cert.template)
      BY <1>2, <1>6 DEF Clean
    <2>2. cert.signed = cert.template
      BY <2>1 DEF CurrentOK
    <2>3. Len(t) = c + 1
      BY <1>1, <2>2, SMT DEF CurrentOK
    <2>4. CertOK(new) /\ CurrentOK(new, c + 1)
      BY <1>4, <1>6, <2>3, CertAssumption, SMT DEF CertOK, CurrentOK
    <2> QED
      BY <1>2, <1>4, <1>5, <1>6, <2>2, <2>4
  <1>7. CASE ~Clean(t)
    <2>1. CertOK(new) /\ CurrentOK(new, c + 0)
      BY <1>2, <1>4, <1>7, SMT DEF CertOK, CurrentOK
    <2> QED
      BY <1>4, <1>5, <1>7, <2>1
  <1> QED
    BY <1>6, <1>7

\* The part of GetCert under the mutex keeps the invariant.
LEMMA GetCertLockedInv ==
    ASSUME CertInv, NEW h \in Handshakes, GetCertLocked(h)
    PROVE  CertInv'
  <1> USE CertAssumption
  <1> DEFINE d == shake[h].domain
             before == IF Full THEN Append(certs, NewSANCert) ELSE certs
             n == Len(before)
             c == IF Full THEN 0 ELSE counter
             cert == AddDomain(before[n], d)
             ok == Clean(cert.template)
  <1>0. d \in Domains /\ shake[h] \in ShakeRecord
    BY DEF CertInv, CertTypeOK, ShakeRecord
  <1>1. CASE /\ shake' = [shake EXCEPT ![h].at = "failed"]
             /\ UNCHANGED <<certs, counter, domainToCert>>
    <2>1. [shake[h] EXCEPT !.at = "failed"] \in ShakeRecord
      BY <1>0 DEF ShakeRecord
    <2>2. shake' = [shake EXCEPT ![h] = [shake[h] EXCEPT !.at = "failed"]]
      BY <1>1 DEF CertInv, CertTypeOK
    <2>3. shake' \in [Handshakes -> ShakeRecord]
      BY <2>1, <2>2 DEF CertInv, CertTypeOK
    <2>4. \A k \in Handshakes : shake'[k].at = "returned" => shake'[k] = shake[k]
      BY <2>1, <2>2 DEF CertInv, CertTypeOK, ShakeRecord
    <2> QED
      BY <1>1, <2>3, <2>4 DEF CertInv, CertTypeOK, Covers
  <1>2. CASE /\ certs' = [before EXCEPT ![n] = cert]
             /\ counter' = c + (IF ok THEN 1 ELSE 0)
             /\ domainToCert' = IF ok THEN [domainToCert EXCEPT ![d] = n] ELSE domainToCert
             /\ shake' = [shake EXCEPT ![h].at = IF ok THEN "returned" ELSE "failed",
                                       ![h].cert = IF ok THEN n ELSE NoneC]
    <2>1. NewSANCert \in CertRecord /\ NewSANCert.signed = <<>> /\ NewSANCert.template = <<>>
      BY SMT DEF NewSANCert, CertRecord
    <2>2. before \in Seq(CertRecord) /\ n \in Nat /\ n >= 1 /\ Len(certs) \in Nat /\ Len(certs) <= n
      BY <2>1, SMT DEF CertInv, CertTypeOK, Full
    <2>3. \A m \in 1..Len(certs) : before[m] = certs[m]
      BY <2>1, SMT DEF CertInv, CertTypeOK
    <2>4. c \in Nat /\ c < sanCertMaxSize /\ CurrentOK(before[n], c)
      <3>1. CASE Full
        <4>1. before[n] = NewSANCert
          BY <2>1, <3>1, SMT DEF CertInv, CertTypeOK
        <4> QED
          BY <2>1, <3>1, <4>1, SMT DEF CurrentOK
      <3>2. CASE ~Full
        <4>1. certs # <<>> /\ counter # sanCertMaxSize /\ before = certs
          BY <3>2 DEF Full
        <4>2. CurrentOK(certs[n], counter) /\ CertOK(certs[n])
          BY <2>2, <4>1, SMT DEF CertInv
        <4>3. counter \in Nat /\ counter <= sanCertMaxSize
          BY <4>2 DEF CurrentOK, CertOK, CertInv, CertTypeOK
        <4> QED
          BY <3>2, <4>1, <4>2, <4>3, SMT
      <3> QED
        BY <3>1, <3>2
    <2>5. \A m \in 1..n : CertOK(before[m])
      <3>1. CertOK(NewSANCert)
        BY <2>1, SMT DEF CertOK, NamesOf
      <3> QED
        BY <2>1, <3>1, SMT DEF CertInv, CertTypeOK
    <2>6. before[n] \in CertRecord /\ CertOK(before[n])
      BY <2>2, <2>5, SMT
    <2>7. /\ cert \in CertRecord /\ CertOK(cert)
          /\ CurrentOK(cert, c + (IF ok THEN 1 ELSE 0))
          /\ NamesOf(before[n].signed) \subseteq NamesOf(cert.signed)
          /\ ok => d \in NamesOf(cert.signed)
      BY <1>0, <2>4, <2>6, AddDomainOK
    <2> HIDE DEF before, cert, c, ok
    <2> DEFINE nn == n
    <2>8. /\ certs' \in Seq(CertRecord) /\ Len(certs') = nn /\ certs'[nn] = cert
          /\ \A m \in 1..nn : m # nn => certs'[m] = before[m]
      BY <1>2, <2>2, <2>7, SMT
    <2>9. counter' \in Nat
      BY <1>2, <2>4, SMT
    <2>10. domainToCert' \in [Domains -> Nat \cup {NoneC}]
      BY <1>0, <1>2, <2>2 DEF CertInv, CertTypeOK
    <2> DEFINE s == [shake[h] EXCEPT !.at = IF ok THEN "returned" ELSE "failed",
                                     !.cert = IF ok THEN nn ELSE NoneC]
    <2>11. s \in ShakeRecord /\ s.domain = d /\ (s.at = "returned" => ok /\ s.cert = nn)
      BY <1>0, <2>2 DEF ShakeRecord
    <2>12. shake' = [shake EXCEPT ![h] = s]
      BY <1>2 DEF CertInv, CertTypeOK
    <2>13. shake' \in [Handshakes -> ShakeRecord]
      BY <2>11, <2>12 DEF CertInv, CertTypeOK
    <2>14. \A m, e : Covers(certs, m, e) => Covers(certs', m, e)
      BY <2>2, <2>3, <2>7, <2>8, SMT DEF Covers
    <2>15. ok => Covers(certs', nn, d)
      BY <2>2, <2>7, <2>8, SMT DEF Covers
    <2>16. \A m \in 1..Len(certs') : CertOK(certs'[m])
      BY <2>5, <2>7, <2>8
    <2>17. CurrentOK(certs'[Len(certs')], counter')
      BY <1>2, <2>7, <2>8
    <2>18. \A e \in Domains : domainToCert'[e] # NoneC => Covers(certs', domainToCert'[e], e)
      BY <1>0, <1>2, <2>14, <2>15 DEF CertInv, CertTypeOK
    <2>19. \A k \in Handshakes : shake'[k].at = "returned" => Covers(certs', shake'[k].cert, shake'[k].domain)
      BY <2>11, <2>12, <2>14, <2>15 DEF CertInv, CertTypeOK
    <2> QED
      BY <2>8, <2>9, <2>10, <2>13, <2>16, <2>17, <2>18, <2>19 DEF CertInv, CertTypeOK
  <1> QED
    BY <1>1, <1>2 DEF GetCertLocked, Clean

\* The invariant of the store, for any number of handshakes.
THEOREM CertInvariant == CertSpec => []CertInv
  <1> USE CertAssumption
  <1>1. CertInit => CertInv
    BY SMT DEF CertInit, CertInv, CertTypeOK, CertRecord, ShakeRecord
  <1>2. CertInv /\ [CertNext]_certVars => CertInv'
    <2> SUFFICES ASSUME CertInv, [CertNext]_certVars PROVE CertInv'
      OBVIOUS
    <2>1. ASSUME NEW h \in Handshakes, GetCertLoad(h) PROVE CertInv'
      <3> DEFINE n == domainToCert[shake[h].domain]
                 r == [shake[h] EXCEPT !.at = IF n = NoneC THEN "lock" ELSE "returned", !.cert = n]
      <3>1. shake[h] \in ShakeRecord /\ shake[h].domain \in Domains /\ n \in Nat \cup {NoneC}
        BY DEF CertInv, CertTypeOK, ShakeRecord
      <3>2. r \in ShakeRecord /\ r.domain = shake[h].domain /\ r.cert = n
        BY <3>1 DEF ShakeRecord
      <3>3. r.at = "returned" => n # NoneC
        BY <3>1 DEF ShakeRecord
      <3>4. shake' = [shake EXCEPT ![h] = r] /\ UNCHANGED <<certs, counter, domainToCert>>
        BY <2>1 DEF GetCertLoad, CertInv, CertTypeOK
      <3>5. r.at = "returned" => Covers(certs, r.cert, r.domain)
        BY <3>1, <3>2, <3>3 DEF CertInv
      <3> QED
        BY <3>2, <3>4, <3>5 DEF CertInv, CertTypeOK, Covers
    <2>2. ASSUME NEW h \in Handshakes, GetCertLocked(h) PROVE CertInv'
      BY <2>2, GetCertLockedInv
    <2>3. CASE UNCHANGED certVars
      BY <2>3 DEF certVars, CertInv, CertTypeOK, Covers
    <2> QED
      BY <2>1, <2>2, <2>3 DEF CertNext
  <1> QED
    BY <1>1, <1>2, PTL DEF CertSpec

\* A certificate that GetCert has returned names the domain it was asked for, and
\* goes on doing so (cert.go:83).
THEOREM CertStoreCovers == CertSpec => []CertCovers
  <1>1. CertInv => CertCovers
    BY DEF CertInv, CertCovers, Covers
  <1> QED
    BY <1>1, CertInvariant, PTL

\* No certificate is signed for more names than the maximum (cert.go:183).
THEOREM CertStoreBounded == CertSpec => []CertBounded
  <1>1. CertInv => CertBounded
    BY DEF CertInv, CertBounded, CertOK
  <1> QED
    BY <1>1, CertInvariant, PTL

-----------------------------------------------------------------------------
(***************************************************************************)
(* The cache with expirations, for any goroutines and operations.  What is *)
(* being collected had expired when the expirations were copied, and as    *)
(* long as no operation crosses the collection nothing renews it.          *)
(***************************************************************************)

CacheInv ==
    /\ gc \in {"idle", "copied", "deleted"}
    /\ crossed \in BOOLEAN
    /\ gc # "idle" /\ ~crossed => expiration = "old"

CacheSpec == CacheInit /\ [][CacheNext]_cacheVars

\* A key under collection has expired unless a map was written meanwhile (GCExpired).
THEOREM CacheInvariant == CacheSpec => []CacheInv
  <1>1. CacheInit => CacheInv
    BY DEF CacheInit, CacheInv
  <1>2. CacheInv /\ [CacheNext]_cacheVars => CacheInv'
    <2> SUFFICES ASSUME CacheInv, [CacheNext]_cacheVars PROVE CacheInv'
      OBVIOUS
    <2>1. CASE Age
      BY <2>1 DEF Age, CacheInv
    <2>2. CASE GCExpired
      BY <2>2 DEF GCExpired, CopyExpirations, DeleteEntry, DeleteExpiration, Expired, CacheInv
    <2>3. ASSUME NEW u \in CacheUsers, UserStep(u) PROVE CacheInv'
      BY <2>3 DEF UserStep, LoadEntry, BeginStore, ExpireRecord, StoreEntry, StoreExpiration, Writes,
                  CacheInv
    <2>4. CASE UNCHANGED cacheVars
      BY <2>4 DEF cacheVars, CacheInv
    <2> QED
      BY <2>1, <2>2, <2>3, <2>4 DEF CacheNext
  <1> QED
    BY <1>1, <1>2, PTL DEF CacheSpec

\* An entry whose expiration lies ahead is not removed, unless an operation has
\* crossed a collection of its key (Store, Renew, GCExpired).
THEOREM CacheFreshStays == CacheSpec => FreshStays
  <1>1. CacheInv /\ [CacheNext]_cacheVars
          => [entry /\ expiration = "fresh" /\ ~crossed => entry']_cacheVars
    <2> SUFFICES ASSUME CacheInv, CacheNext, entry, expiration = "fresh", ~crossed PROVE entry'
      BY DEF cacheVars
    <2>1. CASE Age
      BY <2>1 DEF Age
    <2>2. CASE GCExpired
      BY <2>2 DEF GCExpired, CopyExpirations, DeleteEntry, DeleteExpiration, CacheInv
    <2>3. ASSUME NEW u \in CacheUsers, UserStep(u) PROVE entry'
      BY <2>3 DEF UserStep, LoadEntry, BeginStore, ExpireRecord, StoreEntry, StoreExpiration
    <2> QED
      BY <2>1, <2>2, <2>3 DEF CacheNext
  <1> QED
    BY <1>1, CacheInvariant, PTL DEF CacheSpec, FreshStays

-----------------------------------------------------------------------------
(***************************************************************************)
(* The reports of a connection, whatever the deadlines.  Whoever is        *)
(* between TryLock and the unlock holds the mutex, so there is one; it     *)
(* numbers its report with the reports that were saved, of which it alone  *)
(* has not counted its own; and once a report was finalized the close      *)
(* event is there, so every read that comes later finds it.                *)
(***************************************************************************)

Reporting == {"build", "bytes", "save", "count"}
ReporterPlaces == Reporting \cup {"start", "first", "next", "recurring", "exit", "open", "lock", "reported"}
ReportRecord == [part : Nat, finalized : BOOLEAN, bytes : BOOLEAN]

ReporterTypeOK ==
    /\ domain \in BOOLEAN /\ closeEvent \in BOOLEAN
    /\ pc \in [Callers -> ReporterPlaces]
    /\ mu \in Callers \cup {"free"}
    /\ built \in [Callers -> ReportRecord]
    /\ reportCount \in Nat
    /\ saved \in Seq(ReportRecord)

\* The closed connection has been reported.
Finalized == \E n \in DOMAIN saved : saved[n].finalized

\* What holds of a caller inside report.
InsideInv(c) ==
    /\ pc[c] \in Reporting => mu = c
    /\ pc[c] \in {"bytes", "save"} =>
         /\ Finalized => built[c].finalized
         /\ built[c].finalized => closeEvent
    /\ pc[c] = "save" =>
         /\ built[c].part = reportCount
         /\ built[c].finalized => built[c].bytes

ReporterInv ==
    /\ ReporterTypeOK
    /\ \A c \in Callers : InsideInv(c)
    /\ Finalized => closeEvent
    /\ Len(saved) = reportCount + (IF \E c \in Callers : pc[c] = "count" THEN 1 ELSE 0)
    /\ ReportsInOrder
-----------------------------------------------------------------------------
\* A step that saves and counts nothing, by which nobody gets into report.
LEMMA ReportOutside ==
    ASSUME ReporterInv, NEW c \in Callers, NEW at \in ReporterPlaces \ Reporting, pc[c] \notin Reporting,
           pc' = [pc EXCEPT ![c] = at] \/ pc' = pc, domain' \in BOOLEAN, closeEvent' \in BOOLEAN,
           closeEvent => closeEvent', UNCHANGED <<mu, built, reportCount, saved>>
    PROVE  ReporterInv'
  <1>1. ReporterTypeOK'
    BY DEF ReporterInv, ReporterTypeOK
  <1>2. \A d \in Callers : pc'[d] \in Reporting \/ pc[d] \in Reporting => pc'[d] = pc[d]
    BY DEF ReporterInv, ReporterTypeOK
  <1>3. \A d \in Callers : InsideInv(d)'
    BY <1>2 DEF ReporterInv, InsideInv, Reporting, Finalized
  <1>4. (\E d \in Callers : pc'[d] = "count") <=> (\E d \in Callers : pc[d] = "count")
    BY <1>2 DEF Reporting
  <1> QED
    BY <1>1, <1>3, <1>4 DEF ReporterInv, Finalized, ReportsInOrder

\* What a step of c to at does to the conditions on pc and mu when c is alone in report.
OnlyStep(c, at) ==
    /\ pc' \in [Callers -> ReporterPlaces] /\ mu' \in Callers \cup {"free"} /\ pc'[c] = at
    /\ domain' \in BOOLEAN /\ closeEvent' \in BOOLEAN
    /\ InsideInv(c)' => \A d \in Callers : InsideInv(d)'
    /\ (\E d \in Callers : pc[d] = "count") <=> pc[c] = "count"
    /\ (\E d \in Callers : pc'[d] = "count") <=> at = "count"

\* A step of the caller c inside report, or of the one that gets in: nobody else is.
LEMMA ReportInside ==
    ASSUME ReporterInv, NEW c \in Callers, NEW at \in ReporterPlaces, pc' = [pc EXCEPT ![c] = at],
           pc[c] \in Reporting \/ mu = "free", mu' = IF at \in Reporting THEN c ELSE "free",
           UNCHANGED connVars
    PROVE  OnlyStep(c, at)
  <1>1. \A d \in Callers \ {c} : pc'[d] = pc[d] /\ pc[d] \notin Reporting
    BY SMT DEF ReporterInv, ReporterTypeOK, InsideInv, Callers, Timer, Closer
  <1>2. pc'[c] = at
    BY DEF ReporterInv, ReporterTypeOK
  <1>3. \A d \in Callers \ {c} : InsideInv(d)'
    BY <1>1 DEF InsideInv, Reporting
  <1>4. (\E d \in Callers : pc[d] = "count") <=> pc[c] = "count"
    BY <1>1 DEF Reporting
  <1>5. (\E d \in Callers : pc'[d] = "count") <=> at = "count"
    BY <1>1, <1>2 DEF Reporting
  <1> QED
    BY <1>2, <1>3, <1>4, <1>5 DEF OnlyStep, ReporterInv, ReporterTypeOK, connVars

LEMMA AfterIsOutside ==
    ASSUME NEW c \in Callers PROVE After(c) \in ReporterPlaces \ Reporting
  BY DEF After, Reporting, ReporterPlaces

LEMMA ReportTryLock ==
    ASSUME ReporterInv, NEW c \in Callers, TryLock(c)
    PROVE  ReporterInv'
  <1>0. pc[c] \notin Reporting
    BY DEF TryLock, Reporting
  <1>1. CASE mu # "free"
    <2>1. pc' = [pc EXCEPT ![c] = After(c)] /\ UNCHANGED <<mu, domain, closeEvent, built, reportCount, saved>>
      BY <1>1 DEF TryLock, Goto, connVars
    <2>2. domain' \in BOOLEAN /\ closeEvent' \in BOOLEAN
      BY <2>1 DEF ReporterInv, ReporterTypeOK
    <2> QED
      BY <1>0, <2>1, <2>2, AfterIsOutside, ReportOutside
  <1>2. CASE mu = "free"
    <2>1. /\ pc' = [pc EXCEPT ![c] = "build"] /\ mu' = c
          /\ UNCHANGED <<domain, closeEvent, built, reportCount, saved>>
      BY <1>2 DEF TryLock, Goto, connVars
    <2>2. OnlyStep(c, "build")
      BY <1>2, <2>1, ReportInside DEF Reporting, ReporterPlaces, connVars
    <2>3. InsideInv(c)'
      BY <2>1, <2>2 DEF OnlyStep, InsideInv
    <2>4. Len(saved) = reportCount
      BY <1>0, <2>2, SMT DEF OnlyStep, ReporterInv, ReporterTypeOK, Reporting
    <2> QED
      BY <2>1, <2>2, <2>3, <2>4, SMT DEF OnlyStep, ReporterInv, ReporterTypeOK, Finalized, ReportsInOrder
  <1> QED
    BY <1>1, <1>2

LEMMA ReportBuild ==
    ASSUME ReporterInv, NEW c \in Callers, Build(c)
    PROVE  ReporterInv'
  <1>0. pc[c] = "build" /\ UNCHANGED <<domain, closeEvent, reportCount, saved>> /\ UNCHANGED connVars
    BY DEF Build, connVars
  <1>1. CASE domain
    <2>1. /\ built' = [built EXCEPT ![c] = [NoReport EXCEPT !.finalized = closeEvent]]
          /\ pc' = [pc EXCEPT ![c] = "bytes"] /\ mu' = mu
      BY <1>1 DEF Build, Goto
    <2>2. OnlyStep(c, "bytes")
      <3>1. mu = c
        BY <1>0 DEF ReporterInv, InsideInv, Reporting
      <3> QED
        BY <1>0, <2>1, <3>1, ReportInside DEF Reporting, ReporterPlaces
    <2>3. built' \in [Callers -> ReportRecord] /\ built'[c].finalized = closeEvent
      BY <2>1 DEF ReporterInv, ReporterTypeOK, ReportRecord, NoReport
    <2>4. InsideInv(c)'
      BY <1>0, <2>1, <2>2, <2>3 DEF OnlyStep, InsideInv, Reporting, ReporterInv, Finalized
    <2> QED
      BY <1>0, <2>1, <2>2, <2>3, <2>4 DEF OnlyStep, ReporterInv, ReporterTypeOK, Finalized, ReportsInOrder
  <1>2. CASE ~domain
    <2>1. built' = built /\ pc' = [pc EXCEPT ![c] = After(c)] /\ mu' = "free"
      BY <1>2 DEF Build, Goto
    <2>2. OnlyStep(c, After(c))
      BY <1>0, <2>1, AfterIsOutside, ReportInside DEF Reporting
    <2>3. InsideInv(c)'
      BY <2>2, AfterIsOutside DEF OnlyStep, InsideInv, Reporting
    <2>4. After(c) # "count"
      BY AfterIsOutside DEF Reporting
    <2> QED
      BY <1>0, <2>1, <2>2, <2>3, <2>4 DEF OnlyStep, ReporterInv, ReporterTypeOK, Finalized, ReportsInOrder
  <1> QED
    BY <1>1, <1>2

LEMMA ReportBytes ==
    ASSUME ReporterInv, NEW c \in Callers, Bytes(c)
    PROVE  ReporterInv'
  <1>0. /\ pc[c] = "bytes" /\ pc' = [pc EXCEPT ![c] = "save"] /\ mu' = mu
        /\ UNCHANGED <<domain, closeEvent, reportCount, saved>> /\ UNCHANGED connVars
    BY DEF Bytes, Goto, connVars
  <1>1. built \in [Callers -> ReportRecord] /\ reportCount \in Nat /\ closeEvent \in BOOLEAN /\ mu = c
    BY <1>0 DEF ReporterInv, ReporterTypeOK, InsideInv, Reporting
  <1>2. OnlyStep(c, "save")
    BY <1>0, <1>1, ReportInside DEF Reporting, ReporterPlaces
  <1>3. built' = [built EXCEPT ![c] = [built[c] EXCEPT !.bytes = closeEvent, !.part = reportCount]]
    BY <1>1 DEF Bytes
  <1>4. /\ built' \in [Callers -> ReportRecord]
        /\ built'[c].bytes = closeEvent /\ built'[c].part = reportCount
        /\ built'[c].finalized = built[c].finalized
    BY <1>1, <1>3 DEF ReportRecord
  <1>5. InsideInv(c)'
    BY <1>0, <1>1, <1>2, <1>4 DEF OnlyStep, InsideInv, Reporting, ReporterInv, Finalized
  <1> QED
    BY <1>0, <1>1, <1>2, <1>4, <1>5 DEF OnlyStep, ReporterInv, ReporterTypeOK, Finalized, ReportsInOrder

LEMMA ReportSave ==
    ASSUME ReporterInv, NEW c \in Callers, Save(c)
    PROVE  ReporterInv'
  <1>0. /\ pc[c] = "save" /\ pc' = [pc EXCEPT ![c] = "count"] /\ mu' = mu
        /\ UNCHANGED <<domain, closeEvent, reportCount, built>> /\ UNCHANGED connVars
        /\ saved' = Append(saved, built[c])
    BY DEF Save, Goto, connVars
  <1>1. /\ built \in [Callers -> ReportRecord] /\ reportCount \in Nat /\ closeEvent \in BOOLEAN /\ mu = c
        /\ saved \in Seq(ReportRecord) /\ built[c] \in ReportRecord
    BY <1>0 DEF ReporterInv, ReporterTypeOK, InsideInv, Reporting
  <1>2. OnlyStep(c, "count")
    BY <1>0, <1>1, ReportInside DEF Reporting, ReporterPlaces
  <1>3. /\ Len(saved) = reportCount /\ built[c].part = reportCount
        /\ built[c].finalized => built[c].bytes /\ closeEvent
        /\ Finalized => built[c].finalized
    BY <1>0, <1>1, <1>2, SMT DEF OnlyStep, ReporterInv, InsideInv
  <1>4. /\ saved' \in Seq(ReportRecord) /\ Len(saved') = Len(saved) + 1
        /\ \A n \in 1..Len(saved) : saved'[n] = saved[n]
        /\ saved'[Len(saved) + 1] = built[c]
    BY <1>0, <1>1, SMT
  <1>5. InsideInv(c)'
    BY <1>0, <1>1, <1>2 DEF OnlyStep, InsideInv, Reporting
  <1>6. Finalized' => closeEvent'
    BY <1>0, <1>1, <1>3, <1>4, SMT DEF Finalized, ReporterInv
  <1>7. ReportsInOrder'
    <2> SUFFICES ASSUME NEW n \in 1..(Len(saved) + 1)
                 PROVE  /\ saved'[n].part = n - 1
                        /\ saved'[n].finalized =>
                             /\ saved'[n].bytes
                             /\ \A later \in n..(Len(saved) + 1) : saved'[later].finalized
      BY <1>1, <1>4, SMT DEF ReportsInOrder
    <2>0. Len(saved) \in Nat /\ DOMAIN saved = 1..Len(saved)
      BY <1>1, SMT
    <2>1. CASE n = Len(saved) + 1
      BY <1>3, <1>4, <2>0, <2>1, SMT
    <2>2. CASE n \in 1..Len(saved)
      <3>1. saved'[n] = saved[n] /\ saved[n].part = n - 1
        BY <1>4, <2>0, <2>2 DEF ReporterInv, ReportsInOrder
      <3>2. ASSUME saved[n].finalized
            PROVE  saved[n].bytes /\ \A later \in n..(Len(saved) + 1) : saved'[later].finalized
        <4>1. saved[n].bytes /\ (\A later \in n..Len(saved) : saved[later].finalized)
          BY <2>0, <2>2, <3>2 DEF ReporterInv, ReportsInOrder
        <4>2. Finalized
          BY <2>0, <2>2, <3>2, ZenonT(30) DEF Finalized
        <4> QED
          BY <1>3, <1>4, <2>0, <2>2, <4>1, <4>2, SMT
      <3> QED
        BY <3>1, <3>2
    <2> QED
      BY <2>0, <2>1, <2>2, SMT
  <1> QED
    BY <1>0, <1>1, <1>2, <1>3, <1>4, <1>5, <1>6, <1>7 DEF OnlyStep, ReporterInv, ReporterTypeOK

LEMMA ReportCount ==
    ASSUME ReporterInv, NEW c \in Callers, Count(c)
    PROVE  ReporterInv'
  <1>0. /\ pc[c] = "count" /\ pc' = [pc EXCEPT ![c] = After(c)] /\ mu' = "free"
        /\ UNCHANGED <<domain, closeEvent, saved, built>> /\ UNCHANGED connVars
        /\ reportCount' = reportCount + 1
    BY DEF Count, Goto, connVars
  <1>1. OnlyStep(c, After(c))
    BY <1>0, AfterIsOutside, ReportInside DEF Reporting
  <1>2. InsideInv(c)' /\ After(c) # "count"
    BY <1>1, AfterIsOutside DEF OnlyStep, InsideInv, Reporting
  <1>3. Len(saved) = reportCount + 1
    BY <1>0, <1>1 DEF OnlyStep, ReporterInv
  <1> QED
    BY <1>0, <1>1, <1>2, <1>3, SMT DEF OnlyStep, ReporterInv, ReporterTypeOK, Finalized, ReportsInOrder

\* Inductive invariant of the reporter of a connection (report, Close and the
\* goroutine of its timers): see above.
THEOREM ReporterInvariant == Spec => []ReporterInv
  <1>1. Init => ReporterInv
    <2> SUFFICES ASSUME Init PROVE ReporterInv
      OBVIOUS
    <2>1. saved = <<>> /\ Len(saved) = 0 /\ DOMAIN saved = {} /\ saved \in Seq(ReportRecord)
      BY SMT DEF Init
    <2>2. pc \in [Callers -> {"start", "open"}]
      BY DEF Init
    <2>3. ReporterTypeOK
      BY <2>1, <2>2 DEF Init, ReporterTypeOK, ReporterPlaces, ReportRecord, NoReport
    <2>4. \A c \in Callers : pc[c] \notin Reporting
      BY <2>2 DEF Reporting
    <2> QED
      BY <2>1, <2>3, <2>4, SMT DEF Init, ReporterInv, InsideInv, Reporting, Finalized, ReportsInOrder
  <1>2. ReporterInv /\ [Next]_vars => ReporterInv'
    <2> SUFFICES ASSUME ReporterInv, [Next]_vars PROVE ReporterInv'
      OBVIOUS
    <2>0. domain \in BOOLEAN /\ closeEvent \in BOOLEAN /\ Timer \in Callers /\ Closer \in Callers
      BY DEF ReporterInv, ReporterTypeOK, Callers
    <2>1. CASE CloseEvent
      BY <2>0, <2>1, ReportOutside DEF CloseEvent, ReporterPlaces, Reporting
    <2>2. CASE SetDomain
      BY <2>0, <2>2, ReportOutside DEF SetDomain, ReporterPlaces, Reporting
    <2>3. CASE Fire
      BY <2>3 DEF Fire, connVars, ReporterInv, ReporterTypeOK, InsideInv, Finalized, ReportsInOrder
    <2>4. CASE Close
      BY <2>0, <2>4, ReportOutside DEF Close, Goto, connVars, ReporterPlaces, Reporting
    <2>5. CASE Start
      BY <2>0, <2>5, ReportOutside DEF Start, Goto, connVars, ReporterPlaces, Reporting
    <2>6. CASE Tick
      BY <2>0, <2>6, ReportOutside DEF Tick, Goto, connVars, ReporterPlaces, Reporting
    <2>7. CASE Stop
      BY <2>0, <2>7, ReportOutside DEF Stop, Goto, connVars, ReporterPlaces, Reporting
    <2>8. CASE Recur
      BY <2>0, <2>8, ReportOutside DEF Recur, Goto, connVars, ReporterPlaces, Reporting
    <2>9. ASSUME NEW c \in Callers, Report(c) PROVE ReporterInv'
      BY <2>9, ReportTryLock, ReportBuild, ReportBytes, ReportSave, ReportCount DEF Report
    <2>10. CASE UNCHANGED vars
      BY <2>10 DEF vars, ReporterInv, ReporterTypeOK, InsideInv, Finalized, ReportsInOrder
    <2> QED
      BY <2>1, <2>2, <2>3, <2>4, <2>5, <2>6, <2>7, <2>8, <2>9, <2>10 DEF Next
  <1> QED
    BY <1>1, <1>2, PTL DEF Spec

\* The reports of a connection are numbered in the order in which they are saved,
\* and a finalized one has its bytes and is followed by finalized ones only
\* (report, toEventStoreConnection), however often the timers fire.
THEOREM ReporterInOrder == Spec => []ReportsInOrder
  <1>1. ReporterInv => ReportsInOrder
    BY DEF ReporterInv
  <1> QED
    BY <1>1, ReporterInvariant, PTL

-----------------------------------------------------------------------------
(* A plugin connection.                                                    *)

PluginSpec == PluginInit /\ [][PluginNext]_pluginVars

PluginType ==
    /\ script \in [Dirs -> Seq(Commands)]
    /\ commandQueue \in [cmds : Seq(Commands), closed : BOOLEAN]
    /\ worker \in [at : {"loop", "drain", "done"}, timedOut : BOOLEAN]
    /\ accepted \in Seq(Commands) /\ ran \in Seq(Commands)

\* What was accepted has run, or is in the queue; the queue is closed by Teardown
\* alone, and the worker ends with an empty one unless the drain times out.
RanInv ==
    /\ ran \o commandQueue.cmds = accepted
    /\ worker.at = "done" /\ ~worker.timedOut => commandQueue.closed /\ commandQueue.cmds = <<>>
    /\ commandQueue.closed => teardown # "none"
    /\ teardown = "destroyed" => worker.at = "done"

LEMMA HeadAndTail ==
    ASSUME NEW S, NEW s \in Seq(S), s # <<>>
    PROVE  /\ Head(s) \in S /\ Tail(s) \in Seq(S)
           /\ \A r \in Seq(S) : Append(r, Head(s)) \o Tail(s) = r \o s
           /\ \A e \in S, r \in Seq(S) : Append(s, e) \in Seq(S) /\ r \o Append(s, e) = Append(r \o s, e)
BY SMT

LEMMA QueueWith ==
    ASSUME NEW q \in [cmds : Seq(Commands), closed : BOOLEAN], NEW s \in Seq(Commands)
    PROVE  LET now == [q EXCEPT !.cmds = s]
           IN  now.cmds = s /\ now.closed = q.closed /\ now \in [cmds : Seq(Commands), closed : BOOLEAN]
BY Zenon

LEMMA PluginStep ==
    ASSUME PluginType, RanInv, PluginNext
    PROVE  PluginType' /\ RanInv'
<1>0. /\ script \in [Dirs -> Seq(Commands)]
      /\ commandQueue \in [cmds : Seq(Commands), closed : BOOLEAN]
      /\ worker \in [at : {"loop", "drain", "done"}, timedOut : BOOLEAN]
      /\ accepted \in Seq(Commands) /\ ran \in Seq(Commands)
      /\ commandQueue.cmds \in Seq(Commands)
  BY SMT DEF PluginType
<1>1. ASSUME NEW d \in Dirs, enqueue(d) PROVE PluginType' /\ RanInv'
  <2>1. /\ teardown = "none" /\ script[d] \in Seq(Commands) /\ script[d] # <<>>
        /\ UNCHANGED <<worker, teardown, ran>>
        /\ script' = [script EXCEPT ![d] = Tail(@)]
    BY <1>0, <1>1, Zenon DEF enqueue
  <2> DEFINE cmd == Head(script[d])
  <2>2. cmd \in Commands /\ script' \in [Dirs -> Seq(Commands)]
    BY <1>0, <2>1, SMT
  <2>3. \/ UNCHANGED <<commandQueue, accepted>>
        \/ /\ commandQueue' = [commandQueue EXCEPT !.cmds = Append(@, cmd)]
           /\ accepted' = Append(accepted, cmd)
    BY <1>1, Zenon DEF enqueue
  <2> HIDE DEF cmd
  <2>4. ~commandQueue.closed /\ ~(worker.at = "done" /\ ~worker.timedOut)
    BY <2>1, Zenon DEF RanInv
  <2>5. CASE UNCHANGED <<commandQueue, accepted>>
    BY <1>0, <2>1, <2>2, <2>5, Zenon DEF PluginType, RanInv
  <2>6. CASE /\ commandQueue' = [commandQueue EXCEPT !.cmds = Append(@, cmd)]
             /\ accepted' = Append(accepted, cmd)
    <3>0. Append(commandQueue.cmds, cmd) \in Seq(Commands) /\ Append(accepted, cmd) \in Seq(Commands)
      BY <1>0, <2>2, SMT
    <3>1. /\ commandQueue'.cmds = Append(commandQueue.cmds, cmd) /\ commandQueue'.closed = commandQueue.closed
          /\ commandQueue' \in [cmds : Seq(Commands), closed : BOOLEAN] /\ accepted' \in Seq(Commands)
      BY <1>0, <2>2, <2>6, <3>0, QueueWith, Zenon
    <3>2. ran \o Append(commandQueue.cmds, cmd) = Append(ran \o commandQueue.cmds, cmd)
      BY <1>0, <2>2, SMT
    <3>3. ran \o commandQueue'.cmds = accepted'
      BY <2>6, <3>1, <3>2, Zenon DEF RanInv
    <3>4. PluginType'
      BY <2>1, <2>2, <3>1, Zenon DEF PluginType
    <3> QED  BY <2>1, <2>4, <3>1, <3>3, <3>4, Zenon DEF RanInv
  <2> QED  BY <2>3, <2>5, <2>6, Zenon
<1>2. ASSUME Take PROVE PluginType' /\ RanInv'
  <2>1. /\ worker.at # "done" /\ commandQueue.cmds # <<>>
        /\ commandQueue' = [commandQueue EXCEPT !.cmds = Tail(@)]
        /\ ran' = Append(ran, Head(commandQueue.cmds))
        /\ UNCHANGED <<script, worker, teardown, accepted>>
    BY <1>2, Zenon DEF Take
  <2>0. Tail(commandQueue.cmds) \in Seq(Commands) /\ Append(ran, Head(commandQueue.cmds)) \in Seq(Commands)
    BY <1>0, <2>1, SMT
  <2>2. /\ commandQueue'.cmds = Tail(commandQueue.cmds) /\ commandQueue'.closed = commandQueue.closed
        /\ commandQueue' \in [cmds : Seq(Commands), closed : BOOLEAN] /\ ran' \in Seq(Commands)
    BY <1>0, <2>0, <2>1, QueueWith, Zenon
  <2>3. Append(ran, Head(commandQueue.cmds)) \o Tail(commandQueue.cmds) = ran \o commandQueue.cmds
    BY <1>0, <2>1, HeadAndTail, SMT
  <2> QED  BY <1>0, <2>1, <2>2, <2>3, Zenon DEF PluginType, RanInv
<1>3. ASSUME Closed PROVE PluginType' /\ RanInv'
  BY <1>0, <1>3, Zenon DEF Closed, PluginType, RanInv
<1>4. ASSUME Cancelled PROVE PluginType' /\ RanInv'
  BY <1>0, <1>4, Zenon DEF Cancelled, CancelledTo, PluginType, RanInv
<1>5. ASSUME DrainTimeout PROVE PluginType' /\ RanInv'
  BY <1>0, <1>5, Zenon DEF DrainTimeout, PluginType, RanInv
<1>6. ASSUME Teardown PROVE PluginType' /\ RanInv'
  BY <1>0, <1>6, Zenon DEF Teardown, ClosedQueue, PluginType, RanInv
<1>7. ASSUME Destroy PROVE PluginType' /\ RanInv'
  BY <1>0, <1>7, Zenon DEF Destroy, WorkerDone, PluginType, RanInv
<1>8. ASSUME CancelContext PROVE PluginType' /\ RanInv'
  BY <1>8, Zenon DEF CancelContext, PluginType, RanInv
<1> QED  BY <1>1, <1>2, <1>3, <1>4, <1>5, <1>6, <1>7, <1>8, Zenon DEF PluginNext, Worker

\* The plugins have seen every command that enqueue accepted, in order, when
\* Teardown destroys them, unless the worker's drain timed out: for any scripts of
\* the two directions and any size of the queue.
THEOREM PluginEverythingRan == PluginSpec => []EverythingRan
<1>1. PluginInit => PluginType /\ RanInv
  <2> SUFFICES ASSUME PluginInit PROVE PluginType /\ RanInv
    BY SMT
  <2>1. <<>> \in Seq(Commands) /\ <<>> \o <<>> = <<>>
    BY SMT
  <2>2. script \in [Dirs -> Seq(Commands)]
    BY PluginAssumption, Zenon DEF PluginInit
  <2> HIDE DEF Commands
  <2> QED  BY <2>1, <2>2, Zenon DEF PluginInit, PluginType, RanInv
<1>2. PluginType /\ RanInv /\ [PluginNext]_pluginVars => (PluginType /\ RanInv)'
  <2>1. ASSUME UNCHANGED pluginVars, PluginType, RanInv PROVE (PluginType /\ RanInv)'
    BY <2>1, Zenon DEF pluginVars, PluginType, RanInv
  <2> QED  BY <2>1, PluginStep, Zenon
<1>3. PluginType /\ RanInv => EverythingRan
  BY SMT DEF PluginType, RanInv, EverythingRan
<1> QED  BY <1>1, <1>2, <1>3, PTL DEF PluginSpec

=============================================================================
