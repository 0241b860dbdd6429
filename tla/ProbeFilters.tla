---------------------------- MODULE ProbeFilters ----------------------------
(***************************************************************************)
(* What the kernel probes decide from the settings, the process and the    *)
(* remote address alone: which connections are ignored when they are       *)
(* opened, which data is skipped, which protocols are streamed             *)
(* (settings.bpf.c, net.bpf.h, process.bpf.h, socket.bpf.c).               *)
(*                                                                         *)
(* A scope is a record with                                                *)
(*   strategy   meta->qpoint_strategy                                      *)
(*   filter     the SKIP_* flags of meta->filter                           *)
(*   direction  SOCK_SETTING_DIRECTION, D_ALL when it is not set           *)
(*   loopback   SOCK_SETTING_IGNORE_LOOPBACK                               *)
(*   streams    the STREAM_* flags of SOCK_SETTING_STREAM_PROTOCOLS        *)
(*   remote     the class of the remote address                            *)
(*   managed    is_management_address(remote)                              *)
(*   dns        the remote port is 53                                      *)
(* An address is abstracted to the class that the range tests tell apart.  *)
(***************************************************************************)

Strategies == {"observe", "ignore", "audit", "forward", "proxy"}
SkipFlags == {"data", "dns", "tls", "http"}
Directions == {"ingress", "egress", "egress_internal", "egress_external", "all"}
Protocols == {"unknown", "http1", "http2", "dns", "mongodb", "redis", "mysql", "kafka"}

V4Classes == {"any", "loopback", "linklocal", "private", "public"}
\* An IPv6 address that embeds an IPv4 address of a class is <<"mapped", class>>.
Classes ==
    ({"v4", "mapped"} \X V4Classes)
      \cup ({"v6"} \X {"any", "loopback", "ula", "linklocal", "public"})

is_local_ip(a) ==
    \/ a[1] = "v4" /\ a[2] \in {"loopback", "linklocal", "any"}
    \/ a[1] = "v6" /\ a[2] \in {"loopback", "any"}
    \/ a = <<"mapped", "loopback">>

is_private_ip(a) ==
    \/ a[1] \in {"v4", "mapped"} /\ a[2] = "private"
    \/ a[1] = "v6" /\ a[2] \in {"ula", "linklocal"}

SKIP_ALL(filter) == SkipFlags \subseteq filter

\* Everything submit_open_event sets conn_info->ignore for.
IgnoredAtOpen(scope, function) ==
    \/ is_local_ip(scope.remote) /\ scope.loopback
    \/ function = "server" /\ scope.direction \notin {"ingress", "all"}
    \/ /\ function = "client"
       /\ \/ scope.direction = "ingress"
          \/ /\ is_private_ip(scope.remote)
             /\ scope.direction = "egress_external"
             /\ ~scope.managed
          \/ ~is_private_ip(scope.remote) /\ scope.direction = "egress_internal"
          \/ scope.dns
    \/ SKIP_ALL(scope.filter)

\* The skip tests of process_data.
Skipped(scope, protocol, is_ssl) ==
    \/ "data" \in scope.filter
    \/ protocol = "dns" /\ "dns" \in scope.filter
    \/ is_ssl /\ "tls" \in scope.filter
    \/ ~is_ssl /\ "http" \in scope.filter

should_stream(streams, protocol) ==
    \/ protocol \in {"http1", "http2"} /\ "http" \in streams
    \/ protocol \in {"redis", "mysql", "kafka"} /\ protocol \in streams

\* The stream decision of process_data.
Streamed(scope, function, protocol) ==
    \/ function = "client" /\ protocol = "dns"
    \/ should_stream(scope.streams, protocol)
=============================================================================
