---------------------------- MODULE MCTlsProbes -----------------------------
(***************************************************************************)
(* A thread that uses TLS on two connections, and frees objects and uses   *)
(* their addresses again; one scope for each kind of library.              *)
(***************************************************************************)
EXTENDS TlsProbes, TLC

CONSTANT t1

Scope(uses, most, carries) ==
    [strategy |-> "observe", filter |-> {}, direction |-> "all", loopback |-> TRUE,
     streams |-> {"http", "mysql"}, remote |-> <<"v4", "public">>, managed |-> FALSE,
     dns |-> FALSE,
     uses |-> (t1 :> uses), most |-> (t1 :> most), carries |-> carries, drops |-> 0]

MCScopes ==
    {Scope({"accept", "SSL_set_bio", "recvfrom", "SSL_read", "SSL_free"}, 8, {"http1"}),
     Scope({"accept", "SSL_set_fd", "read", "SSL_write", "SSL_read_ex", "SSL_free", "close"}, 7, {"http1"}),
     Scope({"accept", "read", "TLSWrap", "SSL_set_fd", "SSL_set_cert_cb", "SSL_write_ex", "SSL_free"}, 7, {"http1"}),
     Scope({"accept", "java_new", "java_read", "java_write", "read"}, 7, {"http1", "hello"}),
     Scope({"accept", "go_new", "go_read", "go_write", "read"}, 7, {"http1", "mysql"})}

Symmetric ==
    Permutations(Socks) \cup Permutations(Elems) \cup Permutations(Fds) \cup Permutations(Handles)
=============================================================================
