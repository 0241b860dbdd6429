----------------------------- MODULE TlsProbes ------------------------------
(***************************************************************************)
(* The probes on TLS libraries (openssl.bpf.c, nodetls.bpf.c, gotls.bpf.c, *)
(* the SSLSocket part of javassl.bpf.c) above the socket probes.  A library *)
(* call moves plain bytes that no system call shows; its exit probe must   *)
(* find out which descriptor they belong to, and hands them to             *)
(* process_data as TLS.  The descriptor is walked to in the program's      *)
(* memory (Go, Node), or the socket probes were asked to note it during    *)
(* the call, or it is remembered for the TLS object.                       *)
(*                                                                         *)
(* A library call may make system calls on its own connection or none,    *)
(* when the bytes are buffered.  An object's address is used again for     *)
(* another object once it is freed.                                        *)
(***************************************************************************)
EXTENDS SocketProbes

CONSTANTS
    Handles,  \* the addresses of TLS objects: SSL, tls.Conn, SSLSocket
    Wraps,    \* the addresses of Node's TLSWrap
    RcIsParm1 \* PT_REGS_RC is the register of the first argument (arm64; not x86)

ASSUME TlsAssumption == RcIsParm1 \in BOOLEAN /\ NONE \notin Handles \cup Wraps

VARIABLES
    bio,            \* program: how each object is bound, and to what
    wrap_fd,        \* program: the descriptor in each TLSWrap
    ssl,            \* program: the library call that each thread is in
    ssl_args,       \* active_ssl_{read,write}_args_map, by thread
    java_args,      \* java_active_ssl_{read,write}_args_map, by thread
    go_args,        \* active_tls_conn_op_map; a thread stands for a goroutine
    ssl_to_fd_map,
    tlswrap_exists, \* node_tlswrap_exists_map
    ssl_to_tlswrap  \* node_ssl_to_tlswrap_map

programVars == <<bio, wrap_fd, ssl>>
tlsArgVars == <<ssl_args, java_args, go_args>>
nodeVars == <<tlswrap_exists, ssl_to_tlswrap>>
tlsVars == <<programVars, tlsArgVars, ssl_to_fd_map, nodeVars>>

Free == [mode |-> "free", fd |-> NONE, sock |-> NONE]
NoCall == [op |-> "none", h |-> NONE]
Inside(t) == ssl[t] # NoCall

TlsInit ==
    /\ Init
    /\ bio = [h \in Handles |-> Free]
    /\ wrap_fd = [w \in Wraps |-> NONE]
    /\ ssl = [t \in Threads |-> NoCall]
    /\ ssl_args = [d \in {"in", "out"} |-> [t \in Threads |-> NONE]]
    /\ java_args = [d \in {"in", "out"} |-> [t \in Threads |-> FALSE]]
    /\ go_args = [t \in Threads |-> NONE]
    /\ ssl_to_fd_map = [h \in Handles |-> NONE]
    /\ tlswrap_exists = [w \in Wraps |-> FALSE]
    /\ ssl_to_tlswrap = [h \in Handles |-> NONE]

-----------------------------------------------------------------------------
\* Objects

\* A new object at a free address is bound to an open socket.
Bind(t, op, h, f, mode) ==
    /\ ~Inside(t)
    /\ Usable(f)
    /\ bio[h] = Free
    /\ \A g \in Handles : bio[g].sock # fdtab[f]
    /\ Call(t, op)
    /\ bio' = [bio EXCEPT ![h] = [mode |-> mode, fd |-> f, sock |-> fdtab[f]]]

\* SSL_new and SSL_set_fd.
SSL_set_fd(t, h, f) ==
    /\ Bind(t, "SSL_set_fd", h, f, "ssl")
    /\ ssl_to_fd_map' = [ssl_to_fd_map EXCEPT ![h] = f]
    /\ UNCHANGED <<kernelVars, thr, argVars, fileVars, connVars, ringVars, scope,
                   wrap_fd, ssl, tlsArgVars, nodeVars>>

\* Bindings that no probe sees: SSL_new and SSL_set_bio, a Go or a Java object.
NewUnseen(t, h, f) ==
    /\ \/ Bind(t, "SSL_set_bio", h, f, "ssl")
       \/ Bind(t, "go_new", h, f, "go")
       \/ Bind(t, "java_new", h, f, "java")
    /\ UNCHANGED <<kernelVars, thr, argVars, fileVars, connVars, ringVars, scope,
                   wrap_fd, ssl, tlsArgVars, ssl_to_fd_map, nodeVars>>

\* Node's TLSWrap: a member function runs first, then SSL_set_cert_cb with the
\* wrap as its argument.  Such an object reads and writes memory only.
TLSWrap(t, h, w, f) ==
    /\ Bind(t, "TLSWrap", h, f, "node")
    /\ wrap_fd[w] = NONE
    /\ wrap_fd' = [wrap_fd EXCEPT ![w] = f]
    /\ tlswrap_exists' = [tlswrap_exists EXCEPT ![w] = TRUE]
    /\ ssl_to_tlswrap' = [ssl_to_tlswrap EXCEPT ![h] = w]
    /\ UNCHANGED <<kernelVars, thr, argVars, fileVars, connVars, ringVars, scope,
                   ssl, tlsArgVars, ssl_to_fd_map>>

\* SSL_set_cert_cb of an object that is not Node's: its argument is no TLSWrap,
\* unless an address that was one is used again.
SSL_set_cert_cb(t, h, w) ==
    /\ ~Inside(t)
    /\ bio[h].mode = "ssl"
    /\ wrap_fd[w] = NONE
    /\ Call(t, "SSL_set_cert_cb")
    /\ ssl_to_tlswrap' = IF tlswrap_exists[w] THEN [ssl_to_tlswrap EXCEPT ![h] = w]
                                              ELSE ssl_to_tlswrap
    /\ UNCHANGED <<kernelVars, thr, argVars, fileVars, connVars, ringVars, scope,
                   programVars, tlsArgVars, ssl_to_fd_map, tlswrap_exists>>

\* Mutant: nothing is removed.
NamedNone(h) == {NONE}

\* What PT_REGS_RC holds at the entry of SSL_free.
Named(h) == IF RcIsParm1 THEN {h} ELSE Handles \cup {NONE}

\* The entry probes of SSL_free remove what PT_REGS_RC names: the object where
\* that is the first argument, anything elsewhere.  Node's destructor of the
\* wrap comes with it.
SSL_free(t, h) ==
    /\ ~Inside(t)
    /\ bio[h] # Free
    /\ \A u \in Threads : ssl[u].h # h
    /\ Call(t, "SSL_free")
    /\ bio' = [bio EXCEPT ![h] = Free]
    /\ LET w == ssl_to_tlswrap[h] IN
       IF bio[h].mode = "node"
         THEN /\ wrap_fd' = [wrap_fd EXCEPT ![w] = NONE]
              /\ tlswrap_exists' = [tlswrap_exists EXCEPT ![w] = FALSE]
         ELSE UNCHANGED <<wrap_fd, tlswrap_exists>>
    /\ \E named \in Named(h) :
         /\ ssl_to_fd_map' = [g \in Handles |-> IF g = named THEN NONE ELSE ssl_to_fd_map[g]]
         /\ ssl_to_tlswrap' = [g \in Handles |-> IF g = named THEN NONE ELSE ssl_to_tlswrap[g]]
    /\ UNCHANGED <<kernelVars, thr, argVars, fileVars, connVars, ringVars, scope,
                   ssl, tlsArgVars>>

\* ssl_to_fd_map is an LRU map: an entry may go at any time.
Evict(h) ==
    /\ ssl_to_fd_map[h] # NONE
    /\ ssl_to_fd_map' = [ssl_to_fd_map EXCEPT ![h] = NONE]
    /\ UNCHANGED <<vars, programVars, tlsArgVars, nodeVars>>

-----------------------------------------------------------------------------
\* Library calls

EnterCall(t, h, op, modes) ==
    /\ ~Inside(t)
    /\ bio[h].mode \in modes
    /\ Usable(bio[h].fd) /\ fdtab[bio[h].fd] = bio[h].sock
    /\ \A u \in Threads : ssl[u].h # h
    /\ Call(t, op)
    /\ ssl' = [ssl EXCEPT ![t] = [op |-> op, h |-> h]]
    /\ UNCHANGED <<kernelVars, thr, addr_args, io_args, close_args, fileVars, connVars, ringVars,
                   scope, bio, wrap_fd, ssl_to_fd_map, nodeVars>>

\* Mutant: an answer that is there already is kept.
request_fdOnce(t) ==
    fd_requests' = IF fd_requests[t] = NONE THEN [fd_requests EXCEPT ![t] = "asked"]
                                            ELSE fd_requests

\* request_fd_from_syscall, request_java_fd_from_syscall: whatever an earlier
\* call left is replaced.
request_fd(t) == fd_requests' = [fd_requests EXCEPT ![t] = "asked"]

EnterSSL(t, h, op, d) ==
    /\ EnterCall(t, h, op, {"ssl", "node"})
    /\ request_fd(t)
    /\ ssl_args' = [ssl_args EXCEPT ![d][t] = h]
    /\ UNCHANGED <<java_args, go_args>>

EnterSSL_read(t, h) == EnterSSL(t, h, "SSL_read", "in")
EnterSSL_read_ex(t, h) == EnterSSL(t, h, "SSL_read_ex", "in")
EnterSSL_write(t, h) == EnterSSL(t, h, "SSL_write", "out")
EnterSSL_write_ex(t, h) == EnterSSL(t, h, "SSL_write_ex", "out")

\* A length of zero or less is not recorded.
EnterJava(t, h, op, d) ==
    /\ EnterCall(t, h, op, {"java"})
    /\ request_fd(t)
    /\ \E positive \in BOOLEAN :
         java_args' = IF positive THEN [java_args EXCEPT ![d][t] = TRUE] ELSE java_args
    /\ UNCHANGED <<ssl_args, go_args>>

java_ssl_read_entry(t, h) == EnterJava(t, h, "java_read", "in")
java_ssl_write_entry(t, h) == EnterJava(t, h, "java_write", "out")

EnterGo(t, h, op) ==
    /\ EnterCall(t, h, op, {"go"})
    /\ go_args' = [go_args EXCEPT ![t] = h]
    /\ UNCHANGED <<fd_requests, ssl_args, java_args>>

entry_tls_conn_read(t, h) == EnterGo(t, h, "go_read")
entry_tls_conn_write(t, h) == EnterGo(t, h, "go_write")

\* get_fd_from_node; a TLSWrap that is gone is freed memory.
get_fd_from_node(h) ==
    LET w == ssl_to_tlswrap[h] IN
    IF w = NONE THEN {NONE} ELSE IF wrap_fd[w] # NONE THEN {wrap_fd[w]} ELSE Fds \cup {NONE}

Answer(t) == IF fd_requests[t] \in Fds THEN fd_requests[t] ELSE NONE
Forget(t) == fd_requests' = [fd_requests EXCEPT ![t] = NONE]

\* The call is over; with a descriptor, process_data follows.
Leave(t, d, f, c) ==
    /\ ssl' = [ssl EXCEPT ![t] = NoCall]
    /\ thr' = IF f = NONE THEN thr
                ELSE [thr EXCEPT ![t] = [Idle EXCEPT
                        !.at = "ssl", !.op = IF d = "in" THEN "ssl_read" ELSE "ssl_write",
                        !.fd = f, !.sock = bio[ssl[t].h].sock, !.data = c]]

tlsFrame == <<kernelVars, calls, addr_args, io_args, close_args, fileVars, connVars, ringVars,
              scope, bio, wrap_fd, nodeVars>>

\* The exit probe of an OpenSSL call that moved c: Node's memory first, then the
\* answer of the socket probes, then what is remembered (get_fd).
Moved(t, d, c) ==
    LET h == ssl_args[d][t] IN
    \E n \in get_fd_from_node(h) :
      LET f == IF n # NONE THEN n
               ELSE IF Answer(t) # NONE THEN Answer(t) ELSE ssl_to_fd_map[h]
      IN  /\ IF n = NONE THEN Forget(t) ELSE UNCHANGED fd_requests
          /\ ssl_to_fd_map' = IF f = NONE THEN ssl_to_fd_map ELSE [ssl_to_fd_map EXCEPT ![h] = f]
          /\ Leave(t, d, f, c)
          /\ ssl_args' = [ssl_args EXCEPT ![d][t] = NONE]

\* SSL_read_ex that fails leaves its arguments; SSL_write_ex that fails is
\* judged by the count in the caller's memory, which it has not written.
RetSSL(t, op, d, c) ==
    /\ thr[t].at = "user"
    /\ ssl[t].op = op
    /\ \/ c # NONE /\ Moved(t, d, c)
       \/ op = "SSL_write_ex" /\ c = NONE /\ Moved(t, d, "opaque")
       \/ /\ c = NONE
          /\ Leave(t, d, NONE, c)
          /\ ssl_args' = IF op = "SSL_read_ex" THEN ssl_args ELSE [ssl_args EXCEPT ![d][t] = NONE]
          /\ UNCHANGED <<fd_requests, ssl_to_fd_map>>
    /\ UNCHANGED <<tlsFrame, java_args, go_args>>

RetSSL_read(t, c) == RetSSL(t, "SSL_read", "in", c)
RetSSL_read_ex(t, c) == RetSSL(t, "SSL_read_ex", "in", c)
RetSSL_write(t, c) == RetSSL(t, "SSL_write", "out", c)
RetSSL_write_ex(t, c) == RetSSL(t, "SSL_write_ex", "out", c)

java_ssl_read_exit(t, c) ==
    LET runs == java_args["in"][t] /\ c # NONE IN
    /\ thr[t].at = "user"
    /\ ssl[t].op = "java_read"
    /\ IF runs THEN Forget(t) ELSE UNCHANGED fd_requests
    /\ Leave(t, "in", IF runs THEN Answer(t) ELSE NONE, c)
    /\ java_args' = [java_args EXCEPT !["in"][t] = FALSE]
    /\ UNCHANGED <<tlsFrame, ssl_args, go_args, ssl_to_fd_map>>

\* The exit of a write is reached only when all was written.
java_ssl_write_exit(t, c) ==
    LET runs == java_args["out"][t] IN
    /\ thr[t].at = "user"
    /\ ssl[t].op = "java_write"
    /\ c # NONE
    /\ IF runs THEN Forget(t) ELSE UNCHANGED fd_requests
    /\ Leave(t, "out", IF runs THEN Answer(t) ELSE NONE, c)
    /\ java_args' = [java_args EXCEPT !["out"][t] = FALSE]
    /\ UNCHANGED <<tlsFrame, ssl_args, go_args, ssl_to_fd_map>>

\* get_fd_from_conn_intf_core walks from the connection of the entry probe.
RetGo(t, op, d, c) ==
    /\ thr[t].at = "user"
    /\ ssl[t].op = op
    /\ Leave(t, d, IF c = NONE THEN NONE ELSE bio[go_args[t]].fd, c)
    /\ go_args' = [go_args EXCEPT ![t] = NONE]
    /\ UNCHANGED <<tlsFrame, fd_requests, ssl_args, java_args, ssl_to_fd_map>>

ret_tls_conn_read(t, c) == RetGo(t, "go_read", "in", c)
ret_tls_conn_write(t, c) == RetGo(t, "go_write", "out", c)

\* process_data with ssl set, from any of these.
TlsData(t) ==
    /\ thr[t].at = "ssl"
    /\ Data(t, TRUE)
    /\ UNCHANGED <<kernelVars, calls, addr_args, close_args, fd_requests, fileVars, conn_info_map,
                   ringVars, scope>>

-----------------------------------------------------------------------------
ObjectStep(t, h) ==
    \/ \E f \in Fds : SSL_set_fd(t, h, f) \/ NewUnseen(t, h, f)
    \/ \E w \in Wraps, f \in Fds : TLSWrap(t, h, w, f)
    \/ \E w \in Wraps : SSL_set_cert_cb(t, h, w)
    \/ SSL_free(t, h)

EnterTlsStep(t, h) ==
    \/ EnterSSL_read(t, h)
    \/ EnterSSL_read_ex(t, h)
    \/ EnterSSL_write(t, h)
    \/ EnterSSL_write_ex(t, h)
    \/ java_ssl_read_entry(t, h)
    \/ java_ssl_write_entry(t, h)
    \/ entry_tls_conn_read(t, h)
    \/ entry_tls_conn_write(t, h)

RetTlsStep(t, c) ==
    \/ RetSSL_read(t, c)
    \/ RetSSL_read_ex(t, c)
    \/ RetSSL_write(t, c)
    \/ RetSSL_write_ex(t, c)
    \/ java_ssl_read_exit(t, c)
    \/ java_ssl_write_exit(t, c)
    \/ ret_tls_conn_read(t, c)
    \/ ret_tls_conn_write(t, c)

\* Inside a library call a thread makes system calls on the object's connection
\* only, and no thread closes that.
SocketStep(t) ==
    \/ ReportStep(t) \/ RetStep(t) \/ DataStep(t) \/ CloseStep(t)
    \/ ~Inside(t) /\ OpenStep(t)
    \/ \E f \in Fds :
         \/ (Inside(t) => bio[ssl[t].h].mode # "node" /\ f = bio[ssl[t].h].fd) /\ EnterStep(t, f)
         \/ (\A u \in Threads : Inside(u) => f # bio[ssl[u].h].fd) /\ EnterCloseStep(t, f)

TlsNext ==
    \/ \E t \in Threads : SocketStep(t) /\ UNCHANGED tlsVars
    \/ \E t \in Threads : TlsData(t) /\ UNCHANGED tlsVars
    \/ \E t \in Threads, h \in Handles : ObjectStep(t, h) \/ EnterTlsStep(t, h)
    \/ \E t \in Threads, c \in (scope.carries \ {"hello"}) \cup {NONE} : RetTlsStep(t, c)
    \/ \E h \in Handles : Evict(h)

TlsSpec == TlsInit /\ [][TlsNext]_<<vars, tlsVars>>

-----------------------------------------------------------------------------

\* What is remembered for a TLS object is the descriptor that this object is
\* bound to: an object that is freed leaves nothing to the next one at its
\* address ("remove the ssl pointer from the fd map"), and an answer that an
\* earlier call left is not taken for this one's.
RememberedIsBound ==
    \A h \in Handles : ssl_to_fd_map[h] # NONE => ssl_to_fd_map[h] = bio[h].fd

\* Once plain bytes of a TLS library have been reported for a connection, no
\* bytes of its system calls are: they are ciphertext.
NoCiphertext ==
    \A i, j \in DOMAIN ring :
      /\ i < j
      /\ ring[i].kind = "data" /\ ring[j].kind = "data"
      /\ ring[i].cookie = ring[j].cookie
      /\ ring[i].ssl
      => ring[j].ssl
=============================================================================
