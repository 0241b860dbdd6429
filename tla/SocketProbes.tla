---------------------------- MODULE SocketProbes ----------------------------
(***************************************************************************)
(* The kernel's socket probes (bpf/tap/socket.bpf.c, sock_pid_fd.bpf.c):   *)
(* the threads of one process make system calls, tracepoints and kprobes   *)
(* run at their entry, inside them and at their exit, and keep what they   *)
(* know of a connection in conn_info_map, under its descriptor.  They      *)
(* report open, protocol, hello, data and close events to user space       *)
(* through a ring buffer.                                                  *)
(*                                                                         *)
(* A probe runs to its end on its own CPU while other threads' probes run  *)
(* on theirs.  A probe is therefore cut into steps where it reads or       *)
(* writes a connection that another thread's probe may use as well.  The   *)
(* order of the ring buffer is the order of the reservations.              *)
(*                                                                         *)
(* Outside the model: the kernel's descriptors, files and cookies          *)
(* (described as far as the probes see them), the wording of events, the   *)
(* type and the addresses in the open event, the byte counts (a direction  *)
(* has seen bytes or it has not), and the cutting of data into chunks,     *)
(* which is in ProbeBuffers.                                               *)
(***************************************************************************)
EXTENDS Naturals, Sequences, ProbeFilters

CONSTANTS
    Threads,   \* the threads of the process
    Fds,       \* descriptors
    ListenFd,  \* the descriptor that connections are accepted on
    Socks,     \* the kernel's sockets, each with its file and its cookie
    Elems,     \* the elements of conn_info_map
    Scopes,    \* settings, process and remote address (see ProbeFilters), with
               \* the system calls that each thread of the process makes (uses),
               \* a bound on their number (most), what the connections
               \* carry (carries), and a bound on the reservations that find the
               \* ring buffer full (drops)
    NONE

WriteCalls == {"sendto", "write", "writev", "sendmsg"}
ReadCalls == {"recvfrom", "read", "readv", "recvmsg"}
Calls ==
    WriteCalls \cup ReadCalls
      \cup {"socket", "connect", "accept", "accept4", "peek", "close", "drop"}
\* The library calls of TlsProbes.
TlsCalls ==
    {"SSL_set_fd", "SSL_set_bio", "TLSWrap", "SSL_set_cert_cb", "SSL_free", "SSL_read",
     "SSL_read_ex", "SSL_write", "SSL_write_ex", "java_new", "java_read", "java_write",
     "go_new", "go_read", "go_write"}

\* What a buffer holds, as far as detection goes: the start of a message that
\* a detector knows, the greeting that makes detect_mysql expect STARTTLS, a
\* TLS handshake record, or none of these.
Contents == {"http1", "mysql", "hello", "opaque"}

ASSUME SocketAssumption ==
    /\ \A p \in Scopes :
         /\ p.uses \in [Threads -> SUBSET (Calls \cup TlsCalls)]
         /\ p.most \in [Threads -> Nat]
         /\ p.carries \subseteq Contents
         /\ p.strategy \in Strategies
         /\ p.drops \in Nat
    /\ ListenFd \notin Fds
    /\ NONE \notin Threads \cup Fds \cup Socks \cup Elems

VARIABLES
    fdtab,    \* kernel: the socket of each descriptor
    fresh,    \* kernel: the sockets not made yet
    cookies,  \* kernel: the sockets that have a cookie
    thr,      \* where each thread is
    calls,    \* how many calls each thread has made
    addr_args,        \* active_addr_args_map
    io_args,          \* active_read_args_map, active_write_args_map: whose buffer
    close_args,       \* active_close_args_map
    fd_requests,      \* uprobe_fd_requests: NONE, "asked", or the descriptor
    file_to_pid_fd,   \* active_file_to_pid_fd_map
    pid_fd_to_sock,   \* pid_fd_to_sock_map
    conn_info_map,    \* the element of each descriptor
    conn,             \* what the elements hold
    ring,             \* socket_events, as a history
    losses,           \* reservations that failed
    scope             \* the settings, chosen once

kernelVars == <<fdtab, fresh, cookies>>
argVars == <<addr_args, io_args, close_args, fd_requests>>
fileVars == <<file_to_pid_fd, pid_fd_to_sock>>
connVars == <<conn_info_map, conn>>
ringVars == <<ring, losses>>
vars == <<kernelVars, thr, calls, argVars, fileVars, connVars, ringVars, scope>>

Dir(op) == IF op \in ReadCalls \cup {"ssl_read"} THEN "in" ELSE "out"

\* A thread: the probe step it is at, its call, descriptor and file, what the
\* call moved (NONE: it failed), the connection the probe holds, its slot in the
\* ring buffer, the stashed protocol and tls_just_upgraded.
Idle == [at |-> "user", op |-> "none", fd |-> NONE, sock |-> NONE, data |-> NONE,
         elem |-> NONE, slot |-> 0, was |-> "unknown", up |-> FALSE]

Unused ==
    [function |-> "client", cookie |-> NONE, is_open |-> FALSE, ignore |-> FALSE,
     protocol |-> "unknown", is_ssl |-> FALSE, tls_upgrade_pending |-> FALSE,
     rd |-> FALSE, wr |-> FALSE]

\* process_syscall_addr: the connection as it is inserted.
NewConn(function) == [Unused EXCEPT !.function = function]

Init ==
    /\ fdtab = [f \in Fds |-> NONE]
    /\ fresh = Socks
    /\ cookies = {}
    /\ thr = [t \in Threads |-> Idle]
    /\ calls = [t \in Threads |-> 0]
    /\ addr_args = [f \in Fds \cup {ListenFd} |-> FALSE]
    /\ io_args = [d \in {"in", "out"} |-> [f \in Fds |-> NONE]]
    /\ close_args = [f \in Fds |-> FALSE]
    /\ fd_requests = [t \in Threads |-> NONE]
    /\ file_to_pid_fd = [s \in Socks |-> NONE]
    /\ pid_fd_to_sock = [f \in Fds |-> NONE]
    /\ conn_info_map = [f \in Fds |-> NONE]
    /\ conn = [e \in Elems |-> Unused]
    /\ ring = <<>>
    /\ losses = 0
    /\ scope \in Scopes

-----------------------------------------------------------------------------
\* Steps of a thread

Call(t, op) ==
    /\ thr[t].at = "user"
    /\ op \in scope.uses[t]
    /\ calls[t] < scope.most[t]
    /\ calls' = [calls EXCEPT ![t] = @ + 1]

Begin(t, op, r) == Call(t, op) /\ thr' = [thr EXCEPT ![t] = r]

Goto(t, at) == thr' = [thr EXCEPT ![t].at = at]
Return(t) == thr' = [thr EXCEPT ![t] = Idle]

InCall(f) == {u \in Threads : thr[u].at # "user" /\ thr[u].fd = f}

\* What a correct program does with a descriptor: it uses one that is open, that
\* accept has returned, and that no thread has called close on; and it closes one
\* that no thread is using.  The probes of an earlier close of the descriptor may
\* still be running.
Usable(f) ==
    /\ fdtab[f] # NONE
    /\ \A u \in InCall(f) : thr[u].op \notin {"accept", "accept4"} /\ thr[u].at # "close"

Closable(f) ==
    /\ fdtab[f] # NONE
    /\ \A u \in InCall(f) : thr[u].at \in {"fput", "ret_close"}

-----------------------------------------------------------------------------
\* The ring buffer

Event(kind, e, t) ==
    [kind |-> kind, cookie |-> conn[e].cookie, state |-> "sent",
     ssl |-> conn[e].is_ssl, of |-> thr[t].sock, function |-> conn[e].function]

\* bpf_ringbuf_reserve and _submit, or bpf_ringbuf_output, in one step.
Emit(ev) ==
    \/ ring' = Append(ring, ev) /\ UNCHANGED losses
    \/ losses < scope.drops /\ losses' = losses + 1 /\ UNCHANGED ring

\* The records of a kind that reach user space for a cookie.
Sent(kind, c) ==
    {i \in DOMAIN ring : ring[i].state = "sent" /\ ring[i].kind = kind /\ ring[i].cookie = c}

-----------------------------------------------------------------------------
\* Sockets, files and descriptors

\* sock_alloc_file and fd_install, inside socket or accept.
fd_install(f, s) ==
    /\ fdtab[f] = NONE
    /\ s \in fresh
    /\ fdtab' = [fdtab EXCEPT ![f] = s]
    /\ fresh' = fresh \ {s}
    /\ pid_fd_to_sock' = [pid_fd_to_sock EXCEPT ![f] = s]
    /\ file_to_pid_fd' = [file_to_pid_fd EXCEPT ![s] = f]

\* socket: other threads know the descriptor only when the call has returned.
Socket(t, f, s) ==
    /\ Begin(t, "socket", Idle)
    /\ fd_install(f, s)
    /\ UNCHANGED <<cookies, argVars, connVars, ringVars, scope>>

\* A program may connect again (to learn how a connect in the background
\* ended), but not what it accepted.
EnterConnect(t, f) ==
    /\ Usable(f)
    /\ conn_info_map[f] # NONE => conn[conn_info_map[f]].function = "client"
    /\ Begin(t, "connect", [Idle EXCEPT !.at = "tcp_connect", !.op = "connect", !.fd = f,
                                        !.sock = fdtab[f]])
    /\ addr_args' = [addr_args EXCEPT ![f] = TRUE]
    /\ UNCHANGED <<kernelVars, io_args, close_args, fd_requests, fileVars, connVars, ringVars, scope>>

\* tcp_v4_connect, tcp_v6_connect at their exit: the socket gets its cookie.
TcpConnect(t) ==
    /\ thr[t].at = "tcp_connect"
    /\ cookies' = cookies \cup {thr[t].sock}
    /\ Goto(t, "ret_addr")
    /\ UNCHANGED <<fdtab, fresh, calls, argVars, fileVars, connVars, ringVars, scope>>

EnterAccept(t, op) ==
    /\ Begin(t, op, [Idle EXCEPT !.at = "accept", !.op = op])
    /\ addr_args' = [addr_args EXCEPT ![ListenFd] = TRUE]
    /\ UNCHANGED <<kernelVars, io_args, close_args, fd_requests, fileVars, connVars, ringVars, scope>>

\* The kernel accepts a connection.
Accepted(t, f, s) ==
    /\ thr[t].at = "accept"
    /\ fd_install(f, s)
    /\ thr' = [thr EXCEPT ![t].at = "ret_addr", ![t].fd = f, ![t].sock = s]
    /\ UNCHANGED <<cookies, calls, argVars, connVars, ringVars, scope>>

\* The call fails: the probe of accept returns before it removes its arguments.
AcceptFails(t) ==
    /\ thr[t].at = "accept"
    /\ addr_args' = IF thr[t].op = "accept" THEN addr_args
                                            ELSE [addr_args EXCEPT ![ListenFd] = FALSE]
    /\ Return(t)
    /\ UNCHANGED <<kernelVars, calls, io_args, close_args, fd_requests, fileVars, connVars, ringVars, scope>>

\* The elements that an insertion may take.  One that a running probe still
\* points to is not handed out again (an assumption on the kernel's free lists).
FreeElems ==
    Elems \ ({conn_info_map[f] : f \in Fds} \cup {thr[t].elem : t \in Threads})

\* process_syscall_addr: insert the connection, whatever was there, and go on
\* with the element in the map.
process_syscall_addr(t, function) ==
    \E e \in FreeElems :
      /\ conn_info_map' = [conn_info_map EXCEPT ![thr[t].fd] = e]
      /\ conn' = [conn EXCEPT ![e] = NewConn(function)]
      /\ thr' = [thr EXCEPT ![t].at = "open", ![t].elem = e]

\* The exit probes of connect, accept and accept4; connect's ignores the result.
RetAddr(t, ops, key, function) ==
    /\ thr[t].at = "ret_addr"
    /\ thr[t].op \in ops
    /\ addr_args' = [addr_args EXCEPT ![key] = FALSE]
    /\ IF addr_args[key]
         THEN process_syscall_addr(t, function)
         ELSE Return(t) /\ UNCHANGED connVars
    /\ UNCHANGED <<kernelVars, calls, io_args, close_args, fd_requests, fileVars, ringVars, scope>>

RetConnect(t) == RetAddr(t, {"connect"}, thr[t].fd, "client")
RetAccept(t) == RetAddr(t, {"accept"}, ListenFd, "server")
RetAccept4(t) == RetAddr(t, {"accept4"}, ListenFd, "server")

-----------------------------------------------------------------------------
\* submit_open_event, called from process_syscall_addr and from init_conn

EndOpen(t) ==
    IF thr[t].op \in {"connect", "accept", "accept4"}
      THEN Return(t)
      ELSE thr' = [thr EXCEPT ![t].at = "tls", ![t].slot = 0]

\* Mutant: the connection is marked open before the reservation.
OpenLostMarked(t, e) ==
    /\ losses < scope.drops
    /\ losses' = losses + 1
    /\ conn' = [conn EXCEPT ![e].is_open = TRUE, ![e].cookie = thr[t].sock]
    /\ EndOpen(t)
    /\ UNCHANGED ring

\* The ring buffer is full: the connection stays without a cookie.
OpenLost(t, e) ==
    /\ losses < scope.drops
    /\ losses' = losses + 1
    /\ EndOpen(t)
    /\ UNCHANGED <<conn, ring>>

\* The tests at its start, and the reservation.
OpenReserve(t) ==
    LET e == thr[t].elem IN
    /\ thr[t].at = "open"
    /\ \/ /\ conn[e].is_open
          /\ EndOpen(t)
          /\ UNCHANGED <<conn, ringVars>>
       \/ /\ ~conn[e].is_open /\ scope.strategy = "ignore"
          /\ conn' = [conn EXCEPT ![e].ignore = TRUE]
          /\ EndOpen(t)
          /\ UNCHANGED ringVars
       \/ /\ ~conn[e].is_open /\ scope.strategy # "ignore"
          /\ ring' = Append(ring, [kind |-> "open", cookie |-> NONE, state |-> "busy",
                                   ssl |-> FALSE, of |-> thr[t].sock,
                                   function |-> conn[e].function])
          /\ thr' = [thr EXCEPT ![t].at = "fill", ![t].slot = Len(ring) + 1]
          /\ UNCHANGED <<conn, losses>>
       \/ ~conn[e].is_open /\ scope.strategy # "ignore" /\ OpenLost(t, e)
    /\ UNCHANGED <<kernelVars, calls, argVars, fileVars, conn_info_map, scope>>

\* The cookie, zero or not, of the socket behind the descriptor.
CookieOf(s) == IF s \in cookies THEN s ELSE NONE

\* Mutant: a connection that is ignored is reported.
ReportableAny(ignore, c) == c # NONE

Reportable(ignore, c) == ~ignore /\ c # NONE

\* The cookie is stored, the filters are applied, the record is submitted or
\* discarded.
OpenSubmit(t) ==
    LET e == thr[t].elem
        s == pid_fd_to_sock[thr[t].fd]
        c == IF s = NONE THEN conn[e].cookie ELSE CookieOf(s)
        ignore == conn[e].ignore \/ IgnoredAtOpen(scope, conn[e].function)
        send == Reportable(ignore, c)
    IN  /\ thr[t].at = "fill"
        /\ conn' = [conn EXCEPT ![e].cookie = c, ![e].ignore = ignore]
        /\ ring' = [ring EXCEPT ![thr[t].slot].cookie = c,
                                ![thr[t].slot].state = IF send THEN "sent" ELSE "void"]
        /\ IF send THEN Goto(t, "mark") ELSE EndOpen(t)
        /\ UNCHANGED <<kernelVars, calls, argVars, fileVars, conn_info_map, losses, scope>>

OpenMark(t) ==
    /\ thr[t].at = "mark"
    /\ conn' = [conn EXCEPT ![thr[t].elem].is_open = TRUE]
    /\ EndOpen(t)
    /\ UNCHANGED <<kernelVars, calls, argVars, fileVars, conn_info_map, ringVars, scope>>

-----------------------------------------------------------------------------
\* Reads and writes

\* A program has one reader and one writer at a time on a stream socket.
Alone(f, ops) == \A u \in InCall(f) : thr[u].op \notin ops

\* respond_to_fd_request
Respond(t, f) ==
    fd_requests' = IF fd_requests[t] = NONE THEN fd_requests
                                            ELSE [fd_requests EXCEPT ![t] = f]

\* The entry probes store the buffer; those of the write side and of recvfrom
\* answer a request for the descriptor at once.
EnterIO(t, f, op, ops) ==
    /\ Usable(f)
    /\ Alone(f, ops)
    /\ Begin(t, op, [Idle EXCEPT !.at = "io", !.op = op, !.fd = f, !.sock = fdtab[f]])
    /\ io_args' = [io_args EXCEPT ![Dir(op)][f] = t]
    /\ IF op \in WriteCalls \cup {"recvfrom"} THEN Respond(t, f) ELSE UNCHANGED fd_requests
    /\ UNCHANGED <<kernelVars, addr_args, close_args, fileVars, connVars, ringVars, scope>>

EnterSendto(t, f) == EnterIO(t, f, "sendto", WriteCalls)
EnterWrite(t, f) == EnterIO(t, f, "write", WriteCalls)
EnterWritev(t, f) == EnterIO(t, f, "writev", WriteCalls)
EnterSendmsg(t, f) == EnterIO(t, f, "sendmsg", WriteCalls)
EnterRecvfrom(t, f) == EnterIO(t, f, "recvfrom", ReadCalls)
EnterRead(t, f) == EnterIO(t, f, "read", ReadCalls)
EnterReadv(t, f) == EnterIO(t, f, "readv", ReadCalls)
EnterRecvmsg(t, f) == EnterIO(t, f, "recvmsg", ReadCalls)

\* The kernel moves bytes, or fails; tcp_recvmsg's exit probe makes it give the
\* socket a cookie either way.
Transfer(t, c) ==
    /\ thr[t].at = "io"
    /\ thr' = [thr EXCEPT ![t].at = "init", ![t].data = c]
    /\ cookies' = IF thr[t].op \in ReadCalls THEN cookies \cup {thr[t].sock} ELSE cookies
    /\ UNCHANGED <<fdtab, fresh, calls, argVars, fileVars, connVars, ringVars, scope>>

\* The bytes in the buffer that the arguments name: in another thread's buffer
\* they may be anything.
Seen(t) ==
    LET owner == io_args[Dir(thr[t].op)][thr[t].fd] IN
    IF thr[t].op \in {"ssl_read", "ssl_write"} \/ owner = t THEN {thr[t].data} ELSE scope.carries

\* On to the exit probe that runs second, which holds no connection yet.
ToMain(t) == thr' = [thr EXCEPT ![t].at = "main", ![t].elem = NONE]

\* The exit probes that run first (init_conn): those of read, readv and recvmsg
\* answer a request for the descriptor.  A connection without a cookie whose
\* socket has one now is reported.
RetInit(t, op) ==
    LET f == thr[t].fd
        e == conn_info_map[f]
        s == pid_fd_to_sock[f]
        runs == thr[t].data # NONE /\ io_args[Dir(op)][f] # NONE
    IN  /\ thr[t].at = "init"
        /\ thr[t].op = op
        /\ IF runs /\ op \in {"read", "readv", "recvmsg"} THEN Respond(t, f)
                                                          ELSE UNCHANGED fd_requests
        /\ \/ /\ ~runs \/ e = NONE
              /\ ToMain(t)
              /\ UNCHANGED conn
           \/ /\ runs /\ e # NONE /\ scope.strategy = "ignore"
              /\ conn' = [conn EXCEPT ![e].ignore = TRUE]
              /\ ToMain(t)
           \/ /\ runs /\ e # NONE /\ scope.strategy # "ignore"
              /\ thr' = [thr EXCEPT
                           ![t].elem = e,
                           ![t].at = IF conn[e].cookie = NONE /\ s # NONE /\ CookieOf(s) # NONE
                                       THEN "open" ELSE "tls"]
              /\ UNCHANGED conn
        /\ UNCHANGED <<kernelVars, calls, addr_args, io_args, close_args, fileVars, conn_info_map, ringVars, scope>>

RetSendtoInit(t) == RetInit(t, "sendto")
RetWriteInit(t) == RetInit(t, "write")
RetWritevInit(t) == RetInit(t, "writev")
RetSendmsgInit(t) == RetInit(t, "sendmsg")
RetRecvfromInit(t) == RetInit(t, "recvfrom")
RetReadInit(t) == RetInit(t, "read")
RetReadvInit(t) == RetInit(t, "readv")
RetRecvmsgInit(t) == RetInit(t, "recvmsg")

\* The second half of init_conn: look for TLS on the first bytes of a direction
\* or while an upgrade is expected; a protocol reported in plain is reported
\* again when the upgrade is seen.
InitTls(t) ==
    LET e == thr[t].elem
        first == IF Dir(thr[t].op) = "in" THEN ~conn[e].rd ELSE ~conn[e].wr
        check == first \/ (conn[e].tls_upgrade_pending /\ ~conn[e].is_ssl)
    IN  /\ thr[t].at = "tls"
        /\ \/ ~check /\ ToMain(t) /\ UNCHANGED <<conn, ringVars>>
           \/ /\ check
              /\ \E c \in Seen(t) :
                   LET is_ssl == conn[e].is_ssl \/ c = "hello"
                       upgraded == is_ssl /\ conn[e].tls_upgrade_pending
                   IN  /\ conn' = [conn EXCEPT ![e].is_ssl = is_ssl,
                                               ![e].tls_upgrade_pending = @ /\ ~is_ssl]
                       /\ IF upgraded /\ conn[e].protocol # "unknown"
                            THEN Emit([Event("proto", e, t) EXCEPT !.ssl = TRUE])
                            ELSE UNCHANGED ringVars
                       /\ IF c = "hello" /\ scope.strategy \notin {"forward", "proxy"}
                            THEN Goto(t, "hello") ELSE ToMain(t)
        /\ UNCHANGED <<kernelVars, calls, argVars, fileVars, conn_info_map, scope>>

\* The handshake goes to user space, for a client hello or a server hello.
InitHello(t) ==
    /\ thr[t].at = "hello"
    /\ Emit(Event("hello", thr[t].elem, t))
    /\ ToMain(t)
    /\ UNCHANGED <<kernelVars, calls, argVars, fileVars, connVars, scope>>

\* A peek is not recorded: only the cookie comes of it.
Peek(t, f) ==
    /\ Usable(f)
    /\ Begin(t, "peek", Idle)
    /\ cookies' = cookies \cup {fdtab[f]}
    /\ UNCHANGED <<fdtab, fresh, argVars, fileVars, connVars, ringVars, scope>>

\* detect_protocol
Detected(c) ==
    IF scope.dns THEN "dns" ELSE IF c \in {"http1", "mysql"} THEN c ELSE "unknown"

\* The end of an exit probe: the arguments are removed.
EndData(t) ==
    /\ Return(t)
    /\ io_args' = IF thr[t].op \in {"ssl_read", "ssl_write"}
                    THEN io_args ELSE [io_args EXCEPT ![Dir(thr[t].op)][thr[t].fd] = NONE]

\* Mutant: the bytes under TLS are not told from plain ones.
CiphertextUnknown(e, ssl) == FALSE

\* A system call moved what a TLS library encrypts.
Ciphertext(e, ssl) == ~ssl /\ conn[e].is_ssl

\* process_data up to the detection.  A connection that is not reported yet has
\* its protocol detected and nothing else.
Data(t, ssl) ==
    LET e == conn_info_map[thr[t].fd]
        counted == [conn EXCEPT ![e].rd = @ \/ (~ssl /\ Dir(thr[t].op) = "in"),
                                ![e].wr = @ \/ (~ssl /\ Dir(thr[t].op) = "out")]
    IN  \/ e = NONE /\ EndData(t) /\ UNCHANGED conn
        \/ /\ e # NONE /\ ~conn[e].is_open
           /\ IF conn[e].protocol = "unknown"
                THEN \E c \in Seen(t) :
                       conn' = [conn EXCEPT
                                  ![e].protocol = Detected(c),
                                  ![e].tls_upgrade_pending = @ \/ Detected(c) = "mysql"]
                ELSE UNCHANGED conn
           /\ EndData(t)
        \/ /\ e # NONE /\ conn[e].is_open
           /\ \/ conn[e].ignore \/ scope.strategy \in {"ignore", "forward", "proxy"}
              \/ Ciphertext(e, ssl)
           /\ conn' = [counted EXCEPT ![e].ignore = @ \/ scope.strategy = "ignore"]
           /\ EndData(t)
        \/ /\ e # NONE /\ conn[e].is_open /\ ~conn[e].ignore
           /\ scope.strategy \notin {"ignore", "forward", "proxy"}
           /\ ~Ciphertext(e, ssl)
           /\ conn' = [counted EXCEPT ![e].is_ssl = @ \/ ssl]
           /\ thr' = [thr EXCEPT
                        ![t].at = "detect", ![t].elem = e, ![t].was = conn[e].protocol,
                        ![t].up = ssl /\ ~conn[e].is_ssl /\ conn[e].protocol # "unknown"]
           /\ UNCHANGED io_args

\* The exit probes that run second (process_data).
Ret(t, op) ==
    LET f == thr[t].fd
        runs == thr[t].data # NONE /\ io_args[Dir(op)][f] # NONE
    IN  /\ thr[t].at = "main"
        /\ thr[t].op = op
        /\ IF runs /\ op \in {"read", "readv", "recvmsg"} THEN Respond(t, f)
                                                          ELSE UNCHANGED fd_requests
        /\ IF runs THEN Data(t, FALSE) ELSE EndData(t) /\ UNCHANGED conn
        /\ UNCHANGED <<kernelVars, calls, addr_args, close_args, fileVars, conn_info_map, ringVars, scope>>

RetSendto(t) == Ret(t, "sendto")
RetWrite(t) == Ret(t, "write")
RetWritev(t) == Ret(t, "writev")
RetSendmsg(t) == Ret(t, "sendmsg")
RetRecvfrom(t) == Ret(t, "recvfrom")
RetRead(t) == Ret(t, "read")
RetReadv(t) == Ret(t, "readv")
RetRecvmsg(t) == Ret(t, "recvmsg")

\* detect_protocol starts by storing P_UNKNOWN: a second detector undoes a first.
DataDetect(t) ==
    LET e == thr[t].elem IN
    /\ thr[t].at = "detect"
    /\ IF thr[t].was = "unknown"
         THEN \E c \in Seen(t) :
                conn' = [conn EXCEPT ![e].protocol = Detected(c),
                                     ![e].tls_upgrade_pending = @ \/ Detected(c) = "mysql"]
         ELSE UNCHANGED conn
    /\ Goto(t, "proto")
    /\ UNCHANGED <<kernelVars, calls, argVars, fileVars, conn_info_map, ringVars, scope>>

\* The skip tests, the protocol event and the stream decision.
DataProto(t) ==
    LET e == thr[t].elem
        known == conn[e].protocol # "unknown"
        skip == Skipped(scope, conn[e].protocol, conn[e].is_ssl)
        stream == Streamed(scope, conn[e].function, conn[e].protocol)
    IN  /\ thr[t].at = "proto"
        /\ IF ~skip /\ known /\ (thr[t].was = "unknown" \/ thr[t].up)
             THEN Emit(Event("proto", e, t)) ELSE UNCHANGED ringVars
        /\ conn' = [conn EXCEPT ![e].ignore = @ \/ skip \/ (known /\ ~stream)]
        /\ IF ~skip /\ known /\ stream THEN Goto(t, "data") /\ UNCHANGED io_args
                                       ELSE EndData(t)
        /\ UNCHANGED <<kernelVars, calls, addr_args, close_args, fd_requests, fileVars, conn_info_map, scope>>

\* The data, as one event for all its chunks.
DataEmit(t) ==
    /\ thr[t].at = "data"
    /\ Emit([Event("data", thr[t].elem, t) EXCEPT !.ssl = thr[t].op \in {"ssl_read", "ssl_write"}])
    /\ EndData(t)
    /\ UNCHANGED <<kernelVars, calls, addr_args, close_args, fd_requests, fileVars, connVars, scope>>

-----------------------------------------------------------------------------
\* Closing

\* Mutant: the connection stays in the map.
process_closeKept(t, f) ==
    LET e == conn_info_map[f] IN
    /\ UNCHANGED conn_info_map
    /\ IF e # NONE /\ conn[e].is_open THEN Emit(Event("close", e, t)) ELSE UNCHANGED ringVars

\* process_close
process_close(t, f) ==
    LET e == conn_info_map[f] IN
    /\ conn_info_map' = [conn_info_map EXCEPT ![f] = NONE]
    /\ IF e # NONE /\ conn[e].is_open THEN Emit(Event("close", e, t)) ELSE UNCHANGED ringVars

EnterClose(t, f) ==
    /\ Closable(f)
    /\ Begin(t, "close", [Idle EXCEPT !.at = "close", !.op = "close", !.fd = f,
                                      !.sock = fdtab[f]])
    /\ close_args' = [close_args EXCEPT ![f] = TRUE]
    /\ UNCHANGED <<kernelVars, addr_args, io_args, fd_requests, fileVars, connVars, ringVars, scope>>

\* close_range, dup2 or the end of the process: no call of close.
Drop(t, f) ==
    /\ Closable(f)
    /\ Begin(t, "drop", [Idle EXCEPT !.at = "fput", !.op = "drop", !.fd = f,
                                     !.sock = fdtab[f]])
    /\ fdtab' = [fdtab EXCEPT ![f] = NONE]
    /\ UNCHANGED <<fresh, cookies, argVars, fileVars, connVars, ringVars, scope>>

\* The kernel frees the descriptor; the file is released before the exit probe
\* or after it, as the kernel's version has it.
KernelClose(t) ==
    /\ thr[t].at = "close"
    /\ fdtab' = [fdtab EXCEPT ![thr[t].fd] = NONE]
    /\ \E next \in {"fput", "ret_close"} : Goto(t, next)
    /\ UNCHANGED <<fresh, cookies, calls, argVars, fileVars, connVars, ringVars, scope>>

\* Mutant: the descriptor keeps its socket.
ForgetFileOnly(s, key) ==
    /\ file_to_pid_fd' = [file_to_pid_fd EXCEPT ![s] = NONE]
    /\ UNCHANGED pid_fd_to_sock

ForgetFile(s, key) ==
    /\ file_to_pid_fd' = [file_to_pid_fd EXCEPT ![s] = NONE]
    /\ pid_fd_to_sock' = [pid_fd_to_sock EXCEPT ![key] = NONE]

\* __fput: the descriptor the file was installed under.
Fput(t) ==
    LET s == thr[t].sock
        key == file_to_pid_fd[s]
    IN  /\ thr[t].at = "fput"
        /\ IF key = NONE
             THEN UNCHANGED <<fileVars, conn_info_map, ringVars>>
             ELSE process_close(t, key) /\ ForgetFile(s, key)
        /\ IF thr[t].op = "close" THEN Goto(t, "ret_close") ELSE Return(t)
        /\ UNCHANGED <<kernelVars, calls, argVars, conn, scope>>

\* The exit probe of close; it ignores the result.  A file that is still to be
\* released is released as one that was dropped.
RetClose(t) ==
    LET f == thr[t].fd IN
    /\ thr[t].at = "ret_close"
    /\ close_args' = [close_args EXCEPT ![f] = FALSE]
    /\ IF close_args[f] THEN process_close(t, f) ELSE UNCHANGED <<conn_info_map, ringVars>>
    /\ IF file_to_pid_fd[thr[t].sock] = NONE
         THEN Return(t)
         ELSE thr' = [thr EXCEPT ![t].at = "fput", ![t].op = "drop"]
    /\ UNCHANGED <<kernelVars, calls, addr_args, io_args, fd_requests, fileVars, conn, scope>>

-----------------------------------------------------------------------------
OpenStep(t) ==
    \/ \E f \in Fds, s \in Socks : Socket(t, f, s)
    \/ \E f \in Fds : EnterConnect(t, f)
    \/ TcpConnect(t)
    \/ RetConnect(t)
    \/ \E op \in {"accept", "accept4"} : EnterAccept(t, op)
    \/ \E f \in Fds, s \in Socks : Accepted(t, f, s)
    \/ AcceptFails(t)
    \/ RetAccept(t)
    \/ RetAccept4(t)

ReportStep(t) ==
    \/ OpenReserve(t)
    \/ OpenSubmit(t)
    \/ OpenMark(t)

EnterStep(t, f) ==
    \/ EnterSendto(t, f)
    \/ EnterWrite(t, f)
    \/ EnterWritev(t, f)
    \/ EnterSendmsg(t, f)
    \/ EnterRecvfrom(t, f)
    \/ EnterRead(t, f)
    \/ EnterReadv(t, f)
    \/ EnterRecvmsg(t, f)
    \/ Peek(t, f)

RetStep(t) ==
    \/ RetSendtoInit(t) \/ RetSendto(t)
    \/ RetWriteInit(t) \/ RetWrite(t)
    \/ RetWritevInit(t) \/ RetWritev(t)
    \/ RetSendmsgInit(t) \/ RetSendmsg(t)
    \/ RetRecvfromInit(t) \/ RetRecvfrom(t)
    \/ RetReadInit(t) \/ RetRead(t)
    \/ RetReadvInit(t) \/ RetReadv(t)
    \/ RetRecvmsgInit(t) \/ RetRecvmsg(t)

DataStep(t) ==
    \/ \E c \in scope.carries \cup {NONE} : Transfer(t, c)
    \/ InitTls(t)
    \/ InitHello(t)
    \/ DataDetect(t)
    \/ DataProto(t)
    \/ DataEmit(t)

EnterCloseStep(t, f) == EnterClose(t, f) \/ Drop(t, f)

CloseStep(t) ==
    \/ KernelClose(t)
    \/ Fput(t)
    \/ RetClose(t)

Next ==
    \E t \in Threads :
      \/ OpenStep(t)
      \/ ReportStep(t)
      \/ \E f \in Fds : EnterStep(t, f) \/ EnterCloseStep(t, f)
      \/ RetStep(t)
      \/ DataStep(t)
      \/ CloseStep(t)

Spec == Init /\ [][Next]_vars

-----------------------------------------------------------------------------

\* What user space is told of a connection's data and of its end comes after
\* the record that opens it: is_open is set only when the record is submitted.
ReportedBeforeUsed ==
    \A i \in DOMAIN ring :
      ring[i].state = "sent" /\ ring[i].kind \in {"data", "close"} =>
        \E j \in Sent("open", ring[i].cookie) : j < i

\* One thread of the program opens and closes all connections, so that no
\* descriptor is handed out again before its close has ended.
OneOpener ==
    \E o \in Threads : \A t \in Threads \ {o} :
      scope.uses[t] \cap {"socket", "accept", "accept4", "close", "drop"} = {}

\* In such a program bytes are reported for the connection whose call moved them,
\* even when the descriptor has had another connection before.
DataBelongs ==
    OneOpener =>
      \A i \in DOMAIN ring :
        ring[i].kind \in {"data", "hello"} /\ ring[i].cookie # NONE =>
          ring[i].cookie = ring[i].of

\* In such a program a close is the last record of its connection, and when no
\* record is lost, a connection that was opened and is gone has been closed once,
\* whether the program called close or the file was just released.
CloseIsFinal ==
    OneOpener =>
      /\ \A i, j \in DOMAIN ring :
           ring[i].kind = "close" /\ j > i /\ ring[j].state = "sent" =>
             ring[j].cookie # ring[i].cookie
      /\ losses = 0 =>
           \A c \in Socks :
             /\ Sent("open", c) # {}
             /\ \A f \in Fds : fdtab[f] # c
             /\ \A t \in Threads : thr[t].sock # c
             => \E i \in DOMAIN ring : Sent("close", c) = {i}

\* A descriptor that is closed, with no call left on it, leaves nothing behind
\* in the maps that are keyed by descriptor.
NothingLeftBehind ==
    \A f \in Fds :
      fdtab[f] = NONE /\ InCall(f) = {} =>
        /\ conn_info_map[f] = NONE
        /\ pid_fd_to_sock[f] = NONE
        /\ ~addr_args[f] /\ ~close_args[f]
        /\ io_args["in"][f] = NONE /\ io_args["out"][f] = NONE

\* Nothing is reported of a process that is ignored, of a connection in a
\* direction or to an address that the settings exclude, and no data when the
\* process's traffic is forwarded or its data is skipped.
FiltersHold ==
    \A i \in DOMAIN ring :
      ring[i].state = "sent" /\ ring[i].kind \in {"open", "data", "close"} =>
        /\ scope.strategy # "ignore"
        /\ scope.direction = "ingress" => ring[i].function = "server"
        /\ scope.direction \in {"egress", "egress_internal", "egress_external"} =>
             ring[i].function = "client"
        /\ scope.loopback => ~is_local_ip(scope.remote)
        /\ ring[i].kind = "data" =>
             scope.strategy \in {"observe", "audit"} /\ "data" \notin scope.filter
=============================================================================
