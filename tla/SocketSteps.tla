---------------------------- MODULE SocketSteps ----------------------------
(***************************************************************************)
(* What the proofs about SocketProbes are made of: the invariants, and the *)
(* kinds of steps its actions are.                                         *)
(***************************************************************************)
EXTENDS SocketProbes

Accepts == {"accept", "accept4"}
AddrCalls == {"connect"} \cup Accepts
IoCalls == ReadCalls \cup WriteCalls

\* Where a thread's probe works on a descriptor that is open, where it holds a
\* connection, and where it closes.
Opening == {"open", "fill", "mark"}
Processing == {"detect", "proto", "data"}
Holding == Opening \cup {"tls", "hello"} \cup Processing
Using == Holding \cup {"tcp_connect", "ret_addr", "io", "init", "main"}
Released == {"fput", "ret_close"}
Closing == {"close"} \cup Released
Places == {"user", "accept"} \cup Using \cup Closing

ThreadRecs ==
    [at : Places, op : {"none", "close", "drop"} \cup AddrCalls \cup IoCalls,
     fd : Fds \cup {NONE}, sock : Socks \cup {NONE}, data : Contents \cup {NONE},
     elem : Elems \cup {NONE}, slot : Nat, was : Protocols, up : BOOLEAN]

ConnRecs ==
    [function : {"client", "server"}, cookie : Socks \cup {NONE}, is_open : BOOLEAN,
     ignore : BOOLEAN, protocol : Protocols, is_ssl : BOOLEAN, tls_upgrade_pending : BOOLEAN,
     rd : BOOLEAN, wr : BOOLEAN]

Events ==
    [kind : {"open", "proto", "hello", "data", "close"}, cookie : Socks \cup {NONE},
     state : {"busy", "sent", "void"}, ssl : BOOLEAN, of : Socks \cup {NONE},
     function : {"client", "server"}]

TypeInv ==
    /\ fdtab \in [Fds -> Socks \cup {NONE}]
    /\ fresh \subseteq Socks
    /\ cookies \subseteq Socks
    /\ thr \in [Threads -> ThreadRecs]
    /\ addr_args \in [Fds \cup {ListenFd} -> BOOLEAN]
    /\ io_args \in [{"in", "out"} -> [Fds -> Threads \cup {NONE}]]
    /\ close_args \in [Fds -> BOOLEAN]
    /\ file_to_pid_fd \in [Socks -> Fds \cup {NONE}]
    /\ pid_fd_to_sock \in [Fds -> Socks \cup {NONE}]
    /\ conn_info_map \in [Fds -> Elems \cup {NONE}]
    /\ conn \in [Elems -> ConnRecs]
    /\ ring \in Seq(Events)
    /\ losses \in Nat
    /\ scope \in Scopes

\* Where the threads are.
CallOf(t) ==
    /\ thr[t].at = "user" => thr[t].fd = NONE /\ thr[t].op = "none"
    /\ thr[t].at = "accept" => thr[t].fd = NONE /\ thr[t].op \in Accepts
    /\ thr[t].at \in Using =>
         /\ thr[t].op \in AddrCalls \cup IoCalls
         /\ thr[t].fd \in Fds /\ thr[t].sock \in Socks
         /\ fdtab[thr[t].fd] = thr[t].sock
    /\ thr[t].at = "tcp_connect" => thr[t].op = "connect"
    /\ thr[t].at = "ret_addr" => thr[t].op \in AddrCalls
    /\ thr[t].at \in Using \ ({"tcp_connect", "ret_addr"} \cup Opening) => thr[t].op \in IoCalls
    /\ thr[t].at \in Closing =>
         /\ thr[t].op \in {"close", "drop"}
         /\ thr[t].fd \in Fds /\ thr[t].sock \in Socks
    /\ thr[t].at = "close" => thr[t].op = "close" /\ fdtab[thr[t].fd] = thr[t].sock

CallsInv ==
    /\ \A t \in Threads : CallOf(t)
    /\ \A t, u \in Threads :
         t # u /\ thr[t].at = "close" /\ thr[u].at \notin Released => thr[u].fd # thr[t].fd

\* A connection is under one descriptor, and whoever holds it works on that.
HeldInv ==
    /\ \A t \in Threads : thr[t].elem \in Elems <=> thr[t].at \in Holding
    /\ \A f, g \in Fds : conn_info_map[f] \in Elems /\ conn_info_map[f] = conn_info_map[g] => f = g
    /\ \A t \in Threads, f \in Fds :
         thr[t].elem \in Elems /\ thr[t].elem = conn_info_map[f] => f = thr[t].fd
    /\ \A t, u \in Threads :
         thr[t].elem \in Elems /\ thr[t].elem = thr[u].elem => thr[t].fd = thr[u].fd

\* What the maps hold, somebody is there to remove.
LeftInv ==
    /\ \A f \in Fds : fdtab[f] # NONE => file_to_pid_fd[fdtab[f]] = f /\ fdtab[f] \notin fresh
    /\ \A t \in Threads :
         thr[t].at \in Released =>
           /\ thr[t].sock \notin fresh /\ file_to_pid_fd[thr[t].sock] \in {NONE, thr[t].fd}
           /\ \A f \in Fds : fdtab[f] # thr[t].sock
    /\ \A f \in Fds :
         fdtab[f] = NONE /\ (conn_info_map[f] # NONE \/ pid_fd_to_sock[f] # NONE) =>
           \E t \in Threads :
             thr[t].at \in Released /\ thr[t].fd = f /\ file_to_pid_fd[thr[t].sock] = f

\* The calls whose arguments the maps hold.
AddrBy(t, f) == thr[t].fd = f /\ thr[t].at \in {"tcp_connect", "ret_addr"} /\ thr[t].op = "connect"
CloseBy(t, f) == thr[t].fd = f /\ thr[t].at \in Closing /\ thr[t].op = "close"
IoBy(t, d, f) ==
    thr[t].fd = f /\ thr[t].at \in Using /\ thr[t].op \in IoCalls /\ Dir(thr[t].op) = d

ArgsInv ==
    \A f \in Fds :
      /\ addr_args[f] => \E t \in Threads : AddrBy(t, f)
      /\ close_args[f] => \E t \in Threads : CloseBy(t, f)
      /\ \A d \in {"in", "out"} : io_args[d][f] # NONE => \E t \in Threads : IoBy(t, d, f)

\* The record that opens a connection.
OpenSent(c) ==
    \E j \in DOMAIN ring : ring[j].state = "sent" /\ ring[j].kind = "open" /\ ring[j].cookie = c

\* The cookie that a submission on t's descriptor would store is the one stored.
Settled(t) ==
    pid_fd_to_sock[thr[t].fd] # NONE =>
      conn[thr[t].elem].cookie = pid_fd_to_sock[thr[t].fd] /\ conn[thr[t].elem].cookie \in cookies

SlotInv ==
    /\ \A t \in Threads :
         thr[t].at = "fill" =>
           /\ thr[t].slot \in DOMAIN ring
           /\ ring[thr[t].slot].state = "busy" /\ ring[thr[t].slot].kind = "open"
           /\ ring[thr[t].slot].function = conn[thr[t].elem].function
    /\ \A t, u \in Threads :
         thr[t].at = "fill" /\ thr[u].at = "fill" /\ thr[t].slot = thr[u].slot => t = u

OpenInv ==
    /\ \A i \in DOMAIN ring : ring[i].kind = "open" /\ ring[i].state = "sent" => ring[i].cookie # NONE
    /\ \A e \in Elems : conn[e].is_open => OpenSent(conn[e].cookie)
    /\ \A t \in Threads :
         /\ thr[t].at = "mark" => OpenSent(conn[thr[t].elem].cookie) /\ Settled(t)
         /\ thr[t].at = "fill" /\ conn[thr[t].elem].is_open => Settled(t)
         /\ thr[t].at \in Processing => conn[thr[t].elem].is_open
    /\ \A i \in DOMAIN ring :
         ring[i].state = "sent" /\ ring[i].kind \in {"data", "close"} =>
           \E j \in DOMAIN ring :
             /\ ring[j].state = "sent" /\ ring[j].kind = "open" /\ ring[j].cookie = ring[i].cookie
             /\ j < i

Passes(function) == scope.strategy # "ignore" /\ ~IgnoredAtOpen(scope, function)

FilterInv ==
    /\ \A e \in Elems : conn[e].is_open => Passes(conn[e].function)
    /\ \A t \in Threads :
         /\ thr[t].at = "fill" => scope.strategy # "ignore"
         /\ thr[t].at = "mark" => Passes(conn[thr[t].elem].function)
         /\ thr[t].at \in Processing => scope.strategy \in {"observe", "audit"}
         /\ thr[t].at = "data" => "data" \notin scope.filter
    /\ \A i \in DOMAIN ring :
         ring[i].state = "sent" /\ ring[i].kind \in {"open", "data", "close"} =>
           /\ Passes(ring[i].function)
           /\ ring[i].kind = "data" =>
                scope.strategy \in {"observe", "audit"} /\ "data" \notin scope.filter

Opener(t) == scope.uses[t] \cap {"socket", "accept", "accept4", "close", "drop"} # {}

OpenerInv ==
    \A t \in Threads : thr[t].op \in Accepts \cup {"close", "drop"} => Opener(t)

\* c is the socket behind f, or the one that is being closed on f.
Behind(f, c) ==
    \/ fdtab[f] = c
    \/ fdtab[f] = NONE /\ \E t \in Threads : thr[t].at \in Released /\ thr[t].fd = f /\ thr[t].sock = c

FreedInv ==
    /\ \A t \in Threads : thr[t].at \in Released => fdtab[thr[t].fd] = NONE
    /\ \A f \in Fds : fdtab[f] # NONE => pid_fd_to_sock[f] = fdtab[f]

\* The cookie of a connection is that of its socket.
CookieInv ==
    /\ \A f \in Fds :
         conn_info_map[f] # NONE /\ conn[conn_info_map[f]].cookie # NONE =>
           Behind(f, conn[conn_info_map[f]].cookie)
    /\ \A t \in Threads : thr[t].at \in Holding => conn[thr[t].elem].cookie \in {NONE, thr[t].sock}
    /\ \A i \in DOMAIN ring :
         ring[i].kind \in {"data", "hello"} => ring[i].cookie \in {NONE, ring[i].of}

\* A descriptor that accept has not returned is its thread's.
AcceptInv ==
    /\ \A t, u \in Threads :
         t # u /\ thr[t].at \in Using /\ thr[t].op \in Accepts => thr[u].fd # thr[t].fd
    /\ \A t \in Threads :
         /\ thr[t].at = "ret_addr" /\ thr[t].op \in Accepts => conn_info_map[thr[t].fd] = NONE
         /\ thr[t].at \in Holding /\ thr[t].op \in Accepts => conn[thr[t].elem].function = "server"

\* Who else reports a connection knows that its socket has a cookie.
KnownInv ==
    \A t \in Threads :
      /\ thr[t].at = "ret_addr" /\ thr[t].op = "connect" => thr[t].sock \in cookies
      /\ thr[t].at \in Opening /\ thr[t].op \notin Accepts => thr[t].sock \in cookies

OwnInv == FreedInv /\ CookieInv /\ AcceptInv /\ KnownInv

ClosedInv ==
    /\ \A i \in DOMAIN ring :
         ring[i].kind = "close" =>
           /\ ring[i].cookie \in Socks \ fresh
           /\ \A f \in Fds : fdtab[f] # ring[i].cookie
           /\ \A f \in Fds : conn_info_map[f] # NONE => conn[conn_info_map[f]].cookie # ring[i].cookie
    /\ \A i, j \in DOMAIN ring :
         ring[i].kind = "close" /\ j > i /\ ring[j].state = "sent" =>
           ring[j].cookie # ring[i].cookie

\* A connection is open, or some thread is about to open it.
WillOpen(e) ==
    conn[e].is_open \/ \E u \in Threads : thr[u].at \in Opening /\ thr[u].elem = e

\* Only a socket that has a cookie is reported.
SentInv ==
    \A i \in DOMAIN ring : ring[i].kind = "open" /\ ring[i].state = "sent" => ring[i].cookie \in cookies

\* A connection that is ignored before it is open is one that the settings ignore.
IgnoreInv ==
    \A e \in Elems : conn[e].ignore /\ ~conn[e].is_open => IgnoredAtOpen(scope, conn[e].function)

\* Only a client's connection is replaced in the map, and by a client's.
ClientInv ==
    \A t \in Threads :
      /\ thr[t].at \in {"tcp_connect", "ret_addr"} /\ thr[t].op = "connect" /\ conn_info_map[thr[t].fd] # NONE
           => conn[conn_info_map[thr[t].fd]].function = "client"
      /\ thr[t].at \in Holding =>
           \/ conn_info_map[thr[t].fd] = thr[t].elem
           \/ /\ conn_info_map[thr[t].fd] # NONE
              /\ conn[conn_info_map[thr[t].fd]].function = "client"
              /\ conn[thr[t].elem].function = "client"

\* A client's connection that is not ignored will be open.
WillInv ==
    \A f \in Fds :
      /\ conn_info_map[f] # NONE
      /\ conn[conn_info_map[f]].function = "client"
      /\ ~IgnoredAtOpen(scope, "client")
      => WillOpen(conn_info_map[f])

\* The connection of socket c that a close of f will report.
Live(c, f) ==
    /\ Behind(f, c)
    /\ conn_info_map[f] # NONE
    /\ ~IgnoredAtOpen(scope, conn[conn_info_map[f]].function)
    /\ WillOpen(conn_info_map[f])

\* A socket that was reported is closed once, or will be.
LiveInv ==
    \A c \in Socks :
      OpenSent(c) =>
        \/ \E i \in DOMAIN ring : Sent("close", c) = {i}
        \/ \E f \in Fds : Live(c, f)

OnceInv ==
    losses = 0 /\ scope.strategy # "ignore" => SentInv /\ IgnoreInv /\ ClientInv /\ WillInv /\ LiveInv

OneInv == OneOpener => OwnInv /\ ClosedInv /\ OnceInv

-----------------------------------------------------------------------------
\* The kinds of steps

Only(t) == \A u \in Threads : u # t => thr'[u] = thr[u]
Same(t) == thr'[t].op = thr[t].op /\ thr'[t].fd = thr[t].fd /\ thr'[t].sock = thr[t].sock
Home(t) ==
    /\ thr'[t].at = "user" /\ thr'[t].op = "none" /\ thr'[t].fd = NONE /\ thr'[t].sock = NONE
    /\ thr'[t].elem = NONE

\* Descriptors, files and the map stay.
Quiet ==
    /\ UNCHANGED <<fdtab, fresh, file_to_pid_fd, pid_fd_to_sock, conn_info_map, close_args, scope>>
    /\ cookies \subseteq cookies'

\* What the connections are known by stays.
Keeps ==
    \A e \in Elems :
      /\ conn'[e].function = conn[e].function
      /\ conn'[e].cookie = conn[e].cookie
      /\ conn'[e].is_open = conn[e].is_open
      /\ conn'[e].ignore => conn[e].ignore \/ conn[e].is_open \/ scope.strategy = "ignore"

\* A record of connection e is added, or lost, or there is none.
Adds(t, e, kinds) ==
    \/ ring' = ring /\ losses' = losses
    \/ ring' = ring /\ losses' = losses + 1
    \/ /\ losses' = losses
       /\ e \in Elems
       /\ \E ev \in Events :
            /\ ring' = Append(ring, ev)
            /\ ev.kind \in kinds /\ ev.state = "sent"
            /\ ev.cookie = conn[e].cookie /\ ev.function = conn[e].function
            /\ ev.of = thr[t].sock

Arrive(t) ==
    /\ thr[t].at = "user"
    /\ thr'[t].fd \in Fds
    /\ thr'[t].sock = fdtab[thr'[t].fd]
    /\ Usable(thr'[t].fd)
    /\ \/ /\ thr'[t].at = "tcp_connect" /\ thr'[t].op = "connect"
          /\ conn_info_map[thr'[t].fd] # NONE =>
               conn[conn_info_map[thr'[t].fd]].function = "client"
       \/ thr'[t].at = "io" /\ thr'[t].op \in IoCalls
    /\ thr'[t].elem = NONE
    /\ Only(t) /\ Quiet
    /\ \A f \in Fds : addr_args'[f] => addr_args[f] \/ (f = thr'[t].fd /\ thr'[t].at = "tcp_connect")
    /\ \A d \in {"in", "out"}, f \in Fds :
         io_args'[d][f] # NONE =>
           io_args[d][f] # NONE \/ (f = thr'[t].fd /\ thr'[t].at = "io" /\ d = Dir(thr'[t].op))
    /\ UNCHANGED <<conn, ring, losses>>

Advance(t) ==
    /\ thr[t].at \in Using
    /\ thr'[t].at \in Using \ {"fill", "mark", "tcp_connect"}
    /\ thr'[t].at = "ret_addr" => thr[t].at = "tcp_connect" /\ thr[t].sock \in cookies'
    /\ thr'[t].at = "open" => pid_fd_to_sock[thr[t].fd] \in cookies
    /\ thr'[t].at \notin {"ret_addr"} => thr[t].op \in IoCalls
    /\ Only(t) /\ Same(t) /\ Quiet /\ Keeps
    /\ thr'[t].at \notin Holding => thr'[t].elem = NONE
    /\ thr'[t].at \in Holding =>
         /\ thr'[t].elem \in Elems
         /\ \/ thr[t].at \in Holding /\ thr'[t].elem = thr[t].elem
            \/ thr[t].at \notin Holding /\ thr'[t].elem = conn_info_map[thr[t].fd]
    /\ thr'[t].at \in Processing /\ thr[t].at \notin Processing =>
         conn[thr'[t].elem].is_open /\ scope.strategy \in {"observe", "audit"}
    /\ thr'[t].at = "data" => "data" \notin scope.filter
    /\ thr[t].at \in Opening /\ losses' = 0 =>
         conn[thr[t].elem].is_open \/ scope.strategy = "ignore"
    /\ thr[t].at \notin {"fill", "mark"}
    /\ Adds(t, thr[t].elem, {"proto", "hello"})
    /\ UNCHANGED <<addr_args, io_args>>

Leave(t) ==
    /\ thr[t].at \in (Using \ {"tcp_connect"}) \cup {"user", "accept"}
    /\ Only(t) /\ Home(t) /\ Quiet /\ Keeps
    /\ thr[t].at \in Opening /\ losses' = 0 =>
         conn[thr[t].elem].is_open \/ scope.strategy = "ignore"
    /\ thr[t].at \notin {"fill", "mark"}
    /\ Adds(t, thr[t].elem, IF thr[t].at = "data" THEN {"data"} ELSE {"proto"})
    /\ \A f \in Fds :
         addr_args'[f] =>
           addr_args[f] /\ ~(f = thr[t].fd /\ thr[t].op = "connect" /\ thr[t].at = "ret_addr")
    /\ \A d \in {"in", "out"}, f \in Fds :
         io_args'[d][f] # NONE =>
           io_args[d][f] # NONE /\ ~(f = thr[t].fd /\ thr[t].op \in IoCalls /\ d = Dir(thr[t].op))

GoAccept(t) ==
    /\ thr[t].at = "user"
    /\ thr'[t].at = "accept" /\ thr'[t].op \in Accepts /\ thr'[t].fd = NONE /\ thr'[t].elem = NONE
    /\ Opener(t)
    /\ Only(t) /\ Quiet
    /\ \A f \in Fds : addr_args'[f] = addr_args[f]
    /\ UNCHANGED <<io_args, conn, ring, losses>>

Install(t, f, s) ==
    /\ fd_install(f, s)
    /\ Only(t)
    /\ \/ thr[t].at = "user" /\ Home(t) /\ Opener(t)
       \/ /\ thr[t].at = "accept" /\ thr'[t].at = "ret_addr" /\ thr'[t].op = thr[t].op
          /\ thr'[t].fd = f /\ thr'[t].sock = s /\ thr'[t].elem = NONE
    /\ UNCHANGED <<cookies, addr_args, io_args, close_args, conn_info_map, conn, ring, losses, scope>>

Insert(t, e) ==
    /\ thr[t].at = "ret_addr" /\ thr'[t].at = "open" /\ thr'[t].elem = e
    /\ Only(t) /\ Same(t)
    /\ e \in FreeElems
    /\ conn_info_map' = [conn_info_map EXCEPT ![thr[t].fd] = e]
    /\ \A x \in Elems : x # e => conn'[x] = conn[x]
    /\ conn'[e].function = IF thr[t].op = "connect" THEN "client" ELSE "server"
    /\ conn'[e].cookie = NONE /\ conn'[e].is_open = FALSE /\ conn'[e].ignore = FALSE
    /\ \A f \in Fds : addr_args'[f] => addr_args[f] /\ ~(f = thr[t].fd /\ thr[t].op = "connect")
    /\ UNCHANGED <<fdtab, fresh, cookies, file_to_pid_fd, pid_fd_to_sock, io_args, close_args,
                   ring, losses, scope>>

Reserve(t) ==
    /\ thr[t].at = "open" /\ thr'[t].at = "fill" /\ thr'[t].slot = Len(ring) + 1
    /\ scope.strategy # "ignore"
    /\ ~conn[thr[t].elem].is_open
    /\ Only(t) /\ Same(t) /\ Quiet
    /\ thr'[t].elem = thr[t].elem
    /\ \E ev \in Events :
         /\ ring' = Append(ring, ev)
         /\ ev.kind = "open" /\ ev.state = "busy" /\ ev.function = conn[thr[t].elem].function
    /\ UNCHANGED <<addr_args, io_args, conn, losses>>

\* submit_open_event ends: so does the call, or init_conn goes on.
End(t) ==
    \/ thr[t].op \in AddrCalls /\ Home(t)
    \/ /\ thr[t].op \in IoCalls /\ thr'[t].at = "tls"
       /\ Same(t) /\ thr'[t].elem = thr[t].elem

Submit(t, c) ==
    LET e == thr[t].elem
        slot == thr[t].slot
        ignore == conn[e].ignore \/ IgnoredAtOpen(scope, conn[e].function)
    IN  /\ thr[t].at = "fill"
        /\ c = IF pid_fd_to_sock[thr[t].fd] = NONE THEN conn[e].cookie
                                                   ELSE CookieOf(pid_fd_to_sock[thr[t].fd])
        /\ \A x \in Elems : x # e => conn'[x] = conn[x]
        /\ conn'[e].function = conn[e].function /\ conn'[e].is_open = conn[e].is_open
        /\ conn'[e].cookie = c /\ conn'[e].ignore = ignore
        /\ Len(ring') = Len(ring)
        /\ \A i \in DOMAIN ring : i # slot => ring'[i] = ring[i]
        /\ ring'[slot].kind = ring[slot].kind /\ ring'[slot].function = ring[slot].function
        /\ ring'[slot].cookie = c
        /\ \/ /\ ~ignore /\ c # NONE
              /\ ring'[slot].state = "sent"
              /\ thr'[t].at = "mark" /\ Same(t) /\ thr'[t].elem = e
           \/ /\ ignore \/ c = NONE
              /\ ring'[slot].state = "void"
              /\ End(t)
        /\ Only(t) /\ Quiet
        /\ UNCHANGED <<cookies, addr_args, io_args, losses>>

Mark(t) ==
    /\ thr[t].at = "mark"
    /\ \A x \in Elems : x # thr[t].elem => conn'[x] = conn[x]
    /\ conn'[thr[t].elem].function = conn[thr[t].elem].function
    /\ conn'[thr[t].elem].cookie = conn[thr[t].elem].cookie
    /\ conn'[thr[t].elem].ignore = conn[thr[t].elem].ignore
    /\ conn'[thr[t].elem].is_open
    /\ End(t)
    /\ Only(t) /\ Quiet
    /\ UNCHANGED <<addr_args, io_args, ring, losses>>

\* Files and the map as the steps of a close leave them.
Rest ==
    UNCHANGED <<fresh, cookies, file_to_pid_fd, pid_fd_to_sock, conn_info_map, addr_args, io_args,
                conn, ring, losses, scope>>

BeginClose(t, f) ==
    /\ thr[t].at = "user" /\ Closable(f)
    /\ thr'[t].fd = f /\ thr'[t].sock = fdtab[f] /\ thr'[t].elem = NONE
    /\ Opener(t)
    /\ Only(t) /\ Rest
    /\ \/ /\ thr'[t].at = "close" /\ thr'[t].op = "close"
          /\ UNCHANGED fdtab /\ close_args' = [close_args EXCEPT ![f] = TRUE]
       \/ /\ thr'[t].at = "fput" /\ thr'[t].op = "drop"
          /\ fdtab' = [fdtab EXCEPT ![f] = NONE] /\ UNCHANGED close_args

Free(t) ==
    /\ thr[t].at = "close" /\ thr'[t].at \in Released
    /\ Only(t) /\ Same(t) /\ thr'[t].elem = thr[t].elem
    /\ Rest
    /\ fdtab' = [fdtab EXCEPT ![thr[t].fd] = NONE] /\ UNCHANGED close_args

\* process_close on descriptor f.
Closes(t, f) ==
    /\ conn_info_map' = [conn_info_map EXCEPT ![f] = NONE]
    /\ LET e == conn_info_map[f]
           closes == e \in Elems /\ conn[e].is_open
       IN  \/ ~closes /\ UNCHANGED <<ring, losses>>
           \/ closes /\ ring' = ring /\ losses' = losses + 1
           \/ /\ closes /\ losses' = losses
              /\ \E ev \in Events :
                   /\ ring' = Append(ring, ev)
                   /\ ev.kind = "close" /\ ev.state = "sent"
                   /\ ev.cookie = conn[e].cookie /\ ev.function = conn[e].function

\* The release of the file (s is its descriptor) and the exit probe of close.
Release(t) ==
    /\ thr[t].at = "fput"
    /\ \/ /\ file_to_pid_fd[thr[t].sock] = NONE
          /\ UNCHANGED <<file_to_pid_fd, pid_fd_to_sock, conn_info_map, ring, losses>>
       \/ /\ file_to_pid_fd[thr[t].sock] \in Fds
          /\ Closes(t, file_to_pid_fd[thr[t].sock])
          /\ ForgetFile(thr[t].sock, file_to_pid_fd[thr[t].sock])
    /\ \/ thr[t].op = "drop" /\ Home(t)
       \/ /\ thr[t].op = "close" /\ thr'[t].at = "ret_close" /\ Same(t)
          /\ thr'[t].elem = thr[t].elem
    /\ Only(t)
    /\ UNCHANGED <<fdtab, fresh, cookies, addr_args, io_args, close_args, conn, scope>>

Exit(t) ==
    /\ thr[t].at = "ret_close"
    /\ \/ Closes(t, thr[t].fd)
       \/ UNCHANGED <<conn_info_map, ring, losses>>
    /\ close_args' = [close_args EXCEPT ![thr[t].fd] = FALSE]
    /\ \/ file_to_pid_fd[thr[t].sock] = NONE /\ Home(t)
       \/ /\ file_to_pid_fd[thr[t].sock] # NONE /\ thr'[t].at = "fput" /\ thr'[t].op = "drop"
          /\ thr'[t].fd = thr[t].fd /\ thr'[t].sock = thr[t].sock /\ thr'[t].elem = thr[t].elem
    /\ Only(t)
    /\ UNCHANGED <<fdtab, fresh, cookies, file_to_pid_fd, pid_fd_to_sock, addr_args, io_args, conn,
                   scope>>

Step(t) ==
    \/ Arrive(t) \/ Advance(t) \/ Leave(t) \/ GoAccept(t)
    \/ \E f \in Fds, s \in Socks : Install(t, f, s)
    \/ \E e \in Elems : Insert(t, e)
    \/ Reserve(t) \/ Mark(t)
    \/ \E c \in Socks \cup {NONE} : Submit(t, c)
    \/ \E f \in Fds : BeginClose(t, f)
    \/ Free(t) \/ Release(t) \/ Exit(t)

-----------------------------------------------------------------------------
SocketInv ==
    /\ TypeInv /\ CallsInv /\ HeldInv
    /\ LeftInv /\ ArgsInv
    /\ SlotInv /\ OpenInv /\ FilterInv

SocketOne == OpenerInv /\ OneInv
=============================================================================
