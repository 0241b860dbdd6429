------------------------- MODULE SocketProbesProofs -------------------------
(***************************************************************************)
(* Proofs about SocketProbes, for any numbers of threads, descriptors,     *)
(* sockets and elements, and for any settings.  The first part shows what  *)
(* the steps of SocketSteps keep, the second that every action is one of   *)
(* them.                                                                   *)
(***************************************************************************)
EXTENDS SocketSteps, TLAPS

\* A leaf that cites no prover is Zenon's.
USE Zenon

-----------------------------------------------------------------------------
\* Where the threads are

LEMMA Apart ==
    /\ \A a \in Using : a \notin Closing /\ a # "user" /\ a # "accept"
    /\ \A a \in Closing : a # "user" /\ a # "accept" /\ a \notin Holding
    /\ \A a \in Released : a \in Closing /\ a # "close"
    /\ \A a \in Holding : a \in Using /\ a \notin {"tcp_connect", "ret_addr", "io", "init", "main"}
    /\ \A a \in Opening : a \in Holding /\ a \notin Processing /\ a # "tls" /\ a # "hello"
    /\ \A a \in Processing : a \in Holding
    /\ "user" \notin Holding /\ "accept" \notin Holding
BY DEF Using, Closing, Released, Holding, Opening, Processing

LEMMA CallsFrame ==
    ASSUME CallsInv, NEW t \in Threads, Only(t), CallOf(t)',
           \A u \in Threads : u # t /\ thr[u].at \in Using \cup {"close"} =>
             fdtab'[thr[u].fd] = fdtab[thr[u].fd],
           \A u \in Threads :
             u # t /\ thr'[t].at = "close" /\ thr[u].at \notin Released => thr[u].fd # thr'[t].fd,
           \A u \in Threads :
             u # t /\ thr[u].at = "close" /\ thr'[t].at \notin Released => thr'[t].fd # thr[u].fd
    PROVE  CallsInv'
<1>1. ASSUME NEW u \in Threads PROVE CallOf(u)'
  <2>1. CASE u # t
    <3>1. thr'[u] = thr[u] /\ CallOf(u)
      BY <2>1 DEF Only, CallsInv
    <3> QED  BY <2>1, <3>1 DEF CallOf
  <2> QED  BY <2>1
<1>2. ASSUME NEW u \in Threads, NEW v \in Threads, u # v, thr'[u].at = "close", thr'[v].at \notin Released
      PROVE  thr'[v].fd # thr'[u].fd
  BY <1>2, ZenonT(30) DEF Only, CallsInv
<1> QED  BY <1>1, <1>2 DEF CallsInv

LEMMA CallsStep ==
    ASSUME TypeInv, TypeInv', CallsInv, NEW t \in Threads, Step(t)
    PROVE  CallsInv'
<1>0. /\ CallOf(t)
      /\ \A u \in Threads :
           u # t /\ thr[u].at = "close" /\ thr[t].at \notin Released => thr[t].fd # thr[u].fd
  BY DEF CallsInv
<1>a. NONE \notin Fds /\ NONE \notin Socks
  BY SocketAssumption
<1>b. ASSUME NEW u \in Threads, thr[u].at \in Using \cup {"close"}
      PROVE  thr[u].fd \in Fds /\ fdtab[thr[u].fd] # NONE
  BY <1>b, <1>a, ZenonT(30) DEF CallsInv, CallOf, Closing
\* A thread that comes home has no descriptor.
<1>h. ASSUME Home(t), Only(t), UNCHANGED fdtab PROVE CallsInv'
  <2>1. CallOf(t)'
    BY <1>h, Apart DEF CallOf, Home, Closing, Released
  <2>2. \A u \in Threads : u # t /\ thr[u].at = "close" => thr'[t].fd # thr[u].fd
    BY <1>a, <1>b, <1>h DEF Home
  <2> QED  BY <1>h, <2>1, <2>2, CallsFrame DEF Home
\* A thread goes on in its call, on a descriptor that stays.
<1>s. ASSUME Same(t), Only(t), UNCHANGED fdtab, CallOf(t)', thr'[t].at # "close",
             thr[t].at \in Using \/ thr'[t].at \in Released
      PROVE  CallsInv'
  <2>1. thr'[t].at \notin Released => thr[t].at \notin Released
    BY <1>s, Apart
  <2> QED  BY <1>s, <1>0, <2>1, CallsFrame DEF Same
<1>1. CASE Arrive(t)
  <2>1. fdtab[thr'[t].fd] # NONE /\ \A u \in Threads : u # t /\ thr[u].at = "close" => thr'[t].fd # thr[u].fd
    BY <1>1 DEF Arrive, Usable, InCall, CallsInv, CallOf
  <2>2. thr'[t].sock \in Socks
    BY <1>1, <2>1 DEF Arrive, TypeInv
  <2>3. CallOf(t)'
    BY <1>1, <2>2 DEF Arrive, Quiet, CallOf, Using, Holding, Opening, Processing, Closing, Released, AddrCalls
  <2>4. thr'[t].at # "close" /\ Only(t) /\ UNCHANGED fdtab
    BY <1>1 DEF Arrive, Quiet
  <2> QED  BY <2>1, <2>3, <2>4, CallsFrame
<1>2. CASE Advance(t)
  <2>1. CallOf(t)'
    BY <1>0, <1>2, Apart DEF Advance, Quiet, Same, CallOf, AddrCalls, Closing
  <2> QED  BY <1>2, <1>s, <2>1, Apart DEF Advance, Quiet, Closing
<1>3. CASE Leave(t)
  BY <1>3, <1>h DEF Leave, Quiet
<1>4. CASE GoAccept(t)
  <2>1. CallOf(t)'
    BY <1>4, Apart DEF GoAccept, CallOf, Closing, Released
  <2>2. \A u \in Threads : u # t /\ thr[u].at = "close" => thr'[t].fd # thr[u].fd
    BY <1>a, <1>b, <1>4 DEF GoAccept
  <2> QED  BY <1>4, <2>1, <2>2, CallsFrame DEF GoAccept, Quiet
<1>5. ASSUME NEW f \in Fds, NEW s \in Socks, Install(t, f, s) PROVE CallsInv'
  <2>1. fdtab[f] = NONE /\ fdtab' = [fdtab EXCEPT ![f] = s] /\ Only(t)
    BY <1>5 DEF Install, fd_install
  <2>2. \A u \in Threads : thr[u].at \in Using \cup {"close"} =>
          thr[u].fd # f /\ fdtab'[thr[u].fd] = fdtab[thr[u].fd]
    BY <1>b, <2>1 DEF TypeInv
  <2>3. CASE Home(t)
    <3>1. CallOf(t)'
      BY <2>3, Apart DEF CallOf, Home, Closing, Released
    <3>2. \A u \in Threads : u # t /\ thr[u].at = "close" => thr'[t].fd # thr[u].fd
      BY <1>a, <1>b, <2>3 DEF Home
    <3> QED  BY <2>1, <2>2, <2>3, <3>1, <3>2, CallsFrame DEF Home
  <2>4. CASE /\ thr[t].at = "accept" /\ thr'[t].at = "ret_addr" /\ thr'[t].op = thr[t].op
             /\ thr'[t].fd = f /\ thr'[t].sock = s /\ thr'[t].elem = NONE
    <3>1. fdtab'[f] = s
      BY <2>1 DEF TypeInv
    <3>2. CallOf(t)'
      BY <1>0, <2>4, <3>1 DEF CallOf, Using, Closing, Released, AddrCalls
    <3> QED  BY <2>1, <2>2, <2>4, <3>2, CallsFrame
  <2> QED  BY <1>5, <2>3, <2>4 DEF Install
<1>6. ASSUME NEW e \in Elems, Insert(t, e) PROVE CallsInv'
  <2>1. CallOf(t)'
    BY <1>0, <1>6 DEF Insert, Same, CallOf, Using, Holding, Opening, Closing, Released, AddrCalls
  <2> QED  BY <1>6, <1>s, <2>1 DEF Insert, Using
<1>7. CASE Reserve(t)
  <2>1. CallOf(t)'
    BY <1>0, <1>7 DEF Reserve, Quiet, Same, CallOf, Using, Holding, Opening, Closing, Released
  <2> QED  BY <1>7, <1>s, <2>1 DEF Reserve, Quiet, Using, Holding, Opening
<1>8. ASSUME thr[t].at \in Opening, End(t), Only(t), UNCHANGED fdtab PROVE CallsInv'
  <2>1. CASE Home(t)
    BY <1>8, <1>h, <2>1
  <2>2. CASE thr[t].op \in IoCalls /\ thr'[t].at = "tls" /\ Same(t)
    <3>1. CallOf(t)'
      BY <1>0, <1>8, <2>2 DEF Same, CallOf, Using, Holding, Opening, Closing, Released
    <3> QED  BY <1>8, <1>s, <2>2, <3>1, Apart
  <2> QED  BY <1>8, <2>1, <2>2 DEF End
<1>9. CASE Mark(t)
  BY <1>8, <1>9 DEF Mark, Quiet, Opening
<1>10. ASSUME NEW c, Submit(t, c) PROVE CallsInv'
  <2>1. CASE End(t)
    BY <1>8, <1>10, <2>1 DEF Submit, Quiet, Opening
  <2>2. CASE thr'[t].at = "mark" /\ Same(t)
    <3>1. CallOf(t)'
      BY <1>0, <1>10, <2>2 DEF Submit, Quiet, Same, CallOf, Using, Holding, Opening, Closing, Released
    <3> QED  BY <1>10, <1>s, <2>2, <3>1 DEF Submit, Quiet, Using, Holding, Opening
  <2> QED  BY <1>10, <2>1, <2>2 DEF Submit
<1>11. ASSUME NEW f \in Fds, BeginClose(t, f) PROVE CallsInv'
  <2>1. \A u \in Threads : thr[u].at \notin Released => thr[u].fd # f
    BY <1>11, <1>a DEF BeginClose, Closable, InCall, CallsInv, CallOf, Released
  <2>2. fdtab[f] \in Socks
    BY <1>11 DEF BeginClose, Closable, TypeInv
  <2>3. \A u \in Threads : u # t /\ thr[u].at \in Using \cup {"close"} => fdtab'[thr[u].fd] = fdtab[thr[u].fd]
    BY <1>11, <1>b, <2>1, Apart DEF BeginClose, TypeInv, Closing
  <2>4. CallOf(t)'
    BY <1>11, <2>2, Apart DEF BeginClose, CallOf, Closing, Released
  <2>5. \A u \in Threads : u # t /\ thr[u].at = "close" => thr'[t].fd # thr[u].fd
    BY <1>11, <2>1, Apart DEF BeginClose
  <2> QED  BY <1>11, <2>1, <2>3, <2>4, <2>5, CallsFrame DEF BeginClose
<1>12. CASE Free(t)
  <2>1. \A u \in Threads : u # t /\ thr[u].at \notin Released => thr[u].fd # thr[t].fd
    BY <1>12 DEF Free, CallsInv
  <2>2. \A u \in Threads : u # t /\ thr[u].at \in Using \cup {"close"} => fdtab'[thr[u].fd] = fdtab[thr[u].fd]
    BY <1>12, <1>b, <2>1, Apart DEF Free, TypeInv
  <2>3. CallOf(t)'
    <3>1. thr[t].op \in {"close", "drop"} /\ thr[t].fd \in Fds /\ thr[t].sock \in Socks
      BY <1>0, <1>12 DEF Free, CallOf, Closing
    <3>2. thr'[t].at = "fput" \/ thr'[t].at = "ret_close"
      BY <1>12 DEF Free, Released
    <3> QED  BY <1>12, <3>1, <3>2 DEF Free, Same, CallOf, Closing, Released, Using, Holding, Opening, Processing
  <2> QED  BY <1>0, <1>12, <2>2, <2>3, CallsFrame, Apart DEF Free, Same
<1>13. CASE Release(t)
  <2>1. CASE Home(t)
    BY <1>13, <1>h, <2>1 DEF Release
  <2>2. CASE thr[t].op = "close" /\ thr'[t].at = "ret_close" /\ Same(t)
    <3>1. CallOf(t)'
      BY <1>0, <1>13, <2>2, Apart DEF Release, Same, CallOf, Closing, Released
    <3> QED  BY <1>13, <1>s, <2>2, <3>1 DEF Release, Released
  <2> QED  BY <1>13, <2>1, <2>2 DEF Release
<1>14. CASE Exit(t)
  <2>1. CASE Home(t)
    BY <1>14, <1>h, <2>1 DEF Exit
  <2>2. CASE /\ thr'[t].at = "fput" /\ thr'[t].op = "drop"
             /\ thr'[t].fd = thr[t].fd /\ thr'[t].sock = thr[t].sock
    <3>1. CallOf(t)'
      BY <1>0, <1>14, <2>2, Apart DEF Exit, CallOf, Closing, Released
    <3> QED  BY <1>0, <1>14, <2>2, <3>1, CallsFrame DEF Exit, Released
  <2> QED  BY <1>14, <2>1, <2>2 DEF Exit
<1> QED  BY <1>1, <1>2, <1>3, <1>4, <1>5, <1>6, <1>7, <1>9, <1>10, <1>11, <1>12, <1>13, <1>14 DEF Step

\* A probe goes on with the connection it holds, takes the one in the map or lets
\* go of it, and the map loses entries at most.
LEMMA HeldFrame ==
    ASSUME TypeInv, HeldInv, NEW t \in Threads, Only(t),
           \A f \in Fds : conn_info_map'[f] = conn_info_map[f] \/ conn_info_map'[f] = NONE,
           thr'[t].elem \in Elems <=> thr'[t].at \in Holding,
           thr'[t].elem \in Elems =>
             /\ thr[t].fd \in Fds /\ thr'[t].fd = thr[t].fd
             /\ thr'[t].elem = thr[t].elem \/ thr'[t].elem = conn_info_map[thr[t].fd]
    PROVE  HeldInv'
<1>0. NONE \notin Elems
  BY SocketAssumption
<1>m. \A f \in Fds : conn_info_map'[f] \in Elems => conn_info_map'[f] = conn_info_map[f]
  BY <1>0
<1>1. \A u \in Threads : thr'[u].elem \in Elems <=> thr'[u].at \in Holding
  BY DEF HeldInv, Only
<1>2. \A f, g \in Fds : conn_info_map'[f] \in Elems /\ conn_info_map'[f] = conn_info_map'[g] => f = g
  BY <1>m, SMT DEF HeldInv
<1>3. ASSUME NEW u \in Threads, NEW f \in Fds, thr'[u].elem \in Elems, thr'[u].elem = conn_info_map'[f]
      PROVE  f = thr'[u].fd
  <2>1. thr'[u].elem = conn_info_map[f]
    BY <1>3, <1>m
  <2>2. CASE u = t
    BY <1>3, <2>1, <2>2, SMT DEF HeldInv
  <2>3. CASE u # t
    BY <1>3, <2>1, <2>3, SMT DEF HeldInv, Only
  <2> QED  BY <2>2, <2>3
<1>4. ASSUME NEW u \in Threads, thr'[t].elem \in Elems, thr[u].elem = thr'[t].elem
      PROVE  thr[u].fd = thr'[t].fd
  BY <1>4, SMT DEF HeldInv
<1>5. ASSUME NEW u \in Threads, NEW v \in Threads, thr'[u].elem \in Elems, thr'[u].elem = thr'[v].elem
      PROVE  thr'[u].fd = thr'[v].fd
  <2>1. CASE u = t /\ v = t
    BY <2>1
  <2>2. CASE u = t /\ v # t
    BY <1>4, <1>5, <2>2 DEF Only
  <2>3. CASE u # t /\ v = t
    BY <1>4, <1>5, <2>3 DEF Only
  <2>4. CASE u # t /\ v # t
    BY <1>5, <2>4, SMT DEF HeldInv, Only
  <2> QED  BY <2>1, <2>2, <2>3, <2>4
<1> QED  BY <1>1, <1>2, <1>3, <1>5, ZenonT(30) DEF HeldInv

\* What process_close does to the map.
LEMMA ClosesMap ==
    ASSUME TypeInv, NEW t, NEW f \in Fds, Closes(t, f)
    PROVE  /\ conn_info_map'[f] = NONE
           /\ \A g \in Fds : g # f => conn_info_map'[g] = conn_info_map[g]
BY DEF TypeInv, Closes

LEMMA HeldStep ==
    ASSUME TypeInv, TypeInv', CallsInv, HeldInv, NEW t \in Threads, Step(t)
    PROVE  HeldInv'
<1>0. NONE \notin Elems
  BY SocketAssumption
<1>a. thr[t].elem \in Elems <=> thr[t].at \in Holding
  BY DEF HeldInv
<1>b. thr[t].at \in Using \cup Closing => thr[t].fd \in Fds
  BY DEF CallsInv, CallOf
<1>q. Quiet => \A f \in Fds : conn_info_map'[f] = conn_info_map[f] \/ conn_info_map'[f] = NONE
  BY DEF Quiet
<1>h. ASSUME thr'[t].elem = NONE, thr'[t].at \notin Holding, Only(t),
             \A f \in Fds : conn_info_map'[f] = conn_info_map[f] \/ conn_info_map'[f] = NONE
      PROVE  HeldInv'
  BY <1>0, <1>h, HeldFrame
<1>s. ASSUME thr'[t].elem = thr[t].elem, thr[t].at \in Holding, thr'[t].at \in Holding, Only(t), Same(t), Quiet
      PROVE  HeldInv'
  BY <1>a, <1>b, <1>s, <1>q, HeldFrame, Apart DEF Same
<1>1. CASE Arrive(t)
  BY <1>1, <1>h, <1>q DEF Arrive, Holding, Opening, Processing
<1>2. CASE Advance(t)
  <2>1. CASE thr'[t].at \notin Holding
    BY <1>2, <1>h, <1>q, <2>1 DEF Advance
  <2>2. CASE thr'[t].at \in Holding
    BY <1>2, <1>b, <1>q, <2>2, HeldFrame DEF Advance, Same
  <2> QED  BY <2>1, <2>2
<1>3. CASE Leave(t)
  BY <1>3, <1>h, <1>q, Apart DEF Leave, Home
<1>4. CASE GoAccept(t)
  BY <1>4, <1>h, <1>q, Apart DEF GoAccept
<1>5. ASSUME NEW f \in Fds, NEW s \in Socks, Install(t, f, s) PROVE HeldInv'
  BY <1>5, <1>h DEF Install, Home, Holding, Opening, Processing
<1>6. ASSUME NEW e \in Elems, Insert(t, e) PROVE HeldInv'
  <2>1. /\ \A f \in Fds : conn_info_map[f] # e
        /\ \A u \in Threads : thr[u].elem # e
    BY <1>6 DEF Insert, FreeElems
  <2>2. thr[t].fd \in Fds
    BY <1>6, <1>b DEF Insert, Using
  <2>3. /\ conn_info_map'[thr[t].fd] = e
        /\ \A f \in Fds : f # thr[t].fd => conn_info_map'[f] = conn_info_map[f]
    BY <1>6, <2>2 DEF Insert, TypeInv
  <2>4. /\ thr'[t].elem = e /\ thr'[t].at \in Holding /\ thr'[t].fd = thr[t].fd
        /\ \A u \in Threads : u # t => thr'[u] = thr[u]
    BY <1>6 DEF Insert, Only, Same, Holding, Opening
  <2>5. \A u \in Threads : thr'[u].elem \in Elems <=> thr'[u].at \in Holding
    BY <2>4 DEF HeldInv
  <2>6. \A f, g \in Fds : conn_info_map'[f] \in Elems /\ conn_info_map'[f] = conn_info_map'[g] => f = g
    BY <2>1, <2>3 DEF HeldInv
  <2>7. ASSUME NEW u \in Threads, NEW f \in Fds, thr'[u].elem \in Elems, thr'[u].elem = conn_info_map'[f]
        PROVE  f = thr'[u].fd
    BY <2>1, <2>3, <2>4, <2>7, SMT DEF HeldInv
  <2>8. \A u, v \in Threads : thr'[u].elem \in Elems /\ thr'[u].elem = thr'[v].elem => thr'[u].fd = thr'[v].fd
    BY <2>1, <2>4, SMT DEF HeldInv
  <2> QED  BY <2>5, <2>6, <2>7, <2>8 DEF HeldInv
<1>7. CASE Reserve(t)
  BY <1>7, <1>s DEF Reserve, Holding, Opening
<1>8. ASSUME thr[t].at \in Opening, End(t), Only(t), Quiet PROVE HeldInv'
  BY <1>8, <1>h, <1>s, <1>q DEF End, Home, Holding, Opening, Processing
<1>9. CASE Mark(t)
  BY <1>8, <1>9 DEF Mark, Opening
<1>10. ASSUME NEW c, Submit(t, c) PROVE HeldInv'
  <2>1. CASE End(t)
    BY <1>8, <1>10, <2>1 DEF Submit, Opening
  <2>2. CASE thr'[t].at = "mark" /\ Same(t) /\ thr'[t].elem = thr[t].elem
    BY <1>10, <1>s, <2>2 DEF Submit, Holding, Opening
  <2> QED  BY <1>10, <2>1, <2>2 DEF Submit
<1>11. ASSUME NEW f \in Fds, BeginClose(t, f) PROVE HeldInv'
  BY <1>11, <1>h DEF BeginClose, Rest, Holding, Opening, Processing
\* Whoever closes holds nothing.
<1>c. thr[t].at \in Closing => thr[t].elem = NONE
  <2>1. thr[t].elem \in Elems \cup {NONE}
    BY DEF TypeInv, ThreadRecs
  <2> QED  BY <1>a, <2>1, Apart
<1>12. CASE Free(t)
  BY <1>12, <1>c, <1>h, Apart DEF Free, Rest, Closing
<1>13. CASE Release(t)
  <2>1. \A f \in Fds : conn_info_map'[f] = conn_info_map[f] \/ conn_info_map'[f] = NONE
    BY <1>13, ClosesMap DEF Release
  <2>2. thr'[t].elem = NONE /\ thr'[t].at \notin Holding
    BY <1>13, <1>c DEF Release, Home, Closing, Released, Holding, Opening, Processing
  <2> QED  BY <1>13, <1>h, <2>1, <2>2 DEF Release
<1>14. CASE Exit(t)
  <2>0. thr[t].fd \in Fds
    BY <1>14, <1>b DEF Exit, Closing, Released
  <2>1. \A f \in Fds : conn_info_map'[f] = conn_info_map[f] \/ conn_info_map'[f] = NONE
    BY <1>14, <2>0, ClosesMap DEF Exit
  <2>2. thr'[t].elem = NONE /\ thr'[t].at \notin Holding
    BY <1>14, <1>c DEF Exit, Home, Closing, Released, Holding, Opening, Processing
  <2> QED  BY <1>14, <1>h, <2>1, <2>2 DEF Exit
<1> QED  BY <1>1, <1>2, <1>3, <1>4, <1>5, <1>6, <1>7, <1>9, <1>10, <1>11, <1>12, <1>13, <1>14 DEF Step

-----------------------------------------------------------------------------
\* What a step does to the records and to the connections

\* Record i is new in step t: an open event is reserved, a probe reports the
\* connection it holds, or process_close the one it removes from the map.
Removed(t, f, i) ==
    /\ thr[t].at \in Released
    /\ f \in {thr[t].fd, file_to_pid_fd[thr[t].sock]}
    /\ conn_info_map[f] \in Elems /\ conn_info_map'[f] = NONE
    /\ conn[conn_info_map[f]].is_open
    /\ ring'[i].cookie = conn[conn_info_map[f]].cookie
    /\ ring'[i].function = conn[conn_info_map[f]].function

Added(t, i) ==
    \/ ring'[i].kind = "open" /\ ring'[i].state = "busy"
    \/ /\ ring'[i].kind \in {"proto", "hello", "data"} /\ ring'[i].state = "sent"
       /\ thr[t].at \in Holding
       /\ ring'[i].kind = "data" => thr[t].at = "data"
       /\ ring'[i].cookie = conn[thr[t].elem].cookie
       /\ ring'[i].function = conn[thr[t].elem].function
       /\ ring'[i].of = thr[t].sock
    \/ /\ ring'[i].kind = "close" /\ ring'[i].state = "sent"
       /\ \E f \in Fds : Removed(t, f, i)

Grows(t) ==
    /\ DOMAIN ring \subseteq DOMAIN ring'
    /\ \A i \in DOMAIN ring' \ DOMAIN ring : Added(t, i) /\ \A j \in DOMAIN ring' : j < i \/ j = i

LEMMA AppendIs ==
    ASSUME TypeInv, NEW ev \in Events, ring' = Append(ring, ev)
    PROVE  /\ DOMAIN ring' = DOMAIN ring \cup {Len(ring) + 1}
           /\ Len(ring) + 1 \notin DOMAIN ring
           /\ ring'[Len(ring) + 1] = ev
           /\ \A j \in DOMAIN ring : ring'[j] = ring[j] /\ j < Len(ring) + 1
BY SMT DEF TypeInv

LEMMA AppendGrows ==
    ASSUME TypeInv, NEW t \in Threads, NEW ev \in Events, ring' = Append(ring, ev),
           ring'[Len(ring) + 1] = ev => Added(t, Len(ring) + 1)
    PROVE  Grows(t) /\ \A j \in DOMAIN ring : ring'[j] = ring[j]
BY AppendIs, SMT DEF Grows

LEMMA AddsGrows ==
    ASSUME TypeInv, HeldInv, NEW t \in Threads, NEW kinds \in SUBSET {"proto", "hello", "data"},
           "data" \in kinds => thr[t].at = "data", Adds(t, thr[t].elem, kinds)
    PROVE  /\ Grows(t) /\ \A j \in DOMAIN ring : ring'[j] = ring[j]
           /\ losses' \in {losses, losses + 1}
<1>1. CASE ring' = ring
  BY <1>1 DEF Grows, Adds
<1>2. CASE /\ losses' = losses
           /\ thr[t].elem \in Elems
           /\ \E ev \in Events :
                /\ ring' = Append(ring, ev)
                /\ ev.kind \in kinds /\ ev.state = "sent"
                /\ ev.cookie = conn[thr[t].elem].cookie /\ ev.function = conn[thr[t].elem].function
                /\ ev.of = thr[t].sock
  <2>0. thr[t].at \in Holding
    BY <1>2 DEF HeldInv
  <2>1. PICK ev \in Events :
                /\ ring' = Append(ring, ev)
                /\ ev.kind \in kinds /\ ev.state = "sent"
                /\ ev.cookie = conn[thr[t].elem].cookie /\ ev.function = conn[thr[t].elem].function
                /\ ev.of = thr[t].sock
    BY <1>2
  <2>2. ring'[Len(ring) + 1] = ev => Added(t, Len(ring) + 1)
    BY <2>0, <2>1 DEF Added
  <2> QED  BY <1>2, <2>1, <2>2, AppendGrows
<1> QED  BY <1>1, <1>2 DEF Adds

LEMMA ClosesGrows ==
    ASSUME TypeInv, NEW t \in Threads, NEW f \in Fds, Closes(t, f), thr[t].at \in Released,
           f \in {thr[t].fd, file_to_pid_fd[thr[t].sock]}
    PROVE  Grows(t) /\ \A j \in DOMAIN ring : ring'[j] = ring[j]
<1> DEFINE e == conn_info_map[f]
<1>1. CASE ring' = ring
  BY <1>1 DEF Grows
<1>2. CASE /\ e \in Elems /\ conn[e].is_open
           /\ \E ev \in Events :
                /\ ring' = Append(ring, ev)
                /\ ev.kind = "close" /\ ev.state = "sent"
                /\ ev.cookie = conn[e].cookie /\ ev.function = conn[e].function
  <2>1. PICK ev \in Events :
                /\ ring' = Append(ring, ev)
                /\ ev.kind = "close" /\ ev.state = "sent"
                /\ ev.cookie = conn[e].cookie /\ ev.function = conn[e].function
    BY <1>2
  <2>2. conn_info_map'[f] = NONE
    BY ClosesMap
  <2>3. ring'[Len(ring) + 1] = ev => Removed(t, f, Len(ring) + 1)
    BY <1>2, <2>1, <2>2 DEF Removed
  <2>4. ring'[Len(ring) + 1] = ev => Added(t, Len(ring) + 1)
    BY <2>1, <2>3 DEF Added
  <2> QED  BY <2>1, <2>4, AppendGrows
<1> QED  BY <1>1, <1>2 DEF Closes

\* No record changes but the one that is filled.
LEMMA RingStep ==
    ASSUME TypeInv, TypeInv', CallsInv, HeldInv, SlotInv, NEW t \in Threads, Step(t)
    PROVE  /\ Grows(t)
           /\ \A j \in DOMAIN ring :
                \/ ring'[j] = ring[j]
                \/ /\ thr[t].at = "fill" /\ j = thr[t].slot
                   /\ ring'[j].kind = ring[j].kind /\ ring'[j].function = ring[j].function
<1>0. ASSUME ring' = ring PROVE Grows(t) /\ \A j \in DOMAIN ring : ring'[j] = ring[j]
  BY <1>0 DEF Grows
<1>1. CASE Arrive(t)
  BY <1>0, <1>1 DEF Arrive
<1>2. CASE Advance(t)
  BY <1>2, AddsGrows DEF Advance
<1>3. CASE Leave(t)
  <2> DEFINE kinds == IF thr[t].at = "data" THEN {"data"} ELSE {"proto"}
  <2>1. kinds \in SUBSET {"proto", "hello", "data"} /\ ("data" \in kinds => thr[t].at = "data")
    OBVIOUS
  <2>2. Adds(t, thr[t].elem, kinds)
    BY <1>3 DEF Leave
  <2> QED  BY <2>1, <2>2, AddsGrows
<1>4. CASE GoAccept(t)
  BY <1>0, <1>4 DEF GoAccept
<1>5. ASSUME NEW f \in Fds, NEW s \in Socks, Install(t, f, s) PROVE ring' = ring
  BY <1>5 DEF Install
<1>6. ASSUME NEW e \in Elems, Insert(t, e) PROVE ring' = ring
  BY <1>6 DEF Insert
<1>7. CASE Reserve(t)
  <2>1. PICK ev \in Events :
         /\ ring' = Append(ring, ev)
         /\ ev.kind = "open" /\ ev.state = "busy" /\ ev.function = conn[thr[t].elem].function
    BY <1>7 DEF Reserve
  <2>2. ring'[Len(ring) + 1] = ev => Added(t, Len(ring) + 1)
    BY <2>1 DEF Added
  <2> QED  BY <2>1, <2>2, AppendGrows
<1>8. CASE Mark(t)
  BY <1>0, <1>8 DEF Mark
<1>9. ASSUME NEW c, Submit(t, c)
      PROVE  /\ Grows(t)
             /\ \A j \in DOMAIN ring :
                \/ ring'[j] = ring[j]
                \/ /\ thr[t].at = "fill" /\ j = thr[t].slot
                   /\ ring'[j].kind = ring[j].kind /\ ring'[j].function = ring[j].function
  <2>1. Len(ring') = Len(ring)
    BY <1>9 DEF Submit
  <2>2. DOMAIN ring' = DOMAIN ring
    BY <2>1, SMT DEF TypeInv
  <2> QED  BY <1>9, <2>2 DEF Submit, Grows
<1>10. ASSUME NEW f \in Fds, BeginClose(t, f) PROVE ring' = ring
  BY <1>10 DEF BeginClose, Rest
<1>11. CASE Free(t)
  BY <1>0, <1>11 DEF Free, Rest
<1>12. CASE Release(t)
  BY <1>0, <1>12, ClosesGrows DEF Release, Released
<1>13. CASE Exit(t)
  <2>1. thr[t].fd \in Fds
    BY <1>13 DEF Exit, CallsInv, CallOf, Closing, Released
  <2> QED  BY <1>0, <1>13, <2>1, ClosesGrows DEF Exit, Released
<1> QED  BY <1>0, <1>1, <1>2, <1>3, <1>4, <1>5, <1>6, <1>7, <1>8, <1>9, <1>10, <1>11, <1>12, <1>13 DEF Step

\* A connection changes where it is inserted, reported and marked open.
Kept(e) ==
    /\ conn'[e].function = conn[e].function
    /\ conn'[e].cookie = conn[e].cookie
    /\ conn'[e].is_open = conn[e].is_open
    /\ conn'[e].ignore => conn[e].ignore \/ conn[e].is_open \/ scope.strategy = "ignore"

LEMMA ConnStep ==
    ASSUME NEW t \in Threads, Step(t), NEW e \in Elems
    PROVE  \/ Kept(e)
           \/ Insert(t, e)
           \/ Mark(t) /\ e = thr[t].elem
           \/ \E c \in Socks \cup {NONE} : Submit(t, c) /\ e = thr[t].elem
<1>0. conn' = conn => Kept(e)
  BY DEF Kept
<1>1. conn'[e] = conn[e] => Kept(e)
  BY DEF Kept
<1>2. Keeps => Kept(e)
  BY DEF Keeps, Kept
<1>3. Arrive(t) \/ GoAccept(t) \/ Reserve(t) \/ Free(t) \/ Release(t) \/ Exit(t) => Kept(e)
  BY <1>0 DEF Arrive, GoAccept, Reserve, Free, Rest, Release, Exit
<1>4. Advance(t) \/ Leave(t) => Kept(e)
  BY <1>2 DEF Advance, Leave
<1>5. ASSUME NEW f \in Fds, NEW s \in Socks, Install(t, f, s) PROVE Kept(e)
  BY <1>0, <1>5 DEF Install
<1>6. ASSUME NEW f \in Fds, BeginClose(t, f) PROVE Kept(e)
  BY <1>0, <1>6 DEF BeginClose, Rest
<1>7. ASSUME NEW x \in Elems, Insert(t, x) PROVE Kept(e) \/ Insert(t, e)
  BY <1>1, <1>7 DEF Insert
<1>8. CASE Mark(t)
  BY <1>1, <1>8 DEF Mark
<1>9. ASSUME NEW c \in Socks \cup {NONE}, Submit(t, c) PROVE Kept(e) \/ e = thr[t].elem
  BY <1>1, <1>9 DEF Submit
<1> QED  BY <1>3, <1>4, <1>5, <1>6, <1>7, <1>8, <1>9 DEF Step

LEMMA StepFrame ==
    ASSUME NEW t \in Threads, Step(t)
    PROVE  Only(t) /\ scope' = scope /\ cookies \subseteq cookies'
<1>1. Arrive(t) \/ Advance(t) \/ Leave(t) \/ GoAccept(t) \/ Reserve(t) \/ Mark(t) =>
        Only(t) /\ scope' = scope /\ cookies \subseteq cookies'
  BY DEF Arrive, Advance, Leave, GoAccept, Reserve, Mark, Quiet
<1>2. ASSUME NEW f \in Fds, NEW s \in Socks, Install(t, f, s) PROVE Only(t) /\ scope' = scope /\ cookies' = cookies
  BY <1>2 DEF Install
<1>3. ASSUME NEW e \in Elems, Insert(t, e) PROVE Only(t) /\ scope' = scope /\ cookies' = cookies
  BY <1>3 DEF Insert
<1>4. ASSUME NEW c \in Socks \cup {NONE}, Submit(t, c) PROVE Only(t) /\ scope' = scope /\ cookies' = cookies
  BY <1>4 DEF Submit, Quiet
<1>5. ASSUME NEW f \in Fds, BeginClose(t, f) PROVE Only(t) /\ scope' = scope /\ cookies' = cookies
  BY <1>5 DEF BeginClose, Rest
<1>6. Free(t) \/ Release(t) \/ Exit(t) => Only(t) /\ scope' = scope /\ cookies' = cookies
  BY DEF Free, Rest, Release, Exit
<1> QED  BY <1>1, <1>2, <1>3, <1>4, <1>5, <1>6 DEF Step

\* Which steps lead to the places of the open record and of the data.
LEMMA Lands ==
    ASSUME NEW t \in Threads, Step(t)
    PROVE  /\ thr'[t].at = "fill" => Reserve(t)
           /\ thr'[t].at = "mark" => \E c \in Socks \cup {NONE} : Submit(t, c)
           /\ thr'[t].at \in Processing => Advance(t)
<1> DEFINE Other == thr'[t].at \notin Processing \cup {"fill", "mark"}
<1>1. Arrive(t) \/ Leave(t) \/ GoAccept(t) \/ Mark(t) => Other
  BY DEF Arrive, Leave, GoAccept, Mark, End, Home, Processing
<1>2. ASSUME NEW f \in Fds, NEW s \in Socks, Install(t, f, s) PROVE Other
  BY <1>2 DEF Install, Home, Processing
<1>3. ASSUME NEW e \in Elems, Insert(t, e) PROVE Other
  BY <1>3 DEF Insert, Processing
<1>4. ASSUME NEW f \in Fds, BeginClose(t, f) PROVE Other
  BY <1>4 DEF BeginClose, Processing
<1>5. Free(t) \/ Release(t) \/ Exit(t) => Other
  BY DEF Free, Release, Exit, Released, Home, Processing
<1>6. ASSUME NEW c \in Socks \cup {NONE}, Submit(t, c) PROVE thr'[t].at \notin Processing \cup {"fill"}
  BY <1>6 DEF Submit, End, Home, Processing
<1>7. Reserve(t) => thr'[t].at \notin Processing \cup {"mark"}
  BY DEF Reserve, Processing
<1>8. Advance(t) => thr'[t].at \notin {"fill", "mark"}
  BY DEF Advance
<1> QED  BY <1>1, <1>2, <1>3, <1>4, <1>5, <1>6, <1>7, <1>8 DEF Step

\* From there, only the submission goes on.
LEMMA FillSubmits ==
    ASSUME NEW t \in Threads, Step(t), thr[t].at = "fill"
    PROVE  \E c \in Socks \cup {NONE} : Submit(t, c)
<1>1. ~Arrive(t) /\ ~Advance(t) /\ ~Leave(t) /\ ~GoAccept(t) /\ ~Reserve(t) /\ ~Mark(t)
  BY DEF Arrive, Advance, Leave, GoAccept, Reserve, Mark
<1>2. \A f \in Fds, s \in Socks : ~Install(t, f, s)
  BY DEF Install
<1>3. /\ \A e \in Elems : ~Insert(t, e)
      /\ \A f \in Fds : ~BeginClose(t, f)
  BY DEF Insert, BeginClose
<1>4. ~Free(t) /\ ~Release(t) /\ ~Exit(t)
  BY DEF Free, Release, Exit
<1> QED  BY <1>1, <1>2, <1>3, <1>4 DEF Step

\* A connection that a probe holds is not made anew.
LEMMA HeldConn ==
    ASSUME HeldInv, NEW t \in Threads, Step(t), NEW u \in Threads, thr[u].at \in Holding
    PROVE  /\ ~Insert(t, thr[u].elem)
           /\ conn'[thr[u].elem].function = conn[thr[u].elem].function
           /\ conn[thr[u].elem].is_open => conn'[thr[u].elem].is_open
<1>1. thr[u].elem \in Elems
  BY DEF HeldInv
<1>2. ~Insert(t, thr[u].elem)
  BY DEF Insert, FreeElems
<1> QED  BY <1>1, <1>2, ConnStep DEF Kept, Mark, Submit

\* The socket of a descriptor in use is known as before or forgotten.
LEMMA SockOfUsed ==
    ASSUME TypeInv, CallsInv, NEW t \in Threads, Step(t), NEW u \in Threads, thr[u].at \in Using
    PROVE  /\ thr[u].fd \in Fds
           /\ pid_fd_to_sock'[thr[u].fd] \in {pid_fd_to_sock[thr[u].fd], NONE}
<1>0. thr[u].fd \in Fds /\ fdtab[thr[u].fd] # NONE
  BY SocketAssumption, ZenonT(30) DEF CallsInv, CallOf
<1>1. Arrive(t) \/ Advance(t) \/ Leave(t) \/ GoAccept(t) \/ Reserve(t) \/ Mark(t) \/ Free(t) \/ Exit(t) =>
        UNCHANGED pid_fd_to_sock
  BY DEF Arrive, Advance, Leave, GoAccept, Reserve, Mark, Quiet, Free, Rest, Exit
<1>2. ASSUME NEW f \in Fds, NEW s \in Socks, Install(t, f, s)
      PROVE  pid_fd_to_sock'[thr[u].fd] = pid_fd_to_sock[thr[u].fd]
  BY <1>0, <1>2 DEF Install, fd_install, TypeInv
<1>3. ASSUME NEW e \in Elems, Insert(t, e) PROVE UNCHANGED pid_fd_to_sock
  BY <1>3 DEF Insert
<1>4. ASSUME NEW c \in Socks \cup {NONE}, Submit(t, c) PROVE UNCHANGED pid_fd_to_sock
  BY <1>4 DEF Submit, Quiet
<1>5. ASSUME NEW f \in Fds, BeginClose(t, f) PROVE UNCHANGED pid_fd_to_sock
  BY <1>5 DEF BeginClose, Rest
<1>6. CASE Release(t)
  BY <1>0, <1>6 DEF Release, ForgetFile, TypeInv
<1> QED  BY <1>0, <1>1, <1>2, <1>3, <1>4, <1>5, <1>6 DEF Step

-----------------------------------------------------------------------------
\* The open record

LEMMA SlotStep ==
    ASSUME TypeInv, TypeInv', CallsInv, HeldInv, SlotInv, NEW t \in Threads, Step(t)
    PROVE  SlotInv'
<1>1. Only(t) /\ Grows(t)
  BY StepFrame, RingStep
\* The slot of another thread stays.
<1>2. ASSUME NEW u \in Threads, u # t, thr[u].at = "fill"
      PROVE  /\ thr[u].slot \in DOMAIN ring
             /\ thr[u].slot \in DOMAIN ring'
             /\ ring'[thr[u].slot].state = "busy" /\ ring'[thr[u].slot].kind = "open"
             /\ ring'[thr[u].slot].function = conn'[thr[u].elem].function
  <2>1. thr[u].at \in Holding
    BY <1>2 DEF Holding, Opening
  <2>2. conn'[thr[u].elem].function = conn[thr[u].elem].function
    BY <2>1, HeldConn
  <2>3. ring'[thr[u].slot] = ring[thr[u].slot]
    BY <1>2, RingStep DEF SlotInv
  <2> QED  BY <1>1, <1>2, <2>2, <2>3 DEF SlotInv, Grows
<1>3. CASE thr'[t].at # "fill"
  <2>1. \A u \in Threads : thr'[u].at = "fill" => u # t /\ thr'[u] = thr[u]
    BY <1>1, <1>3 DEF Only
  <2>2. ASSUME NEW u \in Threads, thr'[u].at = "fill"
        PROVE  /\ thr'[u].slot \in DOMAIN ring'
               /\ ring'[thr'[u].slot].state = "busy" /\ ring'[thr'[u].slot].kind = "open"
               /\ ring'[thr'[u].slot].function = conn'[thr'[u].elem].function
    BY <1>2, <2>1, <2>2
  <2>3. \A u, v \in Threads :
          thr'[u].at = "fill" /\ thr'[v].at = "fill" /\ thr'[u].slot = thr'[v].slot => u = v
    BY <2>1, ZenonT(30) DEF SlotInv
  <2> QED  BY <2>2, <2>3 DEF SlotInv
<1>4. CASE Reserve(t)
  <2>1. PICK ev \in Events :
         /\ ring' = Append(ring, ev)
         /\ ev.kind = "open" /\ ev.state = "busy" /\ ev.function = conn[thr[t].elem].function
    BY <1>4 DEF Reserve
  <2>2. /\ thr'[t].slot \notin DOMAIN ring /\ thr'[t].slot \in DOMAIN ring' /\ ring'[thr'[t].slot] = ev
        /\ thr'[t].elem = thr[t].elem /\ conn' = conn
    BY <1>4, <2>1, AppendIs DEF Reserve
  <2>3. ASSUME NEW u \in Threads, thr'[u].at = "fill"
        PROVE  /\ thr'[u].slot \in DOMAIN ring'
               /\ ring'[thr'[u].slot].state = "busy" /\ ring'[thr'[u].slot].kind = "open"
               /\ ring'[thr'[u].slot].function = conn'[thr'[u].elem].function
    <3>1. CASE u = t
      BY <2>1, <2>2, <3>1
    <3>2. CASE u # t
      BY <1>1, <1>2, <2>3, <3>2 DEF Only
    <3> QED  BY <3>1, <3>2
  <2>4. \A u \in Threads : u # t /\ thr'[u].at = "fill" => thr'[u].slot # thr'[t].slot
    BY <1>1, <1>2, <2>2 DEF Only
  <2>5. \A u, v \in Threads :
          thr'[u].at = "fill" /\ thr'[v].at = "fill" /\ thr'[u].slot = thr'[v].slot => u = v
    BY <1>1, <2>4, ZenonT(30) DEF SlotInv, Only
  <2> QED  BY <2>3, <2>5 DEF SlotInv
<1>5. Reserve(t) \/ thr'[t].at # "fill"
  BY Lands
<1> QED  BY <1>3, <1>4, <1>5

\* A second submission on a connection finds the cookie that is stored.
LEMMA CookieStays ==
    ASSUME TypeInv, HeldInv, NEW t \in Threads, NEW u \in Threads, NEW c, Submit(t, c),
           thr[u].at \in Holding, thr[u].elem = thr[t].elem, Settled(u)
    PROVE  c = conn[thr[t].elem].cookie /\ Settled(t)
<1>1. thr[t].fd = thr[u].fd
  BY DEF HeldInv
<1> QED  BY <1>1, SMT DEF Submit, Settled, CookieOf

\* What is sent stays sent.
SentNext(c) ==
    \E j \in DOMAIN ring' : ring'[j].state = "sent" /\ ring'[j].kind = "open" /\ ring'[j].cookie = c

LEMMA OpenSentStays ==
    ASSUME TypeInv, TypeInv', CallsInv, HeldInv, SlotInv, NEW t \in Threads, Step(t), NEW c, OpenSent(c)
    PROVE  SentNext(c)
<1>1. PICK j \in DOMAIN ring : ring[j].state = "sent" /\ ring[j].kind = "open" /\ ring[j].cookie = c
  BY DEF OpenSent
<1>2. ring'[j] = ring[j] /\ j \in DOMAIN ring'
  BY <1>1, RingStep DEF SlotInv, Grows
<1> QED  BY <1>1, <1>2 DEF SentNext

LEMMA SettledStays ==
    ASSUME TypeInv, CallsInv, HeldInv, NEW t \in Threads, Step(t), NEW u \in Threads, u # t,
           thr[u].at \in Holding, Settled(u)
    PROVE  Settled(u)' /\ conn'[thr[u].elem].cookie = conn[thr[u].elem].cookie
<1>0. thr[u].at \in Using /\ thr[u].elem \in Elems /\ thr'[u] = thr[u]
  BY Apart, StepFrame DEF HeldInv, Only
<1>1. pid_fd_to_sock'[thr[u].fd] \in {pid_fd_to_sock[thr[u].fd], NONE}
  BY <1>0, SockOfUsed
<1>2. conn'[thr[u].elem].cookie = conn[thr[u].elem].cookie
  <2>1. ~Insert(t, thr[u].elem)
    BY HeldConn
  <2>2. ASSUME NEW c, Submit(t, c), thr[u].elem = thr[t].elem
        PROVE  conn'[thr[u].elem].cookie = conn[thr[u].elem].cookie
    <3>1. c = conn[thr[t].elem].cookie
      BY <2>2, CookieStays
    <3> QED  BY <2>2, <3>1 DEF Submit
  <2> QED  BY <1>0, <2>1, <2>2, ConnStep DEF Kept, Mark
<1>3. cookies \subseteq cookies'
  BY StepFrame
<1> QED  BY <1>0, <1>1, <1>2, <1>3 DEF Settled

LEMMA OpenStepKeeps ==
    ASSUME TypeInv, TypeInv', CallsInv, HeldInv, SlotInv, OpenInv, NEW t \in Threads, Step(t)
    PROVE  OpenInv'
<1>0. Only(t) /\ cookies \subseteq cookies'
  BY StepFrame
<1>a. thr[t].at \in Holding => thr[t].elem \in Elems
  BY DEF HeldInv
<1>f. ASSUME NEW c, Submit(t, c)
      PROVE  /\ thr[t].elem \in Elems
             /\ conn[thr[t].elem].is_open => c = conn[thr[t].elem].cookie
             /\ conn'[thr[t].elem].cookie = c /\ conn'[thr[t].elem].is_open = conn[thr[t].elem].is_open
  <2>1. thr[t].at = "fill" /\ thr[t].at \in Holding
    BY <1>f DEF Submit, Holding, Opening
  <2>2. conn[thr[t].elem].is_open => Settled(t)
    BY <2>1 DEF OpenInv
  <2> QED  BY <1>a, <1>f, <2>1, <2>2, CookieStays DEF Submit
<1>1. ASSUME NEW e \in Elems, conn'[e].is_open PROVE SentNext(conn'[e].cookie)
  <2>1. CASE Kept(e)
    BY <1>1, <2>1, OpenSentStays DEF Kept, OpenInv
  <2>2. CASE Insert(t, e)
    BY <1>1, <2>2 DEF Insert
  <2>3. CASE Mark(t) /\ e = thr[t].elem
    BY <2>3, OpenSentStays DEF Mark, OpenInv
  <2>4. ASSUME NEW c, Submit(t, c), e = thr[t].elem PROVE SentNext(conn'[e].cookie)
    BY <1>1, <1>f, <2>4, OpenSentStays DEF OpenInv
  <2> QED  BY <2>1, <2>2, <2>3, <2>4, ConnStep
\* The other threads.
<1>2. ASSUME NEW u \in Threads, u # t, thr[u].at = "mark"
      PROVE  SentNext(conn'[thr[u].elem].cookie) /\ Settled(u)'
  <2>1. thr[u].at \in Holding /\ OpenSent(conn[thr[u].elem].cookie) /\ Settled(u)
    BY <1>2 DEF OpenInv, Holding, Opening
  <2> QED  BY <1>2, <2>1, SettledStays, OpenSentStays
<1>3. ASSUME NEW u \in Threads, u # t, thr[u].at = "fill", conn'[thr[u].elem].is_open
      PROVE  Settled(u)'
  <2>0. thr[u].at \in Holding /\ thr[u].elem \in Elems
    BY <1>3 DEF HeldInv, Holding, Opening
  <2>1. CASE conn[thr[u].elem].is_open
    BY <1>3, <2>0, <2>1, SettledStays DEF OpenInv
  <2>2. CASE ~conn[thr[u].elem].is_open
    <3>1. Mark(t) /\ thr[u].elem = thr[t].elem
      BY <1>3, <2>0, <2>2, ConnStep, HeldConn, ZenonT(30) DEF Kept, Submit
    <3>2. Settled(t) /\ thr[t].at \in Holding
      BY <3>1 DEF Mark, OpenInv, Holding, Opening
    <3>3. thr[u].fd = thr[t].fd
      BY <2>0, <3>1 DEF HeldInv
    <3>4. Settled(u)
      BY <3>1, <3>2, <3>3 DEF Settled
    <3> QED  BY <1>3, <2>0, <3>4, SettledStays
  <2> QED  BY <2>1, <2>2
<1>4. ASSUME NEW u \in Threads, thr[u].at \in Processing PROVE conn'[thr[u].elem].is_open
  BY <1>4, HeldConn, Apart DEF OpenInv
\* The thread that steps.
<1>5. ASSUME thr'[t].at = "mark" PROVE SentNext(conn'[thr'[t].elem].cookie) /\ Settled(t)'
  <2>1. PICK c \in Socks \cup {NONE} : Submit(t, c)
    BY <1>5, Lands
  <2>2. /\ c # NONE /\ ring'[thr[t].slot].state = "sent" /\ thr'[t].elem = thr[t].elem /\ Same(t)
        /\ ring'[thr[t].slot].kind = ring[thr[t].slot].kind /\ ring'[thr[t].slot].cookie = c
        /\ thr[t].at = "fill"
    BY <1>5, <2>1 DEF Submit, End, Home
  <2>3. thr[t].slot \in DOMAIN ring /\ ring[thr[t].slot].kind = "open"
    BY <2>2 DEF SlotInv
  <2>4. thr[t].slot \in DOMAIN ring'
    BY <2>3, RingStep DEF Grows
  <2>5. SentNext(c)
    BY <2>2, <2>3, <2>4 DEF SentNext
  <2>6. conn'[thr[t].elem].cookie = c /\ pid_fd_to_sock' = pid_fd_to_sock
    BY <1>f, <2>1 DEF Submit, Quiet
  <2>7. pid_fd_to_sock[thr[t].fd] # NONE => c = pid_fd_to_sock[thr[t].fd] /\ c \in cookies
    BY <2>1, <2>2, SMT DEF Submit, CookieOf
  <2>8. thr'[t].fd = thr[t].fd
    BY <2>2 DEF Same
  <2>9. Settled(t)'
    BY <1>0, <2>2, <2>6, <2>7, <2>8 DEF Settled
  <2> QED  BY <2>2, <2>5, <2>6, <2>9
<1>6. ASSUME thr'[t].at = "fill" PROVE ~conn'[thr'[t].elem].is_open
  <2>1. Reserve(t)
    BY <1>6, Lands
  <2> QED  BY <2>1 DEF Reserve
<1>7. ASSUME thr'[t].at \in Processing PROVE conn'[thr'[t].elem].is_open
  <2>1. Advance(t)
    BY <1>7, Lands
  <2>2. thr'[t].at \in Holding /\ thr'[t].elem \in Elems
    BY <1>7, <2>1, Apart DEF Advance
  <2>3. conn[thr'[t].elem].is_open
    BY <1>7, <2>1, <2>2, Apart DEF Advance, OpenInv
  <2> QED  BY <2>1, <2>2, <2>3 DEF Advance, Keeps
<1>8. ASSUME NEW u \in Threads
      PROVE  /\ thr'[u].at = "mark" => SentNext(conn'[thr'[u].elem].cookie) /\ Settled(u)'
             /\ thr'[u].at = "fill" /\ conn'[thr'[u].elem].is_open => Settled(u)'
             /\ thr'[u].at \in Processing => conn'[thr'[u].elem].is_open
  <2>1. CASE u = t
    BY <1>5, <1>6, <1>7, <2>1
  <2>2. CASE u # t
    <3>1. thr'[u] = thr[u]
      BY <1>0, <2>2 DEF Only
    <3> QED  BY <1>2, <1>3, <1>4, <2>2, <3>1
  <2> QED  BY <2>1, <2>2
\* The records.
<1>9. ASSUME NEW i \in DOMAIN ring', ring'[i].state = "sent", ring'[i].kind \in {"data", "close"}
      PROVE  \E j \in DOMAIN ring' :
               /\ ring'[j].state = "sent" /\ ring'[j].kind = "open" /\ ring'[j].cookie = ring'[i].cookie
               /\ j < i
  <2>0. ASSUME NEW j \in DOMAIN ring, ring[j].state = "sent" PROVE ring'[j] = ring[j] /\ j \in DOMAIN ring'
    BY <2>0, RingStep DEF SlotInv, Grows
  <2>1. CASE i \in DOMAIN ring
    <3>1. ring'[i] = ring[i]
      BY <1>9, <2>1, RingStep DEF SlotInv
    <3> QED  BY <1>9, <2>0, <2>1, <3>1 DEF OpenInv
  <2>2. CASE i \notin DOMAIN ring
    <3>1. Added(t, i) /\ \A j \in DOMAIN ring' : j < i \/ j = i
      BY <1>9, <2>2, RingStep DEF Grows
    <3>2. PICK e \in Elems : conn[e].is_open /\ ring'[i].cookie = conn[e].cookie
      BY <1>9, <1>a, <3>1 DEF Added, Removed, OpenInv, Processing
    <3>3. PICK j \in DOMAIN ring : ring[j].state = "sent" /\ ring[j].kind = "open" /\ ring[j].cookie = ring'[i].cookie
      <4>1. OpenSent(conn[e].cookie)
        BY <3>2 DEF OpenInv
      <4> QED  BY <3>2, <4>1 DEF OpenSent
    <3>4. j < i
      BY <2>0, <2>2, <3>1, <3>3
    <3> QED  BY <2>0, <3>3, <3>4
  <2> QED  BY <2>1, <2>2
<1>10. ASSUME NEW i \in DOMAIN ring', ring'[i].kind = "open", ring'[i].state = "sent"
       PROVE  ring'[i].cookie # NONE
  <2>1. CASE i \in DOMAIN ring /\ ring'[i] = ring[i]
    BY <1>10, <2>1 DEF OpenInv
  <2>2. CASE i \in DOMAIN ring /\ ring'[i] # ring[i]
    <3>1. thr[t].at = "fill" /\ i = thr[t].slot
      BY <2>2, RingStep
    <3> QED  BY <1>10, <3>1, FillSubmits DEF Submit
  <2>3. CASE i \notin DOMAIN ring
    BY <1>10, <2>3, RingStep DEF Grows, Added
  <2> QED  BY <2>1, <2>2, <2>3
<1> QED  BY <1>1, <1>8, <1>9, <1>10 DEF OpenInv, OpenSent, SentNext

-----------------------------------------------------------------------------
\* The filters

LEMMA FilterStep ==
    ASSUME TypeInv, TypeInv', CallsInv, HeldInv, SlotInv, OpenInv, FilterInv, NEW t \in Threads, Step(t)
    PROVE  FilterInv'
<1>0. Only(t) /\ scope' = scope
  BY StepFrame
<1>a. \A u \in Threads : thr[u].at \in Holding => thr[u].elem \in Elems
  BY DEF HeldInv
<1>1. ASSUME NEW e \in Elems, conn'[e].is_open PROVE Passes(conn'[e].function)
  <2>1. CASE Kept(e)
    BY <1>1, <2>1 DEF Kept, FilterInv
  <2>2. CASE Insert(t, e)
    BY <1>1, <2>2 DEF Insert
  <2>3. CASE Mark(t) /\ e = thr[t].elem
    BY <2>3 DEF Mark, FilterInv
  <2>4. ASSUME NEW c, Submit(t, c), e = thr[t].elem PROVE Passes(conn'[e].function)
    BY <1>1, <2>4 DEF Submit, FilterInv
  <2> QED  BY <2>1, <2>2, <2>3, <2>4, ConnStep
<1>2. ASSUME NEW u \in Threads, u # t
      PROVE  /\ thr'[u] = thr[u]
             /\ thr[u].at \in Holding => conn'[thr[u].elem].function = conn[thr[u].elem].function
  BY <1>0, <1>2, HeldConn DEF Only
<1>3. thr'[t].at = "fill" => scope.strategy # "ignore"
  BY Lands DEF Reserve
<1>4. ASSUME thr'[t].at = "mark" PROVE Passes(conn'[thr'[t].elem].function)
  <2>1. PICK c \in Socks \cup {NONE} : Submit(t, c)
    BY <1>4, Lands
  <2>2. /\ thr'[t].elem = thr[t].elem /\ thr[t].at = "fill"
        /\ ~IgnoredAtOpen(scope, conn[thr[t].elem].function)
        /\ conn'[thr[t].elem].function = conn[thr[t].elem].function
    BY <1>4, <2>1 DEF Submit, End, Home
  <2> QED  BY <2>2 DEF FilterInv, Passes
<1>5. /\ thr'[t].at \in Processing => scope.strategy \in {"observe", "audit"}
      /\ thr'[t].at = "data" => "data" \notin scope.filter
  BY Lands DEF Advance, FilterInv, Processing
<1>6. ASSUME NEW u \in Threads
      PROVE  /\ thr'[u].at = "fill" => scope.strategy # "ignore"
             /\ thr'[u].at = "mark" => Passes(conn'[thr'[u].elem].function)
             /\ thr'[u].at \in Processing => scope.strategy \in {"observe", "audit"}
             /\ thr'[u].at = "data" => "data" \notin scope.filter
  <2>1. CASE u = t
    BY <1>3, <1>4, <1>5, <2>1
  <2>2. CASE u # t
    <3>1. thr[u].at = "mark" => thr[u].at \in Holding
      BY DEF Holding, Opening
    <3> QED  BY <1>2, <2>2, <3>1 DEF FilterInv
  <2> QED  BY <2>1, <2>2
<1>7. ASSUME NEW i \in DOMAIN ring', ring'[i].state = "sent", ring'[i].kind \in {"open", "data", "close"}
      PROVE  /\ Passes(ring'[i].function)
             /\ ring'[i].kind = "data" =>
                  scope.strategy \in {"observe", "audit"} /\ "data" \notin scope.filter
  <2>1. CASE i \in DOMAIN ring /\ ring'[i] = ring[i]
    BY <1>7, <2>1 DEF FilterInv
  <2>2. CASE i \in DOMAIN ring /\ ring'[i] # ring[i]
    <3>1. /\ thr[t].at = "fill" /\ i = thr[t].slot
          /\ ring'[i].kind = ring[i].kind /\ ring'[i].function = ring[i].function
      BY <2>2, RingStep
    <3>2. ring[i].kind = "open" /\ ring[i].function = conn[thr[t].elem].function /\ ring[i].state = "busy"
      BY <3>1 DEF SlotInv
    <3>3. thr[t].at \in Holding
      BY <3>1 DEF Holding, Opening
    <3>4. \E c \in Socks \cup {NONE} : Submit(t, c)
      BY <3>1, FillSubmits
    <3>5. ~IgnoredAtOpen(scope, conn[thr[t].elem].function)
      BY <1>7, <3>1, <3>4 DEF Submit
    <3> QED  BY <3>1, <3>2, <3>5 DEF FilterInv, Passes
  <2>3. CASE i \notin DOMAIN ring
    <3>1. Added(t, i)
      BY <2>3, RingStep DEF Grows
    <3>2. CASE ring'[i].kind = "data" /\ thr[t].at = "data" /\ ring'[i].function = conn[thr[t].elem].function
      <4>1. thr[t].at \in Processing /\ thr[t].at \in Holding
        BY <3>2 DEF Holding, Processing
      <4> QED  BY <1>a, <3>2, <4>1 DEF OpenInv, FilterInv
    <3>3. CASE ring'[i].kind = "close" /\ \E f \in Fds : Removed(t, f, i)
      BY <3>3 DEF Removed, FilterInv
    <3> QED  BY <1>7, <3>1, <3>2, <3>3 DEF Added
  <2> QED  BY <2>1, <2>2, <2>3
<1> QED  BY <1>0, <1>1, <1>6, <1>7 DEF FilterInv, Passes

-----------------------------------------------------------------------------
\* What closed descriptors leave behind

LEMMA QuietLeft ==
    ASSUME LeftInv, NEW t \in Threads, Only(t), Quiet, thr[t].at \notin Released, thr'[t].at \notin Released
    PROVE  LeftInv'
<1>1. \A u \in Threads : thr'[u].at \in Released => u # t /\ thr'[u] = thr[u]
  BY DEF Only
<1>2. \A u \in Threads : thr[u].at \in Released => u # t /\ thr'[u] = thr[u]
  BY DEF Only
<1>3. UNCHANGED <<fdtab, fresh, file_to_pid_fd, pid_fd_to_sock, conn_info_map>>
  BY DEF Quiet
<1> QED  BY <1>1, <1>2, <1>3, SMT DEF LeftInv

LEMMA LeftStep ==
    ASSUME TypeInv, TypeInv', CallsInv, HeldInv, LeftInv, NEW t \in Threads, Step(t)
    PROVE  LeftInv'
<1>0. NONE \notin Fds /\ NONE \notin Socks
  BY SocketAssumption
<1>a. Only(t)
  BY StepFrame
<1>l. /\ \A f \in Fds : fdtab[f] # NONE => file_to_pid_fd[fdtab[f]] = f /\ fdtab[f] \notin fresh
      /\ \A u \in Threads :
         thr[u].at \in Released =>
           /\ thr[u].sock \notin fresh /\ file_to_pid_fd[thr[u].sock] \in {NONE, thr[u].fd}
           /\ \A f \in Fds : fdtab[f] # thr[u].sock
  BY DEF LeftInv
<1>w. ASSUME NEW f \in Fds, fdtab[f] = NONE, conn_info_map[f] # NONE \/ pid_fd_to_sock[f] # NONE
      PROVE  \E u \in Threads : thr[u].at \in Released /\ thr[u].fd = f /\ file_to_pid_fd[thr[u].sock] = f
  BY <1>w DEF LeftInv
<1>s. \A u \in Threads : thr[u].at \in Closing => thr[u].fd \in Fds /\ thr[u].sock \in Socks
  BY DEF CallsInv, CallOf
<1>1. CASE Arrive(t)
  BY <1>1, <1>a, QuietLeft DEF Arrive, Released
<1>2. CASE Advance(t)
  BY <1>2, <1>a, QuietLeft, Apart DEF Advance
<1>3. CASE Leave(t)
  BY <1>3, <1>a, QuietLeft, Apart DEF Leave, Home
<1>4. CASE GoAccept(t)
  BY <1>4, <1>a, QuietLeft DEF GoAccept, Released
<1>5. CASE Reserve(t)
  BY <1>5, <1>a, QuietLeft DEF Reserve, Released
<1>6. CASE Mark(t)
  BY <1>6, <1>a, QuietLeft DEF Mark, End, Home, Released
<1>7. ASSUME NEW c \in Socks \cup {NONE}, Submit(t, c) PROVE LeftInv'
  BY <1>7, <1>a, QuietLeft DEF Submit, End, Home, Released
\* Released threads stay where they are, but t.
<1>r. \A u \in Threads : u # t => thr'[u] = thr[u]
  BY <1>a DEF Only
<1>8. ASSUME NEW e \in Elems, Insert(t, e) PROVE LeftInv'
  <2>1. thr[t].fd \in Fds /\ fdtab[thr[t].fd] # NONE
    BY <1>0, <1>8 DEF Insert, CallsInv, CallOf, Using
  <2>2. \A f \in Fds : f # thr[t].fd => conn_info_map'[f] = conn_info_map[f]
    BY <1>8, <2>1 DEF Insert, TypeInv
  <2>3. /\ UNCHANGED <<fdtab, fresh, file_to_pid_fd, pid_fd_to_sock>>
        /\ thr[t].at \notin Released /\ thr'[t].at \notin Released
    BY <1>8 DEF Insert, Released
  <2>4. \A u \in Threads : thr[u].at \in Released \/ thr'[u].at \in Released => u # t /\ thr'[u] = thr[u]
    BY <1>r, <2>3
  <2> QED  BY <1>l, <1>w, <2>1, <2>2, <2>3, <2>4, SMT DEF LeftInv
<1>9. ASSUME NEW f \in Fds, NEW s \in Socks, Install(t, f, s) PROVE LeftInv'
  <2>1. /\ fdtab[f] = NONE /\ s \in fresh
        /\ fdtab' = [fdtab EXCEPT ![f] = s]
        /\ fresh' = fresh \ {s}
        /\ pid_fd_to_sock' = [pid_fd_to_sock EXCEPT ![f] = s]
        /\ file_to_pid_fd' = [file_to_pid_fd EXCEPT ![s] = f]
        /\ conn_info_map' = conn_info_map
        /\ thr[t].at \notin Released /\ thr'[t].at \notin Released
    BY <1>9 DEF Install, fd_install, Home, Released
  <2>2. /\ fdtab'[f] = s /\ file_to_pid_fd'[s] = f
        /\ \A g \in Fds : g # f => fdtab'[g] = fdtab[g] /\ pid_fd_to_sock'[g] = pid_fd_to_sock[g]
        /\ \A x \in Socks : x # s => file_to_pid_fd'[x] = file_to_pid_fd[x]
    BY <2>1 DEF TypeInv
  <2>3. \A u \in Threads : thr[u].at \in Released \/ thr'[u].at \in Released => u # t /\ thr'[u] = thr[u]
    BY <1>r, <2>1
  <2>4. \A g \in Fds : fdtab'[g] # NONE => file_to_pid_fd'[fdtab'[g]] = g /\ fdtab'[g] \notin fresh'
    BY <1>l, <2>1, <2>2, SMT DEF TypeInv
  <2>5. ASSUME NEW u \in Threads, thr[u].at \in Released
        PROVE  /\ thr[u].sock \notin fresh' /\ file_to_pid_fd'[thr[u].sock] = file_to_pid_fd[thr[u].sock]
               /\ \A g \in Fds : fdtab'[g] # thr[u].sock
    <3>1. thr[u].sock \in Socks /\ thr[u].sock # s
      BY <1>l, <1>s, <2>1, <2>5, Apart
    <3> QED  BY <1>l, <2>1, <2>2, <2>5, <3>1, SMT
  <2> QED  BY <1>0, <1>l, <1>w, <2>1, <2>2, <2>3, <2>4, <2>5, SMT DEF LeftInv
\* A descriptor is freed by thread t, and its file is to be released.
<1>c. ASSUME NEW f \in Fds, fdtab[f] # NONE, fdtab' = [fdtab EXCEPT ![f] = NONE],
             UNCHANGED <<fresh, file_to_pid_fd, pid_fd_to_sock, conn_info_map>>,
             thr[t].at \notin Released, thr'[t].at \in Released,
             thr'[t].fd = f, thr'[t].sock = fdtab[f]
      PROVE  LeftInv'
  <2>1. fdtab'[f] = NONE /\ \A g \in Fds : g # f => fdtab'[g] = fdtab[g]
    BY <1>c DEF TypeInv
  <2>2. file_to_pid_fd[fdtab[f]] = f /\ fdtab[f] \notin fresh /\ \A g \in Fds : g # f => fdtab[g] # fdtab[f]
    BY <1>c, <1>l
  <2>3. ASSUME NEW u \in Threads, thr'[u].at \in Released
        PROVE  /\ thr'[u].sock \notin fresh' /\ file_to_pid_fd'[thr'[u].sock] \in {NONE, thr'[u].fd}
               /\ \A g \in Fds : fdtab'[g] # thr'[u].sock
    <3>1. CASE u = t
      <4>1. fdtab[f] # NONE /\ \A g \in Fds : fdtab'[g] # fdtab[f]
        BY <1>c, <2>1, <2>2
      <4> QED  BY <1>c, <2>2, <3>1, <4>1, SMT
    <3>2. CASE u # t
      <4>1. thr'[u] = thr[u] /\ thr[u].sock # NONE
        BY <1>0, <1>r, <1>s, <2>3, <3>2, Apart
      <4> QED  BY <1>c, <1>l, <2>1, <2>3, <4>1, SMT
    <3> QED  BY <3>1, <3>2
  <2>4. ASSUME NEW g \in Fds, fdtab'[g] = NONE, conn_info_map'[g] # NONE \/ pid_fd_to_sock'[g] # NONE
        PROVE  \E u \in Threads : thr'[u].at \in Released /\ thr'[u].fd = g /\ file_to_pid_fd'[thr'[u].sock] = g
    <3>1. CASE g = f
      BY <1>c, <2>2, <3>1, SMT
    <3>2. CASE g # f
      <4>1. PICK u \in Threads : thr[u].at \in Released /\ thr[u].fd = g /\ file_to_pid_fd[thr[u].sock] = g
        BY <1>c, <1>w, <2>1, <2>4, <3>2
      <4>2. thr'[u] = thr[u]
        BY <1>c, <1>r, <4>1
      <4> QED  BY <1>c, <4>1, <4>2, SMT
    <3> QED  BY <3>1, <3>2
  <2>5. \A g \in Fds : fdtab'[g] # NONE => file_to_pid_fd'[fdtab'[g]] = g /\ fdtab'[g] \notin fresh'
    BY <1>c, <1>l, <2>1, SMT
  <2> QED  BY <2>3, <2>4, <2>5 DEF LeftInv
<1>10. ASSUME NEW f \in Fds, BeginClose(t, f) PROVE LeftInv'
  <2>1. CASE thr'[t].at = "close" /\ UNCHANGED fdtab
    <3>1. /\ UNCHANGED <<fdtab, fresh, file_to_pid_fd, pid_fd_to_sock, conn_info_map>>
          /\ thr[t].at \notin Released /\ thr'[t].at \notin Released
      BY <1>10, <2>1 DEF BeginClose, Rest, Released
    <3>2. \A u \in Threads : thr[u].at \in Released \/ thr'[u].at \in Released => u # t /\ thr'[u] = thr[u]
      BY <1>r, <3>1
    <3> QED  BY <1>l, <1>w, <3>1, <3>2, SMT DEF LeftInv
  <2>2. CASE thr'[t].at = "fput" /\ fdtab' = [fdtab EXCEPT ![f] = NONE]
    BY <1>10, <1>c, <2>2 DEF BeginClose, Closable, Rest, Released
  <2> QED  BY <1>10, <2>1, <2>2 DEF BeginClose
<1>11. CASE Free(t)
  <2>1. thr[t].fd \in Fds /\ fdtab[thr[t].fd] = thr[t].sock /\ thr[t].sock \in Socks
    BY <1>11 DEF Free, CallsInv, CallOf, Closing
  <2> QED  BY <1>0, <1>11, <1>c, <2>1, Apart DEF Free, Rest, Same, Released
\* The threads whose files are to be released.
<1>12. CASE Release(t)
  <2>1. thr[t].at \in Released /\ UNCHANGED <<fdtab, fresh>>
    BY <1>12 DEF Release, Released
  <2>2. thr[t].fd \in Fds /\ thr[t].sock \in Socks
    BY <1>s, <2>1, Apart
  <2>3. thr'[t].at \in Released => thr'[t].fd = thr[t].fd /\ thr'[t].sock = thr[t].sock
    BY <1>12 DEF Release, Released, Home, Same
  <2>4. CASE /\ file_to_pid_fd[thr[t].sock] = NONE
             /\ UNCHANGED <<file_to_pid_fd, pid_fd_to_sock, conn_info_map>>
    <3>1. \A u \in Threads : file_to_pid_fd[thr[u].sock] \in Fds => u # t /\ thr'[u] = thr[u]
      BY <1>0, <1>r, <2>4
    <3>2. ASSUME NEW u \in Threads, thr'[u].at \in Released
          PROVE  thr[u].at \in Released /\ thr'[u].fd = thr[u].fd /\ thr'[u].sock = thr[u].sock
      BY <1>r, <2>1, <2>3, <3>2
    <3> QED  BY <1>l, <1>w, <2>1, <2>4, <3>1, <3>2, SMT DEF LeftInv
  <2>5. CASE /\ file_to_pid_fd[thr[t].sock] \in Fds
             /\ Closes(t, file_to_pid_fd[thr[t].sock])
             /\ ForgetFile(thr[t].sock, file_to_pid_fd[thr[t].sock])
    <3>1. file_to_pid_fd[thr[t].sock] = thr[t].fd
      BY <1>0, <1>l, <2>1, <2>5
    <3>2. /\ conn_info_map'[thr[t].fd] = NONE /\ pid_fd_to_sock'[thr[t].fd] = NONE
          /\ file_to_pid_fd'[thr[t].sock] = NONE
          /\ \A g \in Fds : g # thr[t].fd =>
               conn_info_map'[g] = conn_info_map[g] /\ pid_fd_to_sock'[g] = pid_fd_to_sock[g]
          /\ \A x \in Socks : x # thr[t].sock => file_to_pid_fd'[x] = file_to_pid_fd[x]
      BY <2>2, <2>5, <3>1, ClosesMap, ZenonT(30) DEF ForgetFile, TypeInv
    <3>3. \A g \in Fds : fdtab[g] # NONE => file_to_pid_fd'[fdtab[g]] = g
      BY <1>l, <2>1, <2>2, <3>2, SMT DEF TypeInv
    <3>4. ASSUME NEW u \in Threads, thr'[u].at \in Released
          PROVE  /\ thr'[u].sock \notin fresh' /\ file_to_pid_fd'[thr'[u].sock] \in {NONE, thr'[u].fd}
                 /\ \A g \in Fds : fdtab'[g] # thr'[u].sock
      <4>1. thr[u].at \in Released /\ thr'[u].fd = thr[u].fd /\ thr'[u].sock = thr[u].sock
        BY <1>r, <2>1, <2>3, <3>4
      <4>2. thr[u].sock \in Socks
        BY <1>s, <4>1, Apart
      <4> QED  BY <1>l, <2>1, <3>2, <4>1, <4>2, SMT
    <3>5. ASSUME NEW g \in Fds, fdtab'[g] = NONE, conn_info_map'[g] # NONE \/ pid_fd_to_sock'[g] # NONE
          PROVE  \E u \in Threads : thr'[u].at \in Released /\ thr'[u].fd = g /\ file_to_pid_fd'[thr'[u].sock] = g
      <4>1. g # thr[t].fd
        BY <3>2, <3>5
      <4>2. PICK u \in Threads : thr[u].at \in Released /\ thr[u].fd = g /\ file_to_pid_fd[thr[u].sock] = g
        BY <1>w, <2>1, <3>2, <3>5, <4>1
      <4>3. thr'[u] = thr[u] /\ thr[u].sock # thr[t].sock /\ thr[u].sock \in Socks
        BY <1>r, <1>s, <3>1, <4>1, <4>2, Apart
      <4> QED  BY <3>2, <4>2, <4>3, SMT
    <3> QED  BY <1>l, <2>1, <3>3, <3>4, <3>5, SMT DEF LeftInv
  <2> QED  BY <1>12, <2>4, <2>5 DEF Release
<1>13. CASE Exit(t)
  <2>1. thr[t].at \in Released /\ UNCHANGED <<fdtab, fresh, file_to_pid_fd, pid_fd_to_sock>>
    BY <1>13 DEF Exit, Released
  <2>2. thr[t].fd \in Fds
    BY <1>s, <2>1, Apart
  <2>3. /\ thr'[t].at \in Released => thr'[t].fd = thr[t].fd /\ thr'[t].sock = thr[t].sock
        /\ thr'[t].at \notin Released => file_to_pid_fd[thr[t].sock] = NONE
    BY <1>13 DEF Exit, Released, Home
  <2>4. \A g \in Fds : conn_info_map'[g] = conn_info_map[g] \/ conn_info_map'[g] = NONE
    BY <1>13, <2>2, ClosesMap DEF Exit
  <2>5. ASSUME NEW u \in Threads, thr'[u].at \in Released
        PROVE  thr[u].at \in Released /\ thr'[u].fd = thr[u].fd /\ thr'[u].sock = thr[u].sock
    BY <1>r, <2>1, <2>3, <2>5
  <2>6. ASSUME NEW u \in Threads, thr[u].at \in Released, file_to_pid_fd[thr[u].sock] \in Fds
        PROVE  thr'[u].at \in Released /\ thr'[u].fd = thr[u].fd /\ thr'[u].sock = thr[u].sock
    BY <1>0, <1>r, <2>3, <2>6
  <2>7. ASSUME NEW g \in Fds, fdtab'[g] = NONE, conn_info_map'[g] # NONE \/ pid_fd_to_sock'[g] # NONE
        PROVE  \E u \in Threads : thr'[u].at \in Released /\ thr'[u].fd = g /\ file_to_pid_fd'[thr'[u].sock] = g
    <3>1. PICK u \in Threads : thr[u].at \in Released /\ thr[u].fd = g /\ file_to_pid_fd[thr[u].sock] = g
      BY <1>w, <2>1, <2>4, <2>7, SMT
    <3> QED  BY <2>1, <2>6, <3>1, SMT
  <2> QED  BY <1>l, <2>1, <2>5, <2>7, SMT DEF LeftInv
<1> QED  BY <1>1, <1>2, <1>3, <1>4, <1>5, <1>6, <1>7, <1>8, <1>9, <1>10, <1>11, <1>12, <1>13 DEF Step

LEMMA ArgsFrame ==
    ASSUME ArgsInv, NEW t \in Threads, Only(t),
           \A f \in Fds : addr_args'[f] => AddrBy(t, f)' \/ (addr_args[f] /\ ~AddrBy(t, f)),
           \A f \in Fds : close_args'[f] => CloseBy(t, f)' \/ (close_args[f] /\ ~CloseBy(t, f)),
           \A d \in {"in", "out"}, f \in Fds :
             io_args'[d][f] # NONE => IoBy(t, d, f)' \/ (io_args[d][f] # NONE /\ ~IoBy(t, d, f))
    PROVE  ArgsInv'
<1>1. ASSUME NEW f \in Fds, addr_args'[f] PROVE \E u \in Threads : AddrBy(u, f)'
  <2>1. CASE addr_args[f] /\ ~AddrBy(t, f)
    <3>1. PICK u \in Threads : AddrBy(u, f)
      BY <2>1 DEF ArgsInv
    <3>2. thr'[u] = thr[u]
      BY <2>1, <3>1 DEF Only
    <3> QED  BY <3>1, <3>2 DEF AddrBy
  <2> QED  BY <1>1, <2>1
<1>2. ASSUME NEW f \in Fds, close_args'[f] PROVE \E u \in Threads : CloseBy(u, f)'
  <2>1. CASE close_args[f] /\ ~CloseBy(t, f)
    <3>1. PICK u \in Threads : CloseBy(u, f)
      BY <2>1 DEF ArgsInv
    <3>2. thr'[u] = thr[u]
      BY <2>1, <3>1 DEF Only
    <3> QED  BY <3>1, <3>2 DEF CloseBy
  <2> QED  BY <1>2, <2>1
<1>3. ASSUME NEW d \in {"in", "out"}, NEW f \in Fds, io_args'[d][f] # NONE PROVE \E u \in Threads : IoBy(u, d, f)'
  <2>1. CASE io_args[d][f] # NONE /\ ~IoBy(t, d, f)
    <3>1. PICK u \in Threads : IoBy(u, d, f)
      BY <2>1 DEF ArgsInv
    <3>2. thr'[u] = thr[u]
      BY <2>1, <3>1 DEF Only
    <3> QED  BY <3>1, <3>2 DEF IoBy
  <2> QED  BY <1>3, <2>1
<1> QED  BY <1>1, <1>2, <1>3 DEF ArgsInv

LEMMA ArgsStep ==
    ASSUME TypeInv, TypeInv', CallsInv, ArgsInv, NEW t \in Threads, Step(t)
    PROVE  ArgsInv'
<1>0. NONE \notin Fds /\ Only(t)
  BY SocketAssumption, StepFrame
<1>a. CallOf(t)
  BY DEF CallsInv
\* Which arguments are t's, by where t is.
<1>b. /\ thr[t].at \notin {"tcp_connect", "ret_addr"} => \A f \in Fds : ~AddrBy(t, f)
      /\ thr[t].at \notin Closing => \A f \in Fds : ~CloseBy(t, f)
      /\ thr[t].at \notin Using => \A d \in {"in", "out"}, f \in Fds : ~IoBy(t, d, f)
      /\ thr[t].op \notin IoCalls => \A d \in {"in", "out"}, f \in Fds : ~IoBy(t, d, f)
      /\ thr[t].op # "connect" => \A f \in Fds : ~AddrBy(t, f)
      /\ thr[t].op # "close" => \A f \in Fds : ~CloseBy(t, f)
  BY DEF AddrBy, CloseBy, IoBy
<1>c. thr[t].op \in IoCalls => thr[t].op \notin AddrCalls /\ thr[t].op # "connect"
  BY DEF IoCalls, ReadCalls, WriteCalls, AddrCalls, Accepts
\* The call goes on, with its arguments in place.
<1>s. ASSUME Same(t), UNCHANGED <<addr_args, io_args, close_args>>, thr[t].at \in Using, thr'[t].at \in Using,
             thr[t].at \in {"tcp_connect", "ret_addr"} /\ thr[t].op = "connect" => thr'[t].at = "ret_addr"
      PROVE  ArgsInv'
  <2>1. \A f \in Fds : AddrBy(t, f) => AddrBy(t, f)'
    BY <1>s DEF AddrBy, Same
  <2>2. \A f \in Fds : ~CloseBy(t, f)
    BY <1>s, <1>b, Apart
  <2>3. \A d \in {"in", "out"}, f \in Fds : IoBy(t, d, f) => IoBy(t, d, f)'
    BY <1>s DEF IoBy, Same
  <2> QED  BY <1>0, <1>s, <2>1, <2>2, <2>3, ArgsFrame
\* A call that has no arguments in the maps.
<1>n. ASSUME thr[t].at \notin Using \cup Closing, io_args' = io_args, close_args' = close_args,
             \A f \in Fds : addr_args'[f] => addr_args[f]
      PROVE  ArgsInv'
  <2>1. thr[t].at \notin {"tcp_connect", "ret_addr"}
    BY <1>n DEF Using
  <2> QED  BY <1>0, <1>b, <1>n, <2>1, ArgsFrame
<1>1. CASE Arrive(t)
  <2>1. thr[t].at \notin Using /\ thr[t].at \notin Closing /\ thr[t].at \notin {"tcp_connect", "ret_addr"}
    BY <1>1, Apart DEF Arrive
  <2>2. ASSUME NEW f \in Fds, addr_args'[f] PROVE AddrBy(t, f)' \/ addr_args[f]
    <3>1. addr_args[f] \/ (f = thr'[t].fd /\ thr'[t].at = "tcp_connect")
      BY <1>1, <2>2 DEF Arrive
    <3>2. thr'[t].at = "tcp_connect" => thr'[t].op = "connect"
      BY <1>1 DEF Arrive
    <3> QED  BY <3>1, <3>2 DEF AddrBy
  <2>3. ASSUME NEW d \in {"in", "out"}, NEW f \in Fds, io_args'[d][f] # NONE
        PROVE  IoBy(t, d, f)' \/ io_args[d][f] # NONE
    <3>1. io_args[d][f] # NONE \/ (f = thr'[t].fd /\ thr'[t].at = "io" /\ d = Dir(thr'[t].op))
      BY <1>1, <2>3 DEF Arrive
    <3>2. thr'[t].at = "io" => thr'[t].op \in IoCalls /\ thr'[t].at \in Using
      BY <1>1 DEF Arrive, Using
    <3> QED  BY <3>1, <3>2 DEF IoBy, Dir
  <2>4. close_args' = close_args
    BY <1>1 DEF Arrive, Quiet
  <2> QED  BY <1>0, <1>b, <2>1, <2>2, <2>3, <2>4, ArgsFrame
<1>2. CASE Advance(t)
  <2>1. /\ Same(t) /\ UNCHANGED <<addr_args, io_args, close_args>> /\ thr[t].at \in Using /\ thr'[t].at \in Using
        /\ thr'[t].at # "ret_addr" => thr[t].op \in IoCalls
    BY <1>2 DEF Advance, Quiet
  <2> QED  BY <1>c, <1>s, <2>1
<1>3. CASE Leave(t)
  <2>1. /\ \A f \in Fds : addr_args'[f] => addr_args[f] /\ ~AddrBy(t, f)
        /\ \A f \in Fds : ~CloseBy(t, f)
    <3>1. thr[t].at \notin Closing /\ thr[t].at # "tcp_connect"
      BY <1>3, Apart DEF Leave
    <3> QED  BY <1>3, <1>b, <3>1 DEF Leave, AddrBy
  <2>2. \A d \in {"in", "out"}, f \in Fds : io_args'[d][f] # NONE => io_args[d][f] # NONE /\ ~IoBy(t, d, f)
    BY <1>3 DEF Leave, IoBy
  <2>3. close_args' = close_args
    BY <1>3 DEF Leave, Quiet
  <2> QED  BY <1>0, <2>1, <2>2, <2>3, ArgsFrame
<1>4. CASE GoAccept(t)
  BY <1>4, <1>n, Apart DEF GoAccept, Quiet
<1>5. ASSUME NEW f \in Fds, NEW s \in Socks, Install(t, f, s) PROVE ArgsInv'
  BY <1>5, <1>n, Apart DEF Install
<1>6. ASSUME NEW e \in Elems, Insert(t, e) PROVE ArgsInv'
  <2>1. thr[t].at = "ret_addr" /\ thr[t].op \in AddrCalls /\ thr[t].op \notin IoCalls
    BY <1>6, <1>a, <1>c DEF Insert, CallOf
  <2>2. \A f \in Fds : addr_args'[f] => addr_args[f] /\ ~AddrBy(t, f)
    BY <1>6 DEF Insert, AddrBy
  <2>3. thr[t].at \notin Closing /\ close_args' = close_args /\ io_args' = io_args
    BY <1>6 DEF Insert, Closing, Released
  <2> QED  BY <1>0, <1>b, <2>1, <2>2, <2>3, ArgsFrame
<1>7. CASE Reserve(t)
  BY <1>7, <1>s DEF Reserve, Quiet, Using, Holding, Opening
<1>8. ASSUME thr[t].at \in Opening, End(t), UNCHANGED <<addr_args, io_args, close_args>> PROVE ArgsInv'
  <2>1. thr[t].at \in Using /\ thr[t].at \notin {"tcp_connect", "ret_addr"} /\ thr[t].at \notin Closing
    BY <1>8 DEF Using, Holding, Opening, Closing, Released
  <2>2. CASE thr[t].op \in AddrCalls
    BY <1>0, <1>8, <1>b, <1>c, <2>1, <2>2, ArgsFrame
  <2>3. CASE Same(t) /\ thr'[t].at = "tls"
    BY <1>8, <1>s, <2>1, <2>3 DEF Using, Holding
  <2> QED  BY <1>8, <2>2, <2>3 DEF End
<1>9. CASE Mark(t)
  BY <1>8, <1>9 DEF Mark, Quiet, Opening
<1>10. ASSUME NEW c, Submit(t, c) PROVE ArgsInv'
  <2>1. CASE End(t)
    BY <1>8, <1>10, <2>1 DEF Submit, Quiet, Opening
  <2>2. CASE thr'[t].at = "mark" /\ Same(t)
    BY <1>10, <1>s, <2>2 DEF Submit, Quiet, Using, Holding, Opening
  <2> QED  BY <1>10, <2>1, <2>2 DEF Submit
<1>11. ASSUME NEW f \in Fds, BeginClose(t, f) PROVE ArgsInv'
  <2>1. thr[t].at \notin Using \cup Closing /\ UNCHANGED <<addr_args, io_args>>
    BY <1>11, Apart DEF BeginClose, Rest
  <2>2. CASE thr'[t].at = "close" /\ thr'[t].op = "close" /\ close_args' = [close_args EXCEPT ![f] = TRUE]
    <3>1. CloseBy(t, f)'
      BY <1>11, <2>2 DEF CloseBy, BeginClose, Closing
    <3>2. \A g \in Fds : g # f => close_args'[g] = close_args[g]
      BY <2>2 DEF TypeInv
    <3>3. thr[t].at \notin {"tcp_connect", "ret_addr"} /\ thr[t].at \notin Using /\ thr[t].at \notin Closing
      BY <2>1 DEF Using
    <3>4. \A g \in Fds : close_args'[g] => CloseBy(t, g)' \/ (close_args[g] /\ ~CloseBy(t, g))
      BY <1>b, <3>1, <3>2, <3>3
    <3> QED  BY <1>0, <1>b, <2>1, <3>3, <3>4, ArgsFrame
  <2>3. CASE UNCHANGED close_args
    BY <1>n, <2>1, <2>3
  <2> QED  BY <1>11, <2>2, <2>3 DEF BeginClose
\* A close goes on; nothing else of t's is in the maps.
<1>d. thr[t].at \in Closing => /\ thr[t].at \notin Using /\ thr[t].at \notin {"tcp_connect", "ret_addr"}
                               /\ thr[t].fd \in Fds
  BY <1>a, Apart DEF CallOf, Using
<1>12. CASE Free(t)
  <2>1. thr[t].at \in Closing /\ thr'[t].at \in Closing
    BY <1>12, Apart DEF Free, Closing
  <2>2. \A f \in Fds : CloseBy(t, f) => CloseBy(t, f)'
    BY <1>12, <2>1 DEF Free, Same, CloseBy
  <2> QED  BY <1>0, <1>12, <1>b, <1>d, <2>1, <2>2, ArgsFrame DEF Free, Rest
<1>13. CASE Release(t)
  <2>1. thr[t].at \in Closing /\ UNCHANGED <<addr_args, io_args, close_args>>
    BY <1>13 DEF Release, Closing, Released
  <2>2. \A f \in Fds : CloseBy(t, f) => CloseBy(t, f)'
    BY <1>13 DEF Release, Same, CloseBy, Closing, Released
  <2> QED  BY <1>0, <1>b, <1>d, <2>1, <2>2, ArgsFrame
<1>14. CASE Exit(t)
  <2>1. thr[t].at \in Closing /\ UNCHANGED <<addr_args, io_args>>
    BY <1>14 DEF Exit, Closing, Released
  <2>2. \A f \in Fds : close_args'[f] => close_args[f] /\ f # thr[t].fd
    BY <1>14, <1>d, <2>1 DEF Exit, TypeInv
  <2>3. \A f \in Fds : close_args'[f] => close_args[f] /\ ~CloseBy(t, f)
    BY <2>2 DEF CloseBy
  <2> QED  BY <1>0, <1>b, <1>d, <2>1, <2>3, ArgsFrame
<1> QED  BY <1>1, <1>2, <1>3, <1>4, <1>5, <1>6, <1>7, <1>9, <1>10, <1>11, <1>12, <1>13, <1>14 DEF Step

-----------------------------------------------------------------------------
\* One thread opens and closes

LEMMA OpenerStep ==
    ASSUME TypeInv, CallsInv, OpenerInv, NEW t \in Threads, Step(t)
    PROVE  OpenerInv'
<1>0. Only(t) /\ scope' = scope
  BY StepFrame
<1>1. \A u \in Threads : Opener(u)' <=> Opener(u)
  BY <1>0 DEF Opener
<1>n. "none" \notin Accepts \cup {"close", "drop"} /\ "connect" \notin Accepts \cup {"close", "drop"}
      /\ \A op \in IoCalls : op \notin Accepts \cup {"close", "drop"}
  BY DEF Accepts, IoCalls, ReadCalls, WriteCalls
<1>2. thr'[t].op \in Accepts \cup {"close", "drop"} => Opener(t)
  <2>0. thr'[t].op = thr[t].op => (thr'[t].op \in Accepts \cup {"close", "drop"} => Opener(t))
    BY DEF OpenerInv
  <2>1. Home(t) => thr'[t].op \notin Accepts \cup {"close", "drop"}
    BY <1>n DEF Home
  <2>2. Arrive(t) => thr'[t].op \notin Accepts \cup {"close", "drop"}
    BY <1>n DEF Arrive
  <2>3. GoAccept(t) => Opener(t)
    BY DEF GoAccept
  <2>4. Advance(t) \/ Leave(t) \/ Reserve(t) \/ Mark(t) \/ Free(t) \/ Release(t) =>
          Home(t) \/ thr'[t].op = thr[t].op
    BY DEF Advance, Leave, Reserve, Mark, End, Free, Release, Same
  <2>5. ASSUME NEW f \in Fds, NEW s \in Socks, Install(t, f, s) PROVE Home(t) \/ thr'[t].op = thr[t].op
    BY <2>5 DEF Install
  <2>6. ASSUME NEW e \in Elems, Insert(t, e) PROVE thr'[t].op = thr[t].op
    BY <2>6 DEF Insert, Same
  <2>7. ASSUME NEW c \in Socks \cup {NONE}, Submit(t, c) PROVE Home(t) \/ thr'[t].op = thr[t].op
    BY <2>7 DEF Submit, End, Same
  <2>8. ASSUME NEW f \in Fds, BeginClose(t, f) PROVE Opener(t)
    BY <2>8 DEF BeginClose
  <2>9. Exit(t) => Opener(t)
    BY DEF Exit, CallsInv, CallOf, Closing, Released, OpenerInv
  <2> QED  BY <2>0, <2>1, <2>2, <2>3, <2>4, <2>5, <2>6, <2>7, <2>8, <2>9 DEF Step
<1> QED  BY <1>0, <1>1, <1>2 DEF OpenerInv, Only

LEMMA OneThread ==
    ASSUME OneOpener, NEW t \in Threads, NEW u \in Threads, Opener(t), Opener(u)
    PROVE  t = u
BY SMT DEF OneOpener, Opener

LEMMA OneCloser ==
    ASSUME CallsInv, OpenerInv, OneOpener, NEW t \in Threads, NEW u \in Threads,
           thr[t].at \in Closing, Opener(u) \/ thr[u].at \in Closing
    PROVE  t = u
<1>1. \A v \in Threads : thr[v].at \in Closing => Opener(v)
  BY DEF CallsInv, CallOf, OpenerInv
<1> QED  BY <1>1, OneThread

\* The steps that leave descriptors, files and the map alone.
Calm(t) == Quiet /\ thr[t].at \notin Closing /\ thr'[t].at \notin Closing

LEMMA CalmSteps ==
    ASSUME NEW t \in Threads, Step(t)
    PROVE  \/ Calm(t) /\ \/ Arrive(t) \/ Advance(t) \/ Leave(t) \/ GoAccept(t) \/ Reserve(t) \/ Mark(t)
                         \/ \E c \in Socks \cup {NONE} : Submit(t, c)
           \/ \E f \in Fds, s \in Socks : Install(t, f, s)
           \/ \E e \in Elems : Insert(t, e)
           \/ \E f \in Fds : BeginClose(t, f)
           \/ Free(t) \/ Release(t) \/ Exit(t)
<1>1. Arrive(t) => Calm(t)
  BY DEF Calm, Arrive, Closing, Released
<1>2. Advance(t) => Calm(t)
  BY Apart DEF Calm, Advance
<1>3. Leave(t) => Calm(t)
  BY Apart DEF Calm, Leave, Home
<1>4. GoAccept(t) \/ Reserve(t) => Calm(t)
  BY DEF Calm, GoAccept, Reserve, Closing, Released
<1>5. Mark(t) => Calm(t)
  BY DEF Calm, Mark, End, Home, Closing, Released
<1>6. ASSUME NEW c \in Socks \cup {NONE}, Submit(t, c) PROVE Calm(t)
  BY <1>6 DEF Calm, Submit, End, Home, Closing, Released
<1> QED  BY <1>1, <1>2, <1>3, <1>4, <1>5, <1>6 DEF Step

\* Where a thread that holds a connection has it from.
LEMMA HoldsNext ==
    ASSUME TypeInv, CallsInv, HeldInv, NEW t \in Threads, Step(t), thr'[t].at \in Holding
    PROVE  /\ Same(t) /\ thr[t].at \in Using
           /\ \/ thr[t].at \in Holding /\ thr'[t].elem = thr[t].elem
              \/ /\ Advance(t) /\ thr[t].op \in IoCalls
                 /\ thr'[t].elem \in Elems /\ thr'[t].elem = conn_info_map[thr[t].fd]
              \/ Insert(t, thr'[t].elem)
<1>1. ASSUME Advance(t)
      PROVE  /\ Same(t) /\ thr[t].at \in Using
             /\ \/ thr[t].at \in Holding /\ thr'[t].elem = thr[t].elem
                \/ /\ Advance(t) /\ thr[t].op \in IoCalls
                   /\ thr'[t].elem \in Elems /\ thr'[t].elem = conn_info_map[thr[t].fd]
  BY <1>1, Apart DEF Advance
<1>h. ~Home(t)
  BY Apart DEF Home
<1>2. ~Arrive(t) /\ ~Leave(t) /\ ~GoAccept(t)
  BY <1>h DEF Arrive, Leave, GoAccept, Holding, Opening, Processing
<1>3. \A f \in Fds, s \in Socks : ~Install(t, f, s)
  BY <1>h, Apart DEF Install, Holding, Opening, Processing
<1>4. ASSUME NEW e \in Elems, Insert(t, e) PROVE Same(t) /\ thr[t].at \in Using /\ e = thr'[t].elem
  BY <1>4 DEF Insert, Using
<1>5. Reserve(t) => Same(t) /\ thr[t].at \in Holding /\ thr'[t].elem = thr[t].elem
  BY DEF Reserve, Holding, Opening
<1>6. End(t) => Same(t) /\ thr'[t].elem = thr[t].elem
  BY <1>h DEF End
<1>7. Mark(t) => Same(t) /\ thr[t].at \in Holding /\ thr'[t].elem = thr[t].elem
  BY <1>6 DEF Mark, Holding, Opening
<1>8. ASSUME NEW c \in Socks \cup {NONE}, Submit(t, c)
      PROVE  Same(t) /\ thr[t].at \in Holding /\ thr'[t].elem = thr[t].elem
  BY <1>6, <1>8 DEF Submit, Holding, Opening
<1>9. \A f \in Fds : ~BeginClose(t, f)
  BY DEF BeginClose, Holding, Opening, Processing
<1>10. ~Free(t) /\ ~Release(t) /\ ~Exit(t)
  BY <1>h DEF Free, Release, Exit, Released, Holding, Opening, Processing
<1> QED  BY <1>1, <1>2, <1>3, <1>4, <1>5, <1>7, <1>8, <1>9, <1>10, Apart DEF Step

\* The map changes where a connection is inserted or a descriptor is closed.
LEMMA MapStep ==
    ASSUME TypeInv, CallsInv, LeftInv, NEW t \in Threads, Step(t), NEW f \in Fds
    PROVE  \/ conn_info_map'[f] = conn_info_map[f]
           \/ conn_info_map'[f] = NONE /\ thr[t].at \in Released /\ f = thr[t].fd
           \/ f = thr[t].fd /\ conn_info_map'[f] \in Elems /\ Insert(t, conn_info_map'[f])
<1>0. NONE \notin Fds
  BY SocketAssumption
<1>1. Calm(t) => conn_info_map' = conn_info_map
  BY DEF Calm, Quiet
<1>2. ASSUME NEW g \in Fds, NEW s \in Socks, Install(t, g, s) PROVE conn_info_map' = conn_info_map
  BY <1>2 DEF Install
<1>3. ASSUME NEW g \in Fds, BeginClose(t, g) PROVE conn_info_map' = conn_info_map
  BY <1>3 DEF BeginClose, Rest
<1>4. Free(t) => conn_info_map' = conn_info_map
  BY DEF Free, Rest
<1>5. ASSUME NEW e \in Elems, Insert(t, e)
      PROVE  conn_info_map'[f] = conn_info_map[f] \/ (f = thr[t].fd /\ conn_info_map'[f] = e)
  BY <1>5 DEF Insert, TypeInv
<1>6. CASE Release(t)
  <2>1. thr[t].at \in Released
    BY <1>6 DEF Release, Released
  <2>2. file_to_pid_fd[thr[t].sock] \in {NONE, thr[t].fd}
    BY <2>1 DEF LeftInv
  <2> QED  BY <1>0, <1>6, <2>1, <2>2, ClosesMap DEF Release
<1>7. CASE Exit(t)
  <2>1. thr[t].at \in Released
    BY <1>7 DEF Exit, Released
  <2>2. thr[t].fd \in Fds
    BY <2>1, Apart DEF CallsInv, CallOf
  <2> QED  BY <1>7, <2>1, <2>2, ClosesMap DEF Exit
<1> QED  BY <1>1, <1>2, <1>3, <1>4, <1>5, <1>6, <1>7, CalmSteps

\* No descriptor is handed out while one is being closed.
LEMMA NobodyCloses ==
    ASSUME TypeInv, CallsInv, LeftInv, OpenerInv, OneOpener, NEW t \in Threads, NEW f \in Fds, NEW s \in Socks,
           Install(t, f, s)
    PROVE  /\ Opener(t) /\ \A u \in Threads : thr[u].at \notin Closing
           /\ conn_info_map[f] = NONE
<1>1. Opener(t) /\ thr[t].at \notin Closing
  BY DEF Install, CallsInv, CallOf, OpenerInv, Closing, Released
<1>2. \A u \in Threads : thr[u].at \notin Closing
  BY <1>1, OneCloser
<1>3. fdtab[f] = NONE
  BY DEF Install, fd_install
<1>4. \A u \in Threads : thr[u].at \notin Released
  BY <1>2, Apart
<1> QED  BY <1>1, <1>2, <1>3, <1>4, SMT DEF LeftInv

\* A file that is released already has left nothing.
LEMMA NothingToClose ==
    ASSUME TypeInv, CallsInv, LeftInv, OpenerInv, OneOpener, FreedInv, NEW t \in Threads, thr[t].at \in Released,
           file_to_pid_fd[thr[t].sock] = NONE
    PROVE  conn_info_map[thr[t].fd] = NONE
<1>1. thr[t].fd \in Fds /\ NONE \notin Fds
  BY SocketAssumption, Apart DEF CallsInv, CallOf
<1>2. fdtab[thr[t].fd] = NONE
  BY DEF FreedInv
<1>3. \A u \in Threads : thr[u].at \in Released => u = t
  BY OneCloser, Apart
<1> QED  BY <1>1, <1>2, <1>3, SMT DEF LeftInv

LEMMA FreedStep ==
    ASSUME TypeInv, CallsInv, LeftInv, OpenerInv, OneOpener, FreedInv, NEW t \in Threads, Step(t)
    PROVE  FreedInv'
<1>0. \A u \in Threads : u # t => thr'[u] = thr[u]
  BY StepFrame DEF Only
<1>c. \A u \in Threads : thr[u].at \in Closing => thr[u].fd \in Fds
  BY DEF CallsInv, CallOf
<1>n. NONE \notin Socks
  BY SocketAssumption
<1>1. CASE Calm(t)
  <2>1. \A u \in Threads : thr'[u].at \in Released => u # t
    BY <1>1, Apart DEF Calm
  <2> QED  BY <1>0, <1>1, <2>1 DEF Calm, Quiet, FreedInv
<1>2. ASSUME NEW f \in Fds, NEW s \in Socks, Install(t, f, s) PROVE FreedInv'
  <2>1. \A u \in Threads : thr[u].at \notin Released
    BY <1>2, NobodyCloses, Apart
  <2>2. thr'[t].at \notin Released
    BY <1>2 DEF Install, Home, Released
  <2>3. \A u \in Threads : thr'[u].at \notin Released
    BY <1>0, <2>1, <2>2
  <2>4. /\ fdtab' = [fdtab EXCEPT ![f] = s]
        /\ pid_fd_to_sock' = [pid_fd_to_sock EXCEPT ![f] = s]
    BY <1>2 DEF Install, fd_install
  <2>5. \A g \in Fds : fdtab'[g] # NONE => pid_fd_to_sock'[g] = fdtab'[g]
    BY <2>4, SMT DEF TypeInv, FreedInv
  <2> QED  BY <2>3, <2>5 DEF FreedInv
<1>3. ASSUME NEW e \in Elems, Insert(t, e) PROVE FreedInv'
  <2>1. thr'[t].at \notin Released /\ UNCHANGED <<fdtab, pid_fd_to_sock>>
    BY <1>3 DEF Insert, Released
  <2>2. \A u \in Threads : thr'[u].at \in Released => u # t
    BY <2>1
  <2> QED  BY <1>0, <2>1, <2>2 DEF FreedInv
\* The descriptor of the only closing thread is freed.
<1>f. ASSUME NEW f \in Fds, \A u \in Threads : u # t => thr[u].at \notin Closing,
             \/ fdtab' = [fdtab EXCEPT ![f] = NONE] /\ thr'[t].fd = f
             \/ fdtab' = fdtab /\ thr'[t].at \notin Released,
             pid_fd_to_sock' = pid_fd_to_sock
      PROVE  FreedInv'
  <2>1. \A u \in Threads : thr'[u].at \in Released => u = t
    BY <1>0, <1>f, Apart
  <2>2. CASE fdtab' = fdtab /\ thr'[t].at \notin Released
    <3>1. \A u \in Threads : thr'[u].at \notin Released
      BY <2>1, <2>2
    <3> QED  BY <1>f, <2>2, <3>1 DEF FreedInv
  <2>3. CASE fdtab' = [fdtab EXCEPT ![f] = NONE] /\ thr'[t].fd = f
    <3>1. fdtab'[f] = NONE /\ \A g \in Fds : g # f => fdtab'[g] = fdtab[g]
      BY <2>3 DEF TypeInv
    <3>2. \A u \in Threads : thr'[u].at \in Released => fdtab'[thr'[u].fd] = NONE
      BY <2>1, <2>3, <3>1
    <3>3. \A g \in Fds : fdtab'[g] # NONE => pid_fd_to_sock'[g] = fdtab'[g]
      BY <1>f, <3>1 DEF FreedInv
    <3> QED  BY <3>2, <3>3 DEF FreedInv
  <2> QED  BY <1>f, <2>2, <2>3
<1>4. ASSUME NEW f \in Fds, BeginClose(t, f) PROVE FreedInv'
  <2>1. \A u \in Threads : u # t => thr[u].at \notin Closing
    BY <1>4, OneCloser DEF BeginClose
  <2>2. \/ fdtab' = [fdtab EXCEPT ![f] = NONE] /\ thr'[t].fd = f
        \/ fdtab' = fdtab /\ thr'[t].at \notin Released
    BY <1>4 DEF BeginClose, Released
  <2> QED  BY <1>4, <1>f, <2>1, <2>2 DEF BeginClose, Rest
<1>5. CASE Free(t)
  <2>1. thr[t].at \in Closing /\ thr[t].fd \in Fds
    BY <1>5, <1>c DEF Free, Closing
  <2>2. \A u \in Threads : u # t => thr[u].at \notin Closing
    BY <2>1, OneCloser
  <2> QED  BY <1>5, <1>f, <2>1, <2>2 DEF Free, Rest, Same
<1>6. CASE Release(t)
  <2>1. thr[t].at \in Released
    BY <1>6 DEF Release, Released
  <2>2. fdtab[thr[t].fd] = NONE /\ file_to_pid_fd[thr[t].sock] \in {NONE, thr[t].fd} /\ fdtab' = fdtab
    BY <1>6, <2>1 DEF FreedInv, LeftInv, Release
  <2>3. \A f \in Fds : f # thr[t].fd => pid_fd_to_sock'[f] = pid_fd_to_sock[f]
    <3>1. CASE pid_fd_to_sock' = pid_fd_to_sock
      BY <3>1
    <3>2. CASE /\ file_to_pid_fd[thr[t].sock] \in Fds
               /\ pid_fd_to_sock' = [pid_fd_to_sock EXCEPT ![file_to_pid_fd[thr[t].sock]] = NONE]
      <4>1. file_to_pid_fd[thr[t].sock] = thr[t].fd
        BY <2>2, <3>2, SocketAssumption
      <4> QED  BY <3>2, <4>1 DEF TypeInv
    <3> QED  BY <1>6, <3>1, <3>2 DEF Release, ForgetFile
  <2>4. thr'[t].at \in Released => thr'[t].fd = thr[t].fd
    BY <1>6 DEF Release, Home, Same, Released
  <2>5. ASSUME NEW u \in Threads, thr'[u].at \in Released PROVE fdtab'[thr'[u].fd] = NONE
    <3>1. CASE u = t
      BY <2>2, <2>4, <2>5, <3>1
    <3>2. CASE u # t
      BY <1>0, <2>2, <2>5, <3>2 DEF FreedInv
    <3> QED  BY <3>1, <3>2
  <2>6. \A f \in Fds : fdtab'[f] # NONE => pid_fd_to_sock'[f] = fdtab'[f]
    BY <2>2, <2>3 DEF FreedInv
  <2> QED  BY <2>5, <2>6 DEF FreedInv
<1>7. CASE Exit(t)
  <2>1. thr[t].at \in Released /\ UNCHANGED <<fdtab, pid_fd_to_sock>>
    BY <1>7 DEF Exit, Released
  <2>2. thr'[t].at \in Released => thr'[t].fd = thr[t].fd
    BY <1>7 DEF Exit, Home, Released
  <2>3. ASSUME NEW u \in Threads, thr'[u].at \in Released PROVE fdtab'[thr'[u].fd] = NONE
    <3>1. CASE u = t
      BY <2>1, <2>2, <2>3, <3>1 DEF FreedInv
    <3>2. CASE u # t
      BY <1>0, <2>1, <2>3, <3>2 DEF FreedInv
    <3> QED  BY <3>1, <3>2
  <2> QED  BY <2>1, <2>3 DEF FreedInv
<1> QED  BY <1>1, <1>2, <1>3, <1>4, <1>5, <1>6, <1>7, CalmSteps

\* Behind(f, c) in the next state.
BehindNext(f, c) ==
    \/ fdtab'[f] = c
    \/ fdtab'[f] = NONE /\ \E t \in Threads : thr'[t].at \in Released /\ thr'[t].fd = f /\ thr'[t].sock = c

\* What is behind a descriptor stays there while the map has a connection for it.
LEMMA BehindStays ==
    ASSUME TypeInv, CallsInv, LeftInv, OpenerInv, OneOpener, FreedInv, NEW t \in Threads, Step(t),
           NEW f \in Fds, NEW c \in Socks, Behind(f, c), conn_info_map'[f] # NONE
    PROVE  BehindNext(f, c)
<1>0. \A u \in Threads : u # t => thr'[u] = thr[u]
  BY StepFrame DEF Only
<1>n. NONE \notin Socks
  BY SocketAssumption
<1>b. ASSUME fdtab'[f] = c PROVE BehindNext(f, c)
  BY <1>b DEF BehindNext
<1>r. ASSUME NEW u \in Threads, thr'[u].at \in Released, thr'[u].fd = f, thr'[u].sock = c, fdtab'[f] = NONE
      PROVE  BehindNext(f, c)
  BY <1>r DEF BehindNext
<1>1. CASE Calm(t)
  <2>1. fdtab' = fdtab /\ thr[t].at \notin Released
    BY <1>1, Apart DEF Calm, Quiet
  <2>2. CASE fdtab[f] = c
    BY <1>b, <2>1, <2>2
  <2>3. ASSUME NEW u \in Threads, thr[u].at \in Released, thr[u].fd = f, thr[u].sock = c, fdtab[f] = NONE
        PROVE  BehindNext(f, c)
    <3>1. thr'[u] = thr[u]
      BY <1>0, <2>1, <2>3
    <3> QED  BY <1>r, <2>1, <2>3, <3>1
  <2> QED  BY <2>2, <2>3 DEF Behind
<1>2. ASSUME NEW g \in Fds, NEW s \in Socks, Install(t, g, s) PROVE BehindNext(f, c)
  <2>1. \A u \in Threads : thr[u].at \notin Released
    BY <1>2, NobodyCloses, Apart
  <2>2. fdtab[f] = c
    BY <2>1 DEF Behind
  <2>3. fdtab'[f] = c
    BY <1>2, <1>n, <2>2 DEF Install, fd_install, TypeInv
  <2> QED  BY <1>b, <2>3
<1>3. ASSUME NEW e \in Elems, Insert(t, e) PROVE BehindNext(f, c)
  <2>1. fdtab' = fdtab /\ thr[t].at \notin Released
    BY <1>3 DEF Insert, Released
  <2>2. CASE fdtab[f] = c
    BY <1>b, <2>1, <2>2
  <2>3. ASSUME NEW u \in Threads, thr[u].at \in Released, thr[u].fd = f, thr[u].sock = c, fdtab[f] = NONE
        PROVE  BehindNext(f, c)
    <3>1. thr'[u] = thr[u]
      BY <1>0, <2>1, <2>3
    <3> QED  BY <1>r, <2>1, <2>3, <3>1
  <2> QED  BY <2>2, <2>3 DEF Behind
<1>4. ASSUME NEW g \in Fds, BeginClose(t, g) PROVE BehindNext(f, c)
  <2>1. \A u \in Threads : u # t => thr[u].at \notin Released
    BY <1>4, OneCloser, Apart DEF BeginClose
  <2>2. thr[t].at \notin Released
    BY <1>4 DEF BeginClose, Released
  <2>3. fdtab[f] = c
    BY <2>1, <2>2 DEF Behind
  <2>4. CASE fdtab' = fdtab
    BY <1>b, <2>3, <2>4
  <2>5. CASE fdtab' = [fdtab EXCEPT ![g] = NONE] /\ thr'[t].at = "fput"
    <3>1. fdtab'[g] = NONE /\ \A h \in Fds : h # g => fdtab'[h] = fdtab[h]
      BY <2>5 DEF TypeInv
    <3>2. CASE g = f
      <4>1. thr'[t].at \in Released /\ thr'[t].fd = f /\ thr'[t].sock = c
        BY <1>4, <2>3, <2>5, <3>2 DEF BeginClose, Released
      <4> QED  BY <1>r, <3>1, <3>2, <4>1
    <3> QED  BY <1>b, <2>3, <3>1, <3>2
  <2> QED  BY <1>4, <2>4, <2>5 DEF BeginClose
<1>5. CASE Free(t)
  <2>0. /\ thr[t].at \in Closing /\ thr[t].at \notin Released /\ thr[t].fd \in Fds
        /\ fdtab[thr[t].fd] = thr[t].sock
    BY <1>5 DEF Free, CallsInv, CallOf, Closing, Released
  <2>1. \A u \in Threads : thr[u].at \notin Released
    BY <2>0, OneCloser, Apart
  <2>2. fdtab[f] = c
    BY <2>1 DEF Behind
  <2>3. fdtab'[thr[t].fd] = NONE /\ \A h \in Fds : h # thr[t].fd => fdtab'[h] = fdtab[h]
    BY <1>5, <2>0 DEF Free, TypeInv
  <2>4. CASE thr[t].fd = f
    BY <1>5, <1>r, <2>0, <2>2, <2>3, <2>4 DEF Free, Same
  <2> QED  BY <1>b, <2>2, <2>3, <2>4
\* The closing thread stays, or it has nothing to close any more.
<1>6. ASSUME thr[t].at \in Released, fdtab' = fdtab,
             \/ thr'[t].at \in Released /\ Same(t)
             \/ conn_info_map'[thr[t].fd] = NONE
      PROVE  BehindNext(f, c)
  <2>1. CASE fdtab[f] = c
    BY <1>6, <1>b, <2>1
  <2>2. ASSUME NEW u \in Threads, thr[u].at \in Released, thr[u].fd = f, thr[u].sock = c, fdtab[f] = NONE
        PROVE  BehindNext(f, c)
    <3>1. u = t
      BY <1>6, <2>2, OneCloser, Apart
    <3> QED  BY <1>6, <1>r, <2>2, <3>1 DEF Same
  <2> QED  BY <2>1, <2>2 DEF Behind
<1>7. CASE Release(t)
  <2>1. thr[t].at \in Released /\ fdtab' = fdtab
    BY <1>7 DEF Release, Released
  <2>2. thr[t].fd \in Fds /\ file_to_pid_fd[thr[t].sock] \in {NONE, thr[t].fd} /\ NONE \notin Fds
    BY <2>1, SocketAssumption, Apart DEF CallsInv, CallOf, LeftInv
  <2>3. conn_info_map'[thr[t].fd] = NONE
    <3>1. CASE file_to_pid_fd[thr[t].sock] = NONE
      BY <1>7, <2>1, <2>2, <3>1, NothingToClose DEF Release
    <3>2. CASE file_to_pid_fd[thr[t].sock] = thr[t].fd
      BY <1>7, <2>2, <3>2, ClosesMap DEF Release
    <3> QED  BY <2>2, <3>1, <3>2
  <2> QED  BY <1>6, <2>1, <2>3
<1>8. CASE Exit(t)
  <2>1. thr[t].at \in Released /\ fdtab' = fdtab /\ thr[t].fd \in Fds
    BY <1>8 DEF Exit, Released, CallsInv, CallOf, Closing
  <2>2. CASE file_to_pid_fd[thr[t].sock] = NONE
    <3>1. conn_info_map[thr[t].fd] = NONE
      BY <2>1, <2>2, NothingToClose
    <3>2. conn_info_map'[thr[t].fd] = NONE
      BY <1>8, <2>1, <3>1, ClosesMap DEF Exit
    <3> QED  BY <1>6, <2>1, <3>2
  <2>3. CASE /\ thr'[t].at = "fput" /\ thr'[t].fd = thr[t].fd /\ thr'[t].sock = thr[t].sock
    <3>1. CASE fdtab[f] = c
      BY <1>b, <2>1, <3>1
    <3>2. ASSUME NEW u \in Threads, thr[u].at \in Released, thr[u].fd = f, thr[u].sock = c, fdtab[f] = NONE
          PROVE  BehindNext(f, c)
      <4>1. u = t
        BY <2>1, <3>2, OneCloser, Apart
      <4> QED  BY <1>r, <2>1, <2>3, <3>2, <4>1 DEF Released
    <3> QED  BY <3>1, <3>2 DEF Behind
  <2> QED  BY <1>8, <2>2, <2>3 DEF Exit
<1> QED  BY <1>1, <1>2, <1>3, <1>4, <1>5, <1>7, <1>8, CalmSteps

\* Where a step leads to.
LEMMA Where ==
    ASSUME TypeInv, CallsInv, HeldInv, NEW t \in Threads, Step(t)
    PROVE  /\ thr'[t].at = "ret_addr" =>
                \/ Advance(t) /\ thr[t].at = "tcp_connect"
                \/ \E s \in Socks : Install(t, thr'[t].fd, s) /\ thr'[t].fd \in Fds /\ thr[t].at = "accept"
           /\ thr'[t].at \in Using =>
                \/ Arrive(t)
                \/ thr[t].at \in Using /\ Same(t)
                \/ \E s \in Socks : Install(t, thr'[t].fd, s) /\ thr'[t].fd \in Fds /\ thr[t].at = "accept"
           /\ \/ thr'[t].fd \in {thr[t].fd, NONE}
              \/ Arrive(t)
              \/ thr'[t].fd \in Fds /\ \E s \in Socks : Install(t, thr'[t].fd, s)
              \/ thr'[t].fd \in Fds /\ BeginClose(t, thr'[t].fd)
<1>h. Home(t) => thr'[t].at = "user" /\ thr'[t].fd = NONE
  BY DEF Home
<1>u. "user" \notin Using /\ "accept" \notin Using /\ "user" # "ret_addr"
  BY Apart
<1>e. End(t) => thr'[t].at # "ret_addr" /\ (Home(t) \/ Same(t))
  BY <1>h DEF End
<1>1. CASE Arrive(t)
  BY <1>1 DEF Arrive
<1>2. CASE Advance(t)
  BY <1>2 DEF Advance, Same
<1>3. CASE Leave(t)
  BY <1>3, <1>h, <1>u DEF Leave
<1>4. CASE GoAccept(t)
  BY <1>4, <1>u DEF GoAccept
<1>5. ASSUME NEW f \in Fds, NEW s \in Socks, Install(t, f, s)
      PROVE  \/ Home(t)
             \/ /\ thr'[t].fd = f /\ thr[t].at = "accept"
  BY <1>5 DEF Install
<1>6. ASSUME NEW e \in Elems, Insert(t, e) PROVE thr'[t].at # "ret_addr" /\ Same(t) /\ thr[t].at \in Using
  BY <1>6 DEF Insert, Using
<1>7. Reserve(t) => thr'[t].at # "ret_addr" /\ Same(t) /\ thr[t].at \in Using
  BY DEF Reserve, Using, Holding, Opening
<1>8. Mark(t) => End(t) /\ thr[t].at \in Using
  BY DEF Mark, Using, Holding, Opening
<1>9. ASSUME NEW c \in Socks \cup {NONE}, Submit(t, c)
      PROVE  thr'[t].at # "ret_addr" /\ (Home(t) \/ Same(t)) /\ thr[t].at \in Using
  BY <1>9, <1>e DEF Submit, Using, Holding, Opening
<1>10. ASSUME NEW f \in Fds, BeginClose(t, f) PROVE thr'[t].fd = f /\ thr'[t].at \in Closing
  BY <1>10 DEF BeginClose, Closing, Released
<1>11. Free(t) => thr'[t].at \in Closing /\ Same(t)
  BY Apart DEF Free
<1>12. Release(t) \/ Exit(t) => Home(t) \/ (thr'[t].at \in Closing /\ thr'[t].fd = thr[t].fd)
  BY DEF Release, Exit, Closing, Released, Same
<1>13. thr'[t].at \in Closing => thr'[t].at \notin Using /\ thr'[t].at # "ret_addr"
  BY Apart DEF Closing, Released
<1>14. Same(t) => thr'[t].fd = thr[t].fd
  BY DEF Same
<1>15. CASE \E f \in Fds, s \in Socks : Install(t, f, s)
  <2>1. PICK f \in Fds, s \in Socks : Install(t, f, s)
    BY <1>15
  <2>2. CASE Home(t)
    BY <2>2, <1>h, <1>u
  <2>3. CASE thr'[t].fd = f /\ thr[t].at = "accept"
    BY <2>1, <2>3
  <2> QED  BY <1>5, <2>1, <2>2, <2>3
<1>16. CASE \E f \in Fds : BeginClose(t, f)
  BY <1>16, <1>10, <1>13
<1> QED  BY <1>1, <1>2, <1>3, <1>4, <1>6, <1>7, <1>8, <1>9, <1>11, <1>12, <1>13, <1>14, <1>15, <1>16,
            <1>h, <1>u, <1>e DEF Step

\* The cookie that a submission stores is that of the thread's socket.
LEMMA SubmitCookie ==
    ASSUME TypeInv, CallsInv, FreedInv, NEW t \in Threads, NEW c, Submit(t, c)
    PROVE  /\ c = CookieOf(thr[t].sock) /\ c \in {NONE, thr[t].sock}
           /\ thr[t].at \in Opening /\ thr[t].at \in Holding /\ thr[t].at \in Using
           /\ thr[t].fd \in Fds /\ thr[t].sock \in Socks /\ fdtab[thr[t].fd] = thr[t].sock
<1>1. thr[t].at = "fill"
  BY DEF Submit
<1>2. thr[t].at \in Opening /\ thr[t].at \in Holding /\ thr[t].at \in Using
  BY <1>1, Apart DEF Opening
<1>3. thr[t].fd \in Fds /\ thr[t].sock \in Socks /\ fdtab[thr[t].fd] = thr[t].sock
  BY <1>2 DEF CallsInv, CallOf
<1>4. pid_fd_to_sock[thr[t].fd] = thr[t].sock /\ thr[t].sock # NONE
  BY <1>3, SocketAssumption DEF FreedInv
<1>5. c = CookieOf(thr[t].sock)
  BY <1>4, SMT DEF Submit
<1> QED  BY <1>2, <1>3, <1>5 DEF CookieOf

LEMMA CookieStep ==
    ASSUME TypeInv, TypeInv', CallsInv, HeldInv, LeftInv, SlotInv, OpenerInv, OneOpener, FreedInv,
           CookieInv, NEW t \in Threads, Step(t)
    PROVE  CookieInv'
<1>0. NONE \notin Socks /\ NONE \notin Elems /\ \A u \in Threads : u # t => thr'[u] = thr[u]
  BY SocketAssumption, StepFrame DEF Only
<1>e. \A e \in Elems : conn[e].cookie \in Socks \cup {NONE}
  BY SMT DEF TypeInv, ConnRecs
<1>1. ASSUME NEW f \in Fds, conn_info_map'[f] # NONE, conn'[conn_info_map'[f]].cookie # NONE
      PROVE  BehindNext(f, conn'[conn_info_map'[f]].cookie)
  <2> DEFINE m == conn_info_map'[f]
  <2>1. m \in Elems
    BY <1>1 DEF TypeInv
  <2>2. ~Insert(t, m)
    BY <1>1 DEF Insert
  <2>3. conn_info_map[f] = m
    BY <1>1, <2>2, MapStep
  <2>4. CASE conn'[m].cookie = conn[m].cookie
    <3>1. Behind(f, conn[m].cookie) /\ conn[m].cookie \in Socks
      BY <1>1, <1>e, <2>1, <2>3, <2>4 DEF CookieInv
    <3>2. BehindNext(f, conn[m].cookie)
      BY <1>1, <3>1, BehindStays
    <3> QED  BY <2>4, <3>2
  <2>5. ASSUME NEW c \in Socks \cup {NONE}, Submit(t, c), m = thr[t].elem
        PROVE  BehindNext(f, conn'[m].cookie)
    <3>1. thr[t].fd = f
      BY <2>1, <2>3, <2>5 DEF HeldInv
    <3>2. conn'[m].cookie = c /\ fdtab' = fdtab
      BY <2>1, <2>5 DEF Submit, Quiet
    <3>3. fdtab'[f] = conn'[m].cookie
      BY <1>1, <2>5, <3>1, <3>2, SubmitCookie
    <3> QED  BY <3>3 DEF BehindNext
  <2>6. Kept(m) => conn'[m].cookie = conn[m].cookie
    BY DEF Kept
  <2>7. Mark(t) /\ m = thr[t].elem => conn'[m].cookie = conn[m].cookie
    BY DEF Mark
  <2> QED  BY <2>1, <2>2, <2>4, <2>5, <2>6, <2>7, ConnStep
<1>2. ASSUME NEW u \in Threads, thr'[u].at \in Holding
      PROVE  conn'[thr'[u].elem].cookie \in {NONE, thr'[u].sock}
  <2>1. ASSUME thr[u].at \in Holding, thr'[u].elem = thr[u].elem, thr'[u].sock = thr[u].sock
        PROVE  conn'[thr'[u].elem].cookie \in {NONE, thr'[u].sock}
    <3> DEFINE e == thr[u].elem
    <3>1. e \in Elems /\ conn[e].cookie \in {NONE, thr[u].sock}
      BY <2>1 DEF HeldInv, CookieInv
    <3>2. Kept(e) \/ (Mark(t) /\ e = thr[t].elem) => conn'[e].cookie = conn[e].cookie
      BY DEF Kept, Mark
    <3>3. Insert(t, e) => conn'[e].cookie = NONE
      BY DEF Insert
    <3>4. ASSUME NEW c \in Socks \cup {NONE}, Submit(t, c), e = thr[t].elem
          PROVE  conn'[e].cookie \in {NONE, thr[u].sock}
      <4>1. conn'[e].cookie = c
        BY <3>1, <3>4 DEF Submit
      <4>2. thr[t].fd = thr[u].fd
        BY <3>1, <3>4 DEF HeldInv
      <4>3. fdtab[thr[u].fd] = thr[u].sock
        BY <2>1, Apart DEF CallsInv, CallOf
      <4>4. thr[t].sock = thr[u].sock
        BY <3>4, <4>2, <4>3, SubmitCookie
      <4>5. c \in {NONE, thr[t].sock}
        BY <3>4, SubmitCookie
      <4> QED  BY <4>1, <4>4, <4>5
    <3>5. conn'[e].cookie \in {NONE, thr[u].sock}
      BY <3>1, <3>2, <3>3, <3>4, ConnStep
    <3> QED  BY <2>1, <3>5
  <2>2. CASE u # t
    BY <1>0, <1>2, <2>1, <2>2
  <2>3. CASE u = t
    <3>0. Same(t) /\ thr[t].at \in Using
      BY <1>2, <2>3, HoldsNext
    <3>1. CASE thr[t].at \in Holding /\ thr'[t].elem = thr[t].elem
      BY <2>1, <2>3, <3>0, <3>1 DEF Same
    <3>2. CASE /\ Advance(t) /\ thr'[t].elem \in Elems /\ thr'[t].elem = conn_info_map[thr[t].fd]
      <4> DEFINE e == thr'[t].elem
      <4>1. conn'[e].cookie = conn[e].cookie /\ e # NONE
        BY <1>0, <3>2 DEF Advance, Keeps
      <4>2. thr[t].fd \in Fds /\ fdtab[thr[t].fd] = thr[t].sock /\ thr[t].sock # NONE
        BY <1>0, <3>0 DEF CallsInv, CallOf
      <4>3. conn[e].cookie # NONE => Behind(thr[t].fd, conn[e].cookie)
        BY <3>2, <4>1, <4>2 DEF CookieInv
      <4>4. conn[e].cookie \in {NONE, thr[t].sock}
        BY <4>2, <4>3 DEF Behind
      <4> QED  BY <2>3, <3>0, <4>1, <4>4 DEF Same
    <3>3. CASE Insert(t, thr'[t].elem)
      BY <2>3, <3>3 DEF Insert
    <3> QED  BY <1>2, <2>3, <3>1, <3>2, <3>3, HoldsNext
  <2> QED  BY <2>2, <2>3
<1>3. ASSUME NEW i \in DOMAIN ring', ring'[i].kind \in {"data", "hello"}
      PROVE  ring'[i].cookie \in {NONE, ring'[i].of}
  <2>1. CASE i \in DOMAIN ring
    <3>1. ring'[i] = ring[i] \/ (thr[t].at = "fill" /\ i = thr[t].slot /\ ring'[i].kind = ring[i].kind)
      BY <2>1, RingStep
    <3>2. thr[t].at = "fill" => ring[thr[t].slot].kind = "open"
      BY DEF SlotInv
    <3>3. ring'[i] = ring[i]
      BY <1>3, <3>1, <3>2
    <3> QED  BY <1>3, <2>1, <3>3 DEF CookieInv
  <2>2. CASE i \notin DOMAIN ring
    <3>1. Added(t, i)
      BY <2>2, RingStep DEF Grows
    <3> QED  BY <1>3, <3>1 DEF Added, CookieInv
  <2> QED  BY <2>1, <2>2
<1> QED  BY <1>1, <1>2, <1>3 DEF CookieInv, Behind, BehindNext

LEMMA AcceptStep ==
    ASSUME TypeInv, TypeInv', CallsInv, HeldInv, LeftInv, OpenerInv, OneOpener, AcceptInv,
           NEW t \in Threads, Step(t)
    PROVE  AcceptInv'
<1>0. \A u \in Threads : u # t => thr'[u] = thr[u]
  BY StepFrame DEF Only
<1>n. NONE \notin Fds /\ NONE \notin Socks
  BY SocketAssumption
<1>u. \A u \in Threads : thr[u].at \in Using => thr[u].fd \in Fds /\ fdtab[thr[u].fd] # NONE
  BY <1>n, ZenonT(30) DEF CallsInv, CallOf
<1>a. \A u \in Threads : thr[u].at \in {"user", "accept"} \cup Using \cup Closing
  BY SMT DEF TypeInv, ThreadRecs, Places
<1>o. "none" \notin Accepts /\ "connect" \notin Accepts /\ \A o \in IoCalls : o \notin Accepts
  BY DEF Accepts, IoCalls, ReadCalls, WriteCalls
\* Nobody is on the descriptor that accept hands out.
<1>i. ASSUME NEW f \in Fds, NEW s \in Socks, Install(t, f, s), NEW u \in Threads PROVE thr[u].fd # f
  <2>1. fdtab[f] = NONE /\ thr[u].at \notin Closing
    BY <1>i, NobodyCloses DEF Install, fd_install
  <2>2. CASE thr[u].at \in {"user", "accept"}
    <3>1. thr[u].fd = NONE
      BY <2>2 DEF CallsInv, CallOf
    <3> QED  BY <1>n, <3>1
  <2>3. CASE thr[u].at \in Using
    BY <1>u, <2>1, <2>3
  <2> QED  BY <1>a, <2>1, <2>2, <2>3
<1>1. ASSUME NEW v \in Threads, NEW u \in Threads, v # u, thr'[v].at \in Using, thr'[v].op \in Accepts
      PROVE  thr'[u].fd # thr'[v].fd
  <2>1. CASE v = t
    <3>0. thr'[u].fd = thr[u].fd
      BY <1>0, <1>1, <2>1
    <3>1. CASE Arrive(t)
      BY <1>1, <1>o, <2>1, <3>1 DEF Arrive
    <3>2. CASE thr[t].at \in Using /\ Same(t)
      BY <1>1, <2>1, <3>0, <3>2 DEF Same, AcceptInv
    <3>3. CASE \E s \in Socks : Install(t, thr'[t].fd, s) /\ thr'[t].fd \in Fds
      BY <1>i, <2>1, <3>0, <3>3
    <3> QED  BY <1>1, <2>1, <3>1, <3>2, <3>3, Where
  <2>2. CASE v # t
    <3>0. thr'[v] = thr[v]
      BY <1>0, <2>2
    <3>1. /\ thr[v].at \in Using /\ thr[v].op \in Accepts /\ thr[v].fd \in Fds /\ fdtab[thr[v].fd] # NONE
          /\ thr[u].fd # thr[v].fd
      BY <1>1, <1>u, <3>0 DEF AcceptInv
    <3>2. CASE u # t
      BY <1>0, <3>0, <3>1, <3>2
    <3>3. CASE u = t
      <4>1. CASE thr'[t].fd \in {thr[t].fd, NONE}
        BY <1>n, <3>0, <3>1, <3>3, <4>1
      <4>2. CASE Arrive(t)
        <5>1. thr'[t].fd # thr[v].fd
          BY <3>1, <4>2, Apart DEF Arrive, Usable, InCall, Accepts
        <5> QED  BY <3>0, <3>3, <5>1
      <4>3. CASE thr'[t].fd \in Fds /\ \E s \in Socks : Install(t, thr'[t].fd, s)
        BY <1>i, <3>0, <3>3, <4>3
      <4>4. CASE BeginClose(t, thr'[t].fd)
        <5>1. thr'[t].fd # thr[v].fd
          BY <3>1, <4>4, Apart DEF BeginClose, Closable, InCall, Released
        <5> QED  BY <3>0, <3>3, <5>1
      <4> QED  BY <4>1, <4>2, <4>3, <4>4, Where
    <3> QED  BY <3>2, <3>3
  <2> QED  BY <2>1, <2>2
<1>2. ASSUME NEW u \in Threads, thr'[u].at = "ret_addr", thr'[u].op \in Accepts
      PROVE  conn_info_map'[thr'[u].fd] = NONE
  <2>1. CASE u = t
    <3>1. ~Advance(t) \/ thr[t].at # "tcp_connect"
      BY <1>2, <1>o, <2>1, ZenonT(30) DEF Advance, Same, CallsInv, CallOf
    <3>2. PICK s \in Socks : Install(t, thr'[t].fd, s) /\ thr'[t].fd \in Fds
      BY <1>2, <2>1, <3>1, Where
    <3>3. conn_info_map[thr'[t].fd] = NONE
      BY <3>2, NobodyCloses
    <3> QED  BY <2>1, <3>2, <3>3 DEF Install
  <2>2. CASE u # t
    <3>1. thr'[u] = thr[u] /\ thr[u].at \in Using
      BY <1>0, <1>2, <2>2 DEF Using
    <3>2. thr[u].fd \in Fds /\ conn_info_map[thr[u].fd] = NONE /\ thr[t].fd # thr[u].fd
      BY <1>2, <1>u, <2>2, <3>1 DEF AcceptInv
    <3>3. conn_info_map'[thr[u].fd] = NONE
      BY <3>2, MapStep
    <3> QED  BY <3>1, <3>3
  <2> QED  BY <2>1, <2>2
<1>3. ASSUME NEW u \in Threads, thr'[u].at \in Holding, thr'[u].op \in Accepts
      PROVE  conn'[thr'[u].elem].function = "server"
  <2>1. ASSUME thr[u].at \in Holding, thr[u].op \in Accepts, thr'[u].elem = thr[u].elem
        PROVE  conn'[thr'[u].elem].function = "server"
    BY <2>1, HeldConn DEF AcceptInv
  <2>2. CASE u # t
    BY <1>0, <1>3, <2>1, <2>2
  <2>3. CASE u = t
    <3>1. thr[t].op \in Accepts /\ thr[t].op \notin IoCalls /\ thr[t].op # "connect"
      BY <1>3, <1>o, <2>3, HoldsNext DEF Same
    <3>2. CASE thr[t].at \in Holding /\ thr'[t].elem = thr[t].elem
      BY <2>1, <2>3, <3>1, <3>2
    <3>3. CASE Insert(t, thr'[t].elem)
      BY <2>3, <3>1, <3>3, SMT DEF Insert
    <3> QED  BY <1>3, <2>3, <3>1, <3>2, <3>3, HoldsNext
  <2> QED  BY <2>2, <2>3
<1> QED  BY <1>1, <1>2, <1>3 DEF AcceptInv

\* A thread that has a connection to open found it, or made it, or goes on opening it.
LEMMA Opens ==
    ASSUME TypeInv, CallsInv, HeldInv, NEW t \in Threads, Step(t), thr'[t].at \in Opening
    PROVE  /\ Same(t)
           /\ \/ thr[t].at \in Opening /\ thr'[t].elem = thr[t].elem
              \/ Advance(t) /\ thr'[t].at = "open" /\ thr[t].op \in IoCalls
              \/ Insert(t, thr'[t].elem)
<1>1. thr'[t].at \in Holding
  BY Apart
<1>2. thr'[t].at = "fill" => thr[t].at \in Opening /\ thr'[t].elem = thr[t].elem
  BY Lands DEF Reserve, Opening
<1>3. thr'[t].at = "mark" => thr[t].at \in Opening /\ thr'[t].elem = thr[t].elem
  <2>1. ASSUME NEW c \in Socks \cup {NONE}, Submit(t, c), thr'[t].at = "mark"
        PROVE  thr[t].at \in Opening /\ thr'[t].elem = thr[t].elem
    <3>1. ~End(t)
      BY <2>1 DEF End, Home
    <3> QED  BY <2>1, <3>1 DEF Submit, Opening
  <2> QED  BY <2>1, Lands
<1>4. thr'[t].at = "open" => Advance(t) \/ \E e \in Elems : Insert(t, e)
  <2>1. ASSUME thr'[t].at = "open"
        PROVE  ~Home(t) /\ ~End(t)
    BY <2>1 DEF Home, End
  <2>2. ASSUME thr'[t].at = "open"
        PROVE  ~Arrive(t) /\ ~Leave(t) /\ ~GoAccept(t) /\ ~Reserve(t) /\ ~Mark(t)
    BY <2>1, <2>2 DEF Arrive, Leave, GoAccept, Reserve, Mark
  <2>3. ASSUME thr'[t].at = "open", NEW f \in Fds PROVE ~BeginClose(t, f) /\ \A s \in Socks : ~Install(t, f, s)
    BY <2>1, <2>3 DEF Install, BeginClose
  <2>4. ASSUME thr'[t].at = "open", NEW c \in Socks \cup {NONE} PROVE ~Submit(t, c)
    BY <2>1, <2>4 DEF Submit
  <2>5. ASSUME thr'[t].at = "open" PROVE ~Free(t) /\ ~Release(t) /\ ~Exit(t)
    BY <2>1, <2>5 DEF Free, Release, Exit, Released
  <2> QED  BY <2>2, <2>3, <2>4, <2>5 DEF Step
<1>5. thr'[t].at = "open" => Advance(t) \/ Insert(t, thr'[t].elem)
  BY <1>4 DEF Insert
<1>6. Advance(t) /\ thr'[t].at = "open" => thr[t].op \in IoCalls
  BY DEF Advance
<1>7. Same(t)
  BY <1>1, HoldsNext
<1> QED  BY <1>2, <1>3, <1>5, <1>6, <1>7 DEF Opening

LEMMA KnownStep ==
    ASSUME TypeInv, CallsInv, HeldInv, FreedInv, KnownInv, NEW t \in Threads, Step(t)
    PROVE  KnownInv'
<1>0. (\A u \in Threads : u # t => thr'[u] = thr[u]) /\ cookies \subseteq cookies'
  BY StepFrame DEF Only
<1>n. NONE \notin Socks
  BY SocketAssumption
<1>1. ASSUME thr'[t].at = "ret_addr", thr'[t].op = "connect" PROVE thr'[t].sock \in cookies'
  <2>1. CASE Advance(t)
    BY <1>1, <2>1 DEF Advance, Same
  <2>2. ASSUME NEW s \in Socks, Install(t, thr'[t].fd, s), thr[t].at = "accept" PROVE FALSE
    BY <1>1, <2>2 DEF Install, CallsInv, CallOf, Accepts
  <2> QED  BY <1>1, <2>1, <2>2, Where
<1>2. ASSUME thr'[t].at \in Opening, thr'[t].op \notin Accepts PROVE thr'[t].sock \in cookies'
  <2>0. thr'[t].op = thr[t].op /\ thr'[t].sock = thr[t].sock
    BY <1>2, Opens DEF Same
  <2>1. CASE thr[t].at \in Opening
    BY <1>0, <1>2, <2>0, <2>1 DEF KnownInv
  <2>2. CASE Advance(t) /\ thr'[t].at = "open"
    <3>1. pid_fd_to_sock[thr[t].fd] \in cookies /\ thr[t].at \in Using
      BY <2>2 DEF Advance
    <3>2. thr[t].fd \in Fds /\ thr[t].sock \in Socks /\ fdtab[thr[t].fd] = thr[t].sock
      BY <3>1 DEF CallsInv, CallOf
    <3>3. pid_fd_to_sock[thr[t].fd] = thr[t].sock
      BY <1>n, <3>2 DEF FreedInv
    <3> QED  BY <1>0, <2>0, <3>1, <3>3
  <2>3. CASE Insert(t, thr'[t].elem)
    <3>1. thr[t].at = "ret_addr" /\ thr[t].op = "connect"
      BY <1>2, <2>0, <2>3 DEF Insert, CallsInv, CallOf, AddrCalls
    <3> QED  BY <1>0, <2>0, <3>1 DEF KnownInv
  <2> QED  BY <1>2, <2>1, <2>2, <2>3, Opens
<1>3. ASSUME NEW u \in Threads
      PROVE  /\ thr'[u].at = "ret_addr" /\ thr'[u].op = "connect" => thr'[u].sock \in cookies'
             /\ thr'[u].at \in Opening /\ thr'[u].op \notin Accepts => thr'[u].sock \in cookies'
  <2>1. CASE u = t
    BY <1>1, <1>2, <2>1
  <2>2. CASE u # t
    BY <1>0, <2>2 DEF KnownInv
  <2> QED  BY <2>1, <2>2
<1> QED  BY <1>3 DEF KnownInv

\* A new descriptor is of a socket that had none.
LEMMA TabStep ==
    ASSUME TypeInv, CallsInv, NEW t \in Threads, Step(t)
    PROVE  /\ fresh' \subseteq fresh
           /\ \A f \in Fds : fdtab'[f] \in {fdtab[f], NONE} \/ fdtab'[f] \in fresh
<1>1. CASE Calm(t)
  BY <1>1 DEF Calm, Quiet
<1>2. ASSUME NEW g \in Fds, NEW s \in Socks, Install(t, g, s)
      PROVE  fresh' \subseteq fresh /\ \A f \in Fds : fdtab'[f] \in {fdtab[f], NONE} \/ fdtab'[f] \in fresh
  BY <1>2 DEF Install, fd_install, TypeInv
<1>3. ASSUME NEW e \in Elems, Insert(t, e) PROVE UNCHANGED <<fresh, fdtab>>
  BY <1>3 DEF Insert
<1>4. ASSUME NEW g \in Fds, BeginClose(t, g)
      PROVE  fresh' = fresh /\ \A f \in Fds : fdtab'[f] \in {fdtab[f], NONE}
  BY <1>4 DEF BeginClose, Rest, TypeInv
<1>5. CASE Free(t)
  <2>1. thr[t].fd \in Fds
    BY <1>5 DEF Free, CallsInv, CallOf, Closing
  <2> QED  BY <1>5, <2>1 DEF Free, Rest, TypeInv
<1>6. Release(t) \/ Exit(t) => UNCHANGED <<fresh, fdtab>>
  BY DEF Release, Exit
<1> QED  BY <1>1, <1>2, <1>3, <1>4, <1>5, <1>6, CalmSteps

\* A record that closes a connection stays as it is.
LEMMA CloseKept ==
    ASSUME TypeInv, TypeInv', CallsInv, HeldInv, SlotInv, NEW t \in Threads, Step(t),
           NEW i \in DOMAIN ring, ring'[i].kind = "close" \/ ring[i].kind = "close"
    PROVE  ring'[i] = ring[i]
<1>1. thr[t].at = "fill" => ring[thr[t].slot].kind = "open"
  BY DEF SlotInv
<1> QED  BY <1>1, RingStep

\* The socket of the connection that a thread closes is its own.
LEMMA ClosesOwn ==
    ASSUME TypeInv, CallsInv, LeftInv, OpenInv, OpenerInv, OneOpener, FreedInv, CookieInv,
           NEW t \in Threads, NEW f \in Fds, thr[t].at \in Released,
           f \in {thr[t].fd, file_to_pid_fd[thr[t].sock]},
           conn_info_map[f] \in Elems, conn[conn_info_map[f]].is_open
    PROVE  /\ f = thr[t].fd /\ conn[conn_info_map[f]].cookie = thr[t].sock /\ thr[t].sock \in Socks \ fresh
           /\ \A g \in Fds : fdtab[g] # thr[t].sock
           /\ \A g \in Fds : conn_info_map[g] # NONE /\ g # f => conn[conn_info_map[g]].cookie # thr[t].sock
<1>0. NONE \notin Fds /\ NONE \notin Socks /\ NONE \notin Elems
  BY SocketAssumption
<1>1. /\ thr[t].sock \notin fresh /\ file_to_pid_fd[thr[t].sock] \in {NONE, thr[t].fd}
      /\ \A g \in Fds : fdtab[g] # thr[t].sock
  BY DEF LeftInv
<1>2. f = thr[t].fd
  BY <1>0, <1>1
<1>3. thr[t].sock \in Socks
  BY Apart DEF CallsInv, CallOf
<1>4. conn[conn_info_map[f]].cookie # NONE
  <2>1. OpenSent(conn[conn_info_map[f]].cookie)
    BY DEF OpenInv
  <2>2. \A i \in DOMAIN ring : ring[i].kind = "open" /\ ring[i].state = "sent" => ring[i].cookie # NONE
    BY DEF OpenInv
  <2> QED  BY <2>1, <2>2 DEF OpenSent
<1>5. \A u \in Threads : thr[u].at \in Released => u = t
  BY OneCloser, Apart
<1>6. Behind(f, conn[conn_info_map[f]].cookie)
  BY <1>0, <1>4 DEF CookieInv
<1>7. fdtab[f] = NONE
  BY <1>2 DEF FreedInv
<1>8. conn[conn_info_map[f]].cookie = thr[t].sock
  BY <1>4, <1>5, <1>6, <1>7 DEF Behind
<1>9. ASSUME NEW g \in Fds, conn_info_map[g] # NONE, g # f, conn[conn_info_map[g]].cookie = thr[t].sock
      PROVE  FALSE
  <2>1. Behind(g, thr[t].sock)
    BY <1>0, <1>3, <1>9 DEF CookieInv
  <2> QED  BY <1>1, <1>2, <1>5, <1>9, <2>1 DEF Behind
<1> QED  BY <1>1, <1>2, <1>3, <1>8, <1>9

LEMMA ClosedStep ==
    ASSUME TypeInv, TypeInv', CallsInv, HeldInv, LeftInv, SlotInv, OpenInv, OpenerInv, OneOpener,
           FreedInv, CookieInv, ClosedInv, NEW t \in Threads, Step(t)
    PROVE  ClosedInv'
<1>0. NONE \notin Fds /\ NONE \notin Socks /\ NONE \notin Elems
  BY SocketAssumption
\* The cookie of a connection in the map is one it had, or the socket of the thread.
<1>m. ASSUME NEW g \in Fds, conn_info_map'[g] # NONE
      PROVE  \/ conn'[conn_info_map'[g]].cookie = NONE
             \/ /\ conn_info_map[g] # NONE
                /\ conn'[conn_info_map'[g]].cookie = conn[conn_info_map[g]].cookie
             \/ /\ thr[t].at \in Using
                /\ conn'[conn_info_map'[g]].cookie = thr[t].sock
  <2> DEFINE m == conn_info_map'[g]
  <2>1. m \in Elems
    BY <1>m DEF TypeInv
  <2>2. CASE Insert(t, m)
    BY <2>2 DEF Insert
  <2>3. CASE ~Insert(t, m)
    <3>1. conn_info_map[g] = m
      BY <1>m, <2>3, MapStep
    <3>2. Kept(m) \/ (Mark(t) /\ m = thr[t].elem) => conn'[m].cookie = conn[m].cookie
      BY DEF Kept, Mark
    <3>3. ASSUME NEW c \in Socks \cup {NONE}, Submit(t, c), m = thr[t].elem
          PROVE  thr[t].at \in Using /\ conn'[m].cookie \in {NONE, thr[t].sock}
      <4>1. conn'[m].cookie = c
        BY <2>1, <3>3 DEF Submit
      <4> QED  BY <3>3, <4>1, SubmitCookie
    <3> QED  BY <1>m, <2>1, <2>3, <3>1, <3>2, <3>3, ConnStep
  <2> QED  BY <2>2, <2>3
<1>u. ASSUME NEW c \in Socks, \A f \in Fds : fdtab[f] # c, thr[t].at \in Using PROVE thr[t].sock # c
  BY <1>u DEF CallsInv, CallOf
\* The record that closes is older, or new.
<1>1. ASSUME NEW i \in DOMAIN ring', ring'[i].kind = "close"
      PROVE  /\ ring'[i].cookie \in Socks \ fresh
             /\ \A f \in Fds : fdtab[f] # ring'[i].cookie
             /\ \A f \in Fds : conn_info_map'[f] # NONE => conn'[conn_info_map'[f]].cookie # ring'[i].cookie
  <2>1. CASE i \in DOMAIN ring
    <3>1. ring'[i] = ring[i] /\ ring[i].kind = "close"
      BY <1>1, <2>1, CloseKept
    <3>2. /\ ring[i].cookie \in Socks \ fresh
          /\ \A f \in Fds : fdtab[f] # ring[i].cookie
          /\ \A f \in Fds : conn_info_map[f] # NONE => conn[conn_info_map[f]].cookie # ring[i].cookie
      BY <2>1, <3>1 DEF ClosedInv
    <3>3. ring[i].cookie \in Socks /\ ring[i].cookie # NONE
      BY <1>0, <3>2
    <3>4. thr[t].at \in Using => thr[t].sock # ring[i].cookie
      BY <1>u, <3>2, <3>3
    <3>5. \A f \in Fds : conn_info_map'[f] # NONE => conn'[conn_info_map'[f]].cookie # ring[i].cookie
      BY <1>m, <3>2, <3>3, <3>4
    <3> QED  BY <3>1, <3>2, <3>5
  <2>2. CASE i \notin DOMAIN ring
    <3>1. Added(t, i)
      BY <2>2, RingStep DEF Grows
    <3>2. PICK f \in Fds : Removed(t, f, i)
      BY <1>1, <3>1 DEF Added
    <3> DEFINE c == thr[t].sock
    <3>3. /\ thr[t].at \in Released /\ conn_info_map'[f] = NONE
          /\ ring'[i].cookie = conn[conn_info_map[f]].cookie
          /\ f \in {thr[t].fd, file_to_pid_fd[thr[t].sock]}
          /\ conn_info_map[f] \in Elems /\ conn[conn_info_map[f]].is_open
      BY <3>2 DEF Removed
    <3>4. /\ conn[conn_info_map[f]].cookie = c /\ c \in Socks \ fresh
          /\ \A g \in Fds : fdtab[g] # c
          /\ \A g \in Fds : conn_info_map[g] # NONE /\ g # f => conn[conn_info_map[g]].cookie # c
      BY <3>3, ClosesOwn
    <3>5. c # NONE /\ thr[t].at \notin Using
      BY <1>0, <3>3, <3>4, Apart
    <3>6. ASSUME NEW g \in Fds, conn_info_map'[g] # NONE PROVE conn'[conn_info_map'[g]].cookie # c
      <4>1. g # f
        BY <3>3, <3>6
      <4> QED  BY <1>m, <3>4, <3>5, <3>6, <4>1
    <3> QED  BY <3>3, <3>4, <3>6
  <2> QED  BY <2>1, <2>2
<1>2. ASSUME NEW i \in DOMAIN ring', ring'[i].kind = "close"
      PROVE  /\ ring'[i].cookie \in Socks \ fresh'
             /\ \A f \in Fds : fdtab'[f] # ring'[i].cookie
  BY <1>0, <1>1, <1>2, TabStep
<1>3. ASSUME NEW i \in DOMAIN ring', NEW j \in DOMAIN ring', ring'[i].kind = "close", j > i,
             ring'[j].state = "sent"
      PROVE  ring'[j].cookie # ring'[i].cookie
  <2>0. i \in DOMAIN ring
    <3>1. i \notin DOMAIN ring => j < i \/ j = i
      BY RingStep DEF Grows
    <3>2. i \in Nat /\ j \in Nat
      BY SMT DEF TypeInv
    <3> QED  BY <1>3, <3>1, <3>2, SMT
  <2>1. ring'[i] = ring[i] /\ ring[i].kind = "close"
    BY <1>3, <2>0, CloseKept
  <2> DEFINE c == ring[i].cookie
  <2>2. /\ c \in Socks \ fresh
        /\ \A f \in Fds : fdtab[f] # c
        /\ \A f \in Fds : conn_info_map[f] # NONE => conn[conn_info_map[f]].cookie # c
    BY <2>0, <2>1 DEF ClosedInv
  <2>3. c \in Socks /\ c # NONE /\ (thr[t].at \in Using => thr[t].sock # c)
    BY <1>0, <1>u, <2>2
  <2> HIDE DEF c
  <2>4. CASE j \notin DOMAIN ring
    <3>1. Added(t, j)
      BY <2>4, RingStep DEF Grows
    <3>2. ASSUME thr[t].at \in Holding, ring'[j].cookie = conn[thr[t].elem].cookie PROVE ring'[j].cookie # c
      BY <2>3, <3>2, Apart DEF CookieInv
    <3>3. ASSUME NEW f \in Fds, Removed(t, f, j) PROVE ring'[j].cookie # c
      BY <1>0, <2>2, <3>3 DEF Removed
    <3>4. ring'[j].cookie # c
      BY <1>3, <3>1, <3>2, <3>3 DEF Added
    <3> QED  BY <2>1, <3>4 DEF c
  <2>5. CASE j \in DOMAIN ring
    <3>1. CASE ring'[j] = ring[j]
      BY <1>3, <2>0, <2>1, <2>5, <3>1 DEF ClosedInv
    <3>2. CASE thr[t].at = "fill" /\ j = thr[t].slot
      <4>1. PICK d \in Socks \cup {NONE} : Submit(t, d)
        BY <3>2, FillSubmits
      <4>2. ring'[j].cookie = d
        BY <3>2, <4>1 DEF Submit
      <4>3. d # c
        BY <2>3, <4>1, SubmitCookie
      <4> QED  BY <2>1, <4>2, <4>3 DEF c
    <3> QED  BY <2>5, <3>1, <3>2, RingStep
  <2> QED  BY <2>4, <2>5
<1> QED  BY <1>1, <1>2, <1>3 DEF ClosedInv

LEMMA LossStep ==
    ASSUME TypeInv, NEW t \in Threads, Step(t), losses' = 0
    PROVE  losses = 0
<1>0. losses \in Nat
  BY DEF TypeInv
<1>1. losses' = losses \/ losses' = losses + 1
  <2>1. Arrive(t) \/ GoAccept(t) \/ Reserve(t) \/ Mark(t) \/ Free(t) => losses' = losses
    BY DEF Arrive, GoAccept, Reserve, Mark, Free, Rest
  <2>2. Advance(t) => losses' = losses \/ losses' = losses + 1
    BY DEF Advance, Adds
  <2>3. Leave(t) => losses' = losses \/ losses' = losses + 1
    BY DEF Leave, Adds
  <2>4. ASSUME NEW f \in Fds PROVE BeginClose(t, f) \/ (\E s \in Socks : Install(t, f, s)) => losses' = losses
    BY DEF BeginClose, Rest, Install
  <2>5. ASSUME NEW e \in Elems PROVE Insert(t, e) => losses' = losses
    BY DEF Insert
  <2>6. ASSUME NEW c \in Socks \cup {NONE} PROVE Submit(t, c) => losses' = losses
    BY DEF Submit
  <2>7. ASSUME NEW f \in Fds PROVE Closes(t, f) => losses' = losses \/ losses' = losses + 1
    BY DEF Closes
  <2>8. Release(t) => losses' = losses \/ losses' = losses + 1
    BY <2>7 DEF Release
  <2>9. Exit(t) => losses' = losses \/ losses' = losses + 1
    BY DEF Exit, Closes
  <2> QED  BY <2>1, <2>2, <2>3, <2>4, <2>5, <2>6, <2>8, <2>9 DEF Step
<1> QED  BY <1>0, <1>1, SMT

LEMMA SentStep ==
    ASSUME TypeInv, TypeInv', CallsInv, HeldInv, SlotInv, FreedInv, SentInv, NEW t \in Threads, Step(t)
    PROVE  SentInv'
<1>1. ASSUME NEW i \in DOMAIN ring', ring'[i].kind = "open", ring'[i].state = "sent"
      PROVE  ring'[i].cookie \in cookies'
  <2>0. cookies \subseteq cookies'
    BY StepFrame
  <2>1. i \in DOMAIN ring
    BY <1>1, RingStep DEF Grows, Added
  <2>2. CASE ring'[i] = ring[i]
    BY <1>1, <2>0, <2>1, <2>2 DEF SentInv
  <2>3. CASE thr[t].at = "fill" /\ i = thr[t].slot
    <3>1. PICK c \in Socks \cup {NONE} : Submit(t, c)
      BY <2>3, FillSubmits
    <3>2. ring'[i].cookie = c /\ c # NONE
      BY <1>1, <2>3, <3>1 DEF Submit
    <3>3. c \in cookies
      BY <3>1, <3>2, SubmitCookie DEF CookieOf
    <3> QED  BY <2>0, <3>2, <3>3
  <2> QED  BY <2>1, <2>2, <2>3, RingStep
<1> QED  BY <1>1 DEF SentInv

LEMMA IgnoreStep ==
    ASSUME TypeInv, IgnoreInv, scope.strategy # "ignore", NEW t \in Threads, Step(t)
    PROVE  IgnoreInv'
<1>1. ASSUME NEW e \in Elems, conn'[e].ignore, ~conn'[e].is_open
      PROVE  IgnoredAtOpen(scope, conn'[e].function)
  <2>1. CASE Kept(e)
    BY <1>1, <2>1 DEF Kept, IgnoreInv
  <2>2. CASE Insert(t, e)
    BY <1>1, <2>2 DEF Insert
  <2>3. CASE Mark(t) /\ e = thr[t].elem
    BY <1>1, <2>3 DEF Mark
  <2>4. ASSUME NEW c \in Socks \cup {NONE}, Submit(t, c), e = thr[t].elem
        PROVE  IgnoredAtOpen(scope, conn'[e].function)
    <3>1. /\ conn'[e].function = conn[e].function /\ conn'[e].is_open = conn[e].is_open
          /\ conn'[e].ignore = (conn[e].ignore \/ IgnoredAtOpen(scope, conn[e].function))
      BY <2>4 DEF Submit
    <3>2. conn[e].ignore => IgnoredAtOpen(scope, conn[e].function)
      BY <1>1, <3>1 DEF IgnoreInv
    <3> QED  BY <1>1, <3>1, <3>2
  <2> QED  BY <2>1, <2>2, <2>3, <2>4, ConnStep
<1>2. scope' = scope
  BY StepFrame
<1> QED  BY <1>1, <1>2 DEF IgnoreInv, IgnoredAtOpen

\* The connection that the map has for f is the one it had, or a new one.
LEMMA MapFunction ==
    ASSUME TypeInv, TypeInv', CallsInv, LeftInv, NEW t \in Threads, Step(t), NEW f \in Fds,
           conn_info_map'[f] # NONE
    PROVE  /\ conn_info_map'[f] \in Elems
           /\ \/ /\ conn_info_map[f] = conn_info_map'[f]
                 /\ conn'[conn_info_map'[f]].function = conn[conn_info_map'[f]].function
                 /\ conn[conn_info_map'[f]].is_open => conn'[conn_info_map'[f]].is_open
              \/ /\ Insert(t, conn_info_map'[f]) /\ f = thr[t].fd
                 /\ thr[t].op = "connect" => conn'[conn_info_map'[f]].function = "client"
<1> DEFINE m == conn_info_map'[f]
<1>1. m \in Elems
  BY DEF TypeInv
<1>2. CASE Insert(t, m)
  <2>1. conn_info_map[f] # m
    BY <1>2 DEF Insert, FreeElems
  <2>2. f = thr[t].fd
    BY <2>1, MapStep
  <2>3. thr[t].op = "connect" => conn'[m].function = "client"
    BY <1>2, SMT DEF Insert
  <2> QED  BY <1>1, <1>2, <2>2, <2>3
<1>3. CASE ~Insert(t, m)
  <2>1. conn_info_map[f] = m
    BY <1>3, MapStep
  <2>2. Kept(m) \/ (Mark(t) /\ m = thr[t].elem) =>
          conn'[m].function = conn[m].function /\ (conn[m].is_open => conn'[m].is_open)
    BY DEF Kept, Mark
  <2>3. ASSUME NEW c \in Socks \cup {NONE}, Submit(t, c), m = thr[t].elem
        PROVE  conn'[m].function = conn[m].function /\ (conn[m].is_open => conn'[m].is_open)
    BY <2>3 DEF Submit
  <2> QED  BY <1>1, <1>3, <2>1, <2>2, <2>3, ConnStep
<1> QED  BY <1>2, <1>3

\* Who inserts a connection on a descriptor that has one, or that others use, connects.
LEMMA InsertConnects ==
    ASSUME TypeInv, CallsInv, HeldInv, AcceptInv, ClientInv, NEW t \in Threads, NEW e, Insert(t, e),
           \/ conn_info_map[thr[t].fd] # NONE
           \/ \E u \in Threads : u # t /\ thr[u].fd = thr[t].fd
    PROVE  /\ thr[t].op = "connect" /\ thr[t].at = "ret_addr"
           /\ conn_info_map[thr[t].fd] # NONE => conn[conn_info_map[thr[t].fd]].function = "client"
<1>1. thr[t].at = "ret_addr" /\ thr[t].at \in Using
  BY DEF Insert, Using
<1>2. thr[t].op \in AddrCalls
  BY <1>1 DEF CallsInv, CallOf
<1>3. thr[t].op \notin Accepts
  BY <1>1 DEF AcceptInv
<1>4. thr[t].op = "connect"
  BY <1>2, <1>3 DEF AddrCalls
<1> QED  BY <1>1, <1>4 DEF ClientInv

LEMMA ClientStep ==
    ASSUME TypeInv, TypeInv', CallsInv, HeldInv, LeftInv, FreedInv, AcceptInv, ClientInv,
           NEW t \in Threads, Step(t)
    PROVE  ClientInv'
<1>0. \A u \in Threads : u # t => thr'[u] = thr[u]
  BY StepFrame DEF Only
<1>n. NONE \notin Fds /\ NONE \notin Socks /\ NONE \notin Elems
  BY SocketAssumption
<1>u. \A u \in Threads : thr[u].at \in Using => thr[u].fd \in Fds /\ fdtab[thr[u].fd] # NONE
  BY <1>n, ZenonT(30) DEF CallsInv, CallOf
<1>c. {"tcp_connect", "ret_addr"} \subseteq Using
  BY DEF Using
\* The connection that a call of connect finds on its descriptor.
<1>1. ASSUME NEW u \in Threads, thr'[u].at \in {"tcp_connect", "ret_addr"}, thr'[u].op = "connect",
             conn_info_map'[thr'[u].fd] # NONE
      PROVE  conn'[conn_info_map'[thr'[u].fd]].function = "client"
  <2>1. ASSUME thr[u].at \in {"tcp_connect", "ret_addr"}, thr[u].op = "connect", thr'[u].fd = thr[u].fd
        PROVE  conn'[conn_info_map'[thr'[u].fd]].function = "client"
    <3> DEFINE f == thr[u].fd
    <3>0. f \in Fds /\ thr[u].at \in Using
      BY <1>c, <1>u, <2>1
    <3>1. CASE /\ conn_info_map[f] = conn_info_map'[f]
               /\ conn'[conn_info_map'[f]].function = conn[conn_info_map'[f]].function
      BY <1>1, <2>1, <3>1 DEF ClientInv
    <3>2. CASE /\ Insert(t, conn_info_map'[f]) /\ f = thr[t].fd
               /\ thr[t].op = "connect" => conn'[conn_info_map'[f]].function = "client"
      <4>1. CASE u = t
        BY <2>1, <3>2, <4>1
      <4>2. CASE u # t
        <5>1. thr[t].op = "connect"
          BY <3>2, <4>2, InsertConnects
        <5> QED  BY <2>1, <3>2, <5>1
      <4> QED  BY <4>1, <4>2
    <3> QED  BY <1>1, <2>1, <3>0, <3>1, <3>2, MapFunction
  <2>2. CASE u # t
    BY <1>0, <1>1, <2>1, <2>2
  <2>3. CASE u = t
    <3>1. CASE Arrive(t)
      <4>1. thr'[t].at = "tcp_connect"
        BY <1>1, <2>3, <3>1 DEF Arrive, IoCalls, ReadCalls, WriteCalls
      <4>2. UNCHANGED <<conn_info_map, conn>>
        BY <3>1 DEF Arrive, Quiet
      <4> QED  BY <1>1, <2>3, <3>1, <4>1, <4>2 DEF Arrive
    <3>2. CASE Advance(t) /\ thr[t].at = "tcp_connect"
      BY <1>1, <2>1, <2>3, <3>2 DEF Advance, Same
    <3>3. ASSUME NEW s \in Socks, Install(t, thr'[t].fd, s), thr[t].at = "accept" PROVE FALSE
      BY <1>1, <2>3, <3>3 DEF Install, Home, CallsInv, CallOf, Accepts
    <3>4. thr'[t].at = "tcp_connect" /\ ~Arrive(t) => FALSE
      <4>1. ASSUME thr'[t].at = "tcp_connect" PROVE ~Home(t) /\ ~End(t)
        BY <4>1 DEF Home, End
      <4>2. ASSUME thr'[t].at = "tcp_connect"
            PROVE  ~Advance(t) /\ ~Leave(t) /\ ~GoAccept(t) /\ ~Reserve(t) /\ ~Mark(t)
        BY <4>1, <4>2 DEF Advance, Leave, GoAccept, Reserve, Mark
      <4>3. ASSUME thr'[t].at = "tcp_connect", NEW f \in Fds
            PROVE  ~BeginClose(t, f) /\ \A s \in Socks : ~Install(t, f, s)
        BY <4>1, <4>3 DEF Install, BeginClose
      <4>4. ASSUME thr'[t].at = "tcp_connect", NEW c \in Socks \cup {NONE} PROVE ~Submit(t, c)
        BY <4>1, <4>4 DEF Submit
      <4>5. ASSUME thr'[t].at = "tcp_connect" PROVE ~Free(t) /\ ~Release(t) /\ ~Exit(t)
        BY <4>1, <4>5 DEF Free, Release, Exit, Released
      <4>6. ASSUME thr'[t].at = "tcp_connect", NEW e \in Elems PROVE ~Insert(t, e)
        BY <4>6 DEF Insert
      <4> QED  BY <4>2, <4>3, <4>4, <4>5, <4>6 DEF Step
    <3> QED  BY <1>1, <2>3, <3>1, <3>2, <3>3, <3>4, Where
  <2> QED  BY <2>2, <2>3
\* The connection that a thread holds.
<1>2. ASSUME NEW u \in Threads, thr'[u].at \in Holding
      PROVE  \/ conn_info_map'[thr'[u].fd] = thr'[u].elem
             \/ /\ conn_info_map'[thr'[u].fd] # NONE
                /\ conn'[conn_info_map'[thr'[u].fd]].function = "client"
                /\ conn'[thr'[u].elem].function = "client"
  <2>1. ASSUME thr[u].at \in Holding, thr'[u].elem = thr[u].elem, thr'[u].fd = thr[u].fd
        PROVE  \/ conn_info_map'[thr'[u].fd] = thr'[u].elem
               \/ /\ conn_info_map'[thr'[u].fd] # NONE
                  /\ conn'[conn_info_map'[thr'[u].fd]].function = "client"
                  /\ conn'[thr'[u].elem].function = "client"
    <3> DEFINE f == thr[u].fd
               e == thr[u].elem
               m == conn_info_map'[f]
    <3>0. f \in Fds /\ fdtab[f] # NONE /\ e \in Elems /\ conn'[e].function = conn[e].function
      BY <1>u, <2>1, Apart, HeldConn DEF HeldInv
    <3>1. conn_info_map[f] = e \/ (conn_info_map[f] # NONE /\ conn[conn_info_map[f]].function = "client"
                                     /\ conn[e].function = "client")
      BY <2>1 DEF ClientInv
    <3>2. conn_info_map[f] # NONE
      BY <1>n, <3>0, <3>1
    <3>3. ~(thr[t].at \in Released /\ f = thr[t].fd)
      BY <3>0 DEF FreedInv
    <3>4. m # NONE
      BY <1>n, <3>0, <3>2, <3>3, MapStep
    <3>5. CASE conn_info_map[f] = m /\ conn'[m].function = conn[m].function
      BY <2>1, <3>0, <3>1, <3>4, <3>5
    <3>6. CASE /\ Insert(t, m) /\ f = thr[t].fd
               /\ thr[t].op = "connect" => conn'[m].function = "client"
      <4>1. thr[t].op = "connect" /\ conn[conn_info_map[f]].function = "client"
        BY <3>2, <3>6, InsertConnects
      <4>2. conn'[m].function = "client" /\ conn[e].function = "client"
        BY <3>1, <3>6, <4>1
      <4> QED  BY <2>1, <3>0, <3>4, <4>2
    <3> QED  BY <3>0, <3>4, <3>5, <3>6, MapFunction
  <2>2. CASE u # t
    BY <1>0, <1>2, <2>1, <2>2
  <2>3. CASE u = t
    <3>0. thr'[t].fd = thr[t].fd /\ thr[t].fd \in Fds
      BY <1>2, <1>u, <2>3, HoldsNext DEF Same
    <3>1. CASE thr[t].at \in Holding /\ thr'[t].elem = thr[t].elem
      BY <2>1, <2>3, <3>0, <3>1
    <3>2. CASE Advance(t) /\ thr'[t].elem = conn_info_map[thr[t].fd]
      BY <2>3, <3>0, <3>2 DEF Advance, Quiet
    <3>3. CASE Insert(t, thr'[t].elem)
      BY <2>3, <3>0, <3>3 DEF Insert, TypeInv
    <3> QED  BY <1>2, <2>3, <3>1, <3>2, <3>3, HoldsNext
  <2> QED  BY <2>2, <2>3
<1> QED  BY <1>1, <1>2 DEF ClientInv

\* A thread that has a connection to open goes on until it is open, unless it is to be ignored.
LEMMA GoesOn ==
    ASSUME TypeInv, CallsInv, HeldInv, FreedInv, IgnoreInv, NEW t \in Threads, Step(t),
           losses' = 0, scope.strategy # "ignore",
           thr[t].at \in Opening, thr[t].sock \in cookies,
           ~IgnoredAtOpen(scope, conn[thr[t].elem].function)
    PROVE  conn'[thr[t].elem].is_open \/ (thr'[t].at \in Opening /\ thr'[t].elem = thr[t].elem)
<1> DEFINE e == thr[t].elem
<1>0. e \in Elems /\ cookies \subseteq Socks /\ NONE \notin Socks
  BY Apart, SocketAssumption DEF HeldInv, TypeInv
<1>1. CASE Advance(t)
  BY <1>0, <1>1 DEF Advance, Keeps
<1>2. CASE Leave(t)
  BY <1>0, <1>2 DEF Leave, Keeps
<1>3. CASE Reserve(t)
  BY <1>3 DEF Reserve, Opening
<1>4. CASE Mark(t)
  BY <1>4 DEF Mark
<1>5. ASSUME NEW c \in Socks \cup {NONE}, Submit(t, c)
      PROVE  conn'[e].is_open \/ (thr'[t].at \in Opening /\ thr'[t].elem = e)
  <2>1. c # NONE
    BY <1>0, <1>5, SubmitCookie DEF CookieOf
  <2>2. CASE conn[e].is_open
    BY <1>5, <2>2 DEF Submit
  <2>3. CASE ~conn[e].is_open
    <3>1. ~(conn[e].ignore \/ IgnoredAtOpen(scope, conn[e].function))
      BY <1>0, <2>3 DEF IgnoreInv
    <3>2. thr'[t].at = "mark" /\ thr'[t].elem = e
      BY <1>5, <2>1, <3>1 DEF Submit
    <3> QED  BY <3>2 DEF Opening
  <2> QED  BY <2>2, <2>3
<1>6. thr[t].at \notin {"user", "accept", "ret_addr", "close", "fput", "ret_close"}
  BY DEF Opening
<1>7. ~Arrive(t) /\ ~GoAccept(t) /\ ~Free(t) /\ ~Release(t) /\ ~Exit(t)
  BY <1>6 DEF Arrive, GoAccept, Free, Release, Exit
<1>8. \A f \in Fds : ~BeginClose(t, f) /\ \A s \in Socks : ~Install(t, f, s)
  BY <1>6 DEF BeginClose, Install
<1>9. \A x \in Elems : ~Insert(t, x)
  BY <1>6 DEF Insert
<1> QED  BY <1>1, <1>2, <1>3, <1>4, <1>5, <1>7, <1>8, <1>9 DEF Step

\* WillOpen(e) in the next state.
WillNext(e) ==
    conn'[e].is_open \/ \E u \in Threads : thr'[u].at \in Opening /\ thr'[u].elem = e

LEMMA WillStays ==
    ASSUME TypeInv, TypeInv', CallsInv, HeldInv, LeftInv, FreedInv, IgnoreInv, NEW t \in Threads, Step(t),
           losses' = 0, scope.strategy # "ignore", NEW f \in Fds, conn_info_map'[f] # NONE,
           conn_info_map[f] = conn_info_map'[f], WillOpen(conn_info_map[f]),
           ~IgnoredAtOpen(scope, conn[conn_info_map[f]].function),
           thr[t].at \in Opening /\ thr[t].elem = conn_info_map[f] => thr[t].sock \in cookies
    PROVE  WillNext(conn_info_map[f])
<1> DEFINE m == conn_info_map[f]
<1>0. \A u \in Threads : u # t => thr'[u] = thr[u]
  BY StepFrame DEF Only
<1>1. CASE conn[m].is_open
  <2>1. ~Insert(t, m)
    BY DEF Insert, FreeElems
  <2>2. conn'[m].is_open
    BY <1>1, <2>1, MapFunction
  <2> QED  BY <2>2 DEF WillNext
<1>2. ASSUME NEW u \in Threads, thr[u].at \in Opening, thr[u].elem = m PROVE WillNext(m)
  <2>1. CASE u # t
    BY <1>0, <1>2, <2>1 DEF WillNext
  <2>2. CASE u = t
    <3>1. conn'[m].is_open \/ (thr'[t].at \in Opening /\ thr'[t].elem = m)
      BY <1>2, <2>2, GoesOn
    <3> QED  BY <3>1 DEF WillNext
  <2> QED  BY <2>1, <2>2
<1> QED  BY <1>1, <1>2 DEF WillOpen

LEMMA WillStep ==
    ASSUME TypeInv, TypeInv', CallsInv, HeldInv, LeftInv, FreedInv, AcceptInv, KnownInv, IgnoreInv, WillInv,
           NEW t \in Threads, Step(t), losses' = 0, scope.strategy # "ignore",
           NEW f \in Fds, conn_info_map'[f] # NONE, conn'[conn_info_map'[f]].function = "client",
           ~IgnoredAtOpen(scope, "client")
    PROVE  WillNext(conn_info_map'[f])
<1> DEFINE m == conn_info_map'[f]
<1>1. CASE Insert(t, m)
  <2>1. thr'[t].at \in Opening /\ thr'[t].elem = m
    BY <1>1 DEF Insert, Opening
  <2> QED  BY <2>1 DEF WillNext
<1>2. CASE ~Insert(t, m)
  <2>1. conn_info_map[f] = m /\ conn[m].function = "client"
    BY <1>2, MapFunction
  <2>2. WillOpen(conn_info_map[f]) /\ ~IgnoredAtOpen(scope, conn[conn_info_map[f]].function)
    BY <2>1 DEF WillInv
  <2>3. ASSUME thr[t].at \in Opening, thr[t].elem = conn_info_map[f] PROVE thr[t].sock \in cookies
    <3>1. thr[t].op \notin Accepts
      BY <2>1, <2>3, Apart DEF AcceptInv
    <3> QED  BY <2>3, <3>1 DEF KnownInv
  <2> QED  BY <2>1, <2>2, <2>3, WillStays
<1> QED  BY <1>1, <1>2

\* process_close reports the connection that it removes.
LEMMA CloseSent ==
    ASSUME TypeInv, CallsInv, LeftInv, NEW t \in Threads, Step(t), losses' = 0, NEW f \in Fds,
           conn_info_map[f] \in Elems, conn[conn_info_map[f]].is_open, conn_info_map'[f] = NONE
    PROVE  \E i \in DOMAIN ring' :
             /\ ring'[i].kind = "close" /\ ring'[i].state = "sent"
             /\ ring'[i].cookie = conn[conn_info_map[f]].cookie
<1>0. NONE \notin Fds /\ NONE \notin Elems /\ losses = 0
  BY LossStep, SocketAssumption
<1>1. ASSUME NEW g \in Fds, Closes(t, g), conn_info_map'[f] # conn_info_map[f]
      PROVE  \E i \in DOMAIN ring' :
               /\ ring'[i].kind = "close" /\ ring'[i].state = "sent"
               /\ ring'[i].cookie = conn[conn_info_map[f]].cookie
  <2>1. g = f
    BY <1>1 DEF Closes, TypeInv
  <2>2. losses' # losses + 1
    BY <1>0, SMT
  <2>3. PICK ev \in Events :
          /\ ring' = Append(ring, ev) /\ ev.kind = "close" /\ ev.state = "sent"
          /\ ev.cookie = conn[conn_info_map[f]].cookie
    BY <1>1, <2>1, <2>2 DEF Closes
  <2>4. Len(ring) + 1 \in DOMAIN ring' /\ ring'[Len(ring) + 1] = ev
    BY <2>3, SMT DEF TypeInv
  <2> QED  BY <2>3, <2>4
<1>2. conn_info_map'[f] # conn_info_map[f]
  BY <1>0
<1>3. Release(t) => \E g \in Fds : Closes(t, g)
  BY <1>2 DEF Release
<1>4. Exit(t) => \E g \in Fds : Closes(t, g)
  <2>1. Exit(t) => thr[t].fd \in Fds
    BY DEF Exit, CallsInv, CallOf, Closing, Released
  <2> QED  BY <1>2, <2>1 DEF Exit
<1>5. Calm(t) => conn_info_map' = conn_info_map
  BY DEF Calm, Quiet
<1>6. \A g \in Fds : ~BeginClose(t, g) /\ \A s \in Socks : ~Install(t, g, s)
  BY <1>2 DEF BeginClose, Rest, Install
<1>7. ~Free(t)
  BY <1>2 DEF Free, Rest
<1>8. \A e \in Elems : ~Insert(t, e)
  BY <1>0, <1>2, ZenonT(30) DEF Insert, TypeInv
<1> QED  BY <1>1, <1>2, <1>3, <1>4, <1>5, <1>6, <1>7, <1>8, CalmSteps

\* Sent("close", c) in the next state.
ClosesNext(c) == {i \in DOMAIN ring' : ring'[i].state = "sent" /\ ring'[i].kind = "close" /\ ring'[i].cookie = c}

\* There is one record that closes a socket.
LEMMA CloseOnce ==
    ASSUME TypeInv', ClosedInv', NEW c, NEW i \in DOMAIN ring', ring'[i].kind = "close",
           ring'[i].state = "sent", ring'[i].cookie = c
    PROVE  ClosesNext(c) = {i}
<1>1. ASSUME NEW j \in ClosesNext(c), j # i PROVE FALSE
  <2>1. j \in DOMAIN ring' /\ ring'[j].state = "sent" /\ ring'[j].kind = "close" /\ ring'[j].cookie = c
    BY <1>1 DEF ClosesNext
  <2>2. i \in Nat /\ j \in Nat
    BY <2>1, SMT DEF TypeInv
  <2>3. j > i \/ i > j
    BY <1>1, <2>2, SMT
  <2> QED  BY <2>1, <2>3 DEF ClosedInv
<1> QED  BY <1>1 DEF ClosesNext

\* Live(c, f) in the next state.
LiveNext(c, f) ==
    /\ BehindNext(f, c)
    /\ conn_info_map'[f] # NONE
    /\ ~IgnoredAtOpen(scope, conn'[conn_info_map'[f]].function)
    /\ WillNext(conn_info_map'[f])

\* A socket that is reported has a connection to close.
LEMMA NewLive ==
    ASSUME TypeInv, TypeInv', CallsInv, HeldInv, LeftInv, FreedInv, AcceptInv, KnownInv, IgnoreInv,
           ClientInv, WillInv, NEW t \in Threads, Step(t), losses' = 0, scope.strategy # "ignore",
           NEW c \in Socks, Submit(t, c), thr'[t].at = "mark"
    PROVE  \E f \in Fds : LiveNext(c, f)
<1> DEFINE f == thr[t].fd
           e == thr[t].elem
<1>0. NONE \notin Socks /\ NONE \notin Elems
  BY SocketAssumption
<1>1. /\ c = thr[t].sock /\ f \in Fds /\ fdtab[f] = c /\ thr[t].at \in Holding
  BY <1>0, SubmitCookie
<1>2. e \in Elems
  BY <1>1 DEF HeldInv
<1>3. ~End(t)
  BY DEF End, Home
<1>4. ~IgnoredAtOpen(scope, conn[e].function) /\ thr'[t].elem = e /\ conn'[e].function = conn[e].function
  BY <1>3 DEF Submit
<1>5. fdtab' = fdtab /\ conn_info_map' = conn_info_map
  BY DEF Submit, Quiet
<1>6. BehindNext(f, c)
  BY <1>1, <1>5 DEF BehindNext
<1>7. CASE conn_info_map[f] = e
  <2>1. WillNext(e)
    BY <1>4 DEF WillNext, Opening
  <2> QED  BY <1>0, <1>1, <1>2, <1>4, <1>5, <1>6, <1>7, <2>1 DEF LiveNext
<1>8. CASE /\ conn_info_map[f] # NONE /\ conn[conn_info_map[f]].function = "client"
           /\ conn[e].function = "client"
  <2>1. thr[t].at # "ret_addr"
    BY DEF Submit
  <2>2. ~Insert(t, conn_info_map'[f])
    BY <2>1 DEF Insert
  <2>3. conn'[conn_info_map'[f]].function = "client"
    BY <1>1, <1>5, <1>8, <2>2, MapFunction
  <2>4. ~IgnoredAtOpen(scope, "client") /\ conn_info_map'[f] # NONE
    BY <1>4, <1>5, <1>8
  <2>5. WillNext(conn_info_map'[f])
    BY <1>1, <2>3, <2>4, WillStep
  <2> QED  BY <1>1, <1>6, <2>3, <2>4, <2>5 DEF LiveNext
<1> QED  BY <1>1, <1>7, <1>8 DEF ClientInv

\* The connection of a reported socket stays, or is replaced, or the record that closes it is sent.
LEMMA LiveStays ==
    ASSUME TypeInv, TypeInv', CallsInv, HeldInv, LeftInv, OpenInv, OpenerInv, OneOpener, FreedInv,
           CookieInv, AcceptInv, ClosedInv', SentInv, IgnoreInv, ClientInv,
           NEW t \in Threads, Step(t), losses' = 0, scope.strategy # "ignore",
           NEW c \in Socks, OpenSent(c), NEW f \in Fds, Live(c, f)
    PROVE  (\E i \in DOMAIN ring' : ClosesNext(c) = {i}) \/ LiveNext(c, f)
<1> DEFINE m == conn_info_map[f]
<1>0. NONE \notin Socks /\ NONE \notin Elems /\ m \in Elems
  BY SocketAssumption DEF Live, TypeInv
<1>l. Behind(f, c) /\ ~IgnoredAtOpen(scope, conn[m].function) /\ WillOpen(m)
  BY DEF Live
<1>1. CASE conn_info_map'[f] = m
  <2>0. conn_info_map'[f] # NONE
    BY <1>0, <1>1
  <2>1. BehindNext(f, c)
    BY <1>l, <2>0, BehindStays
  <2>2. ~Insert(t, conn_info_map'[f])
    BY <1>1 DEF Insert, FreeElems
  <2>3. conn'[conn_info_map'[f]].function = conn[m].function
    BY <1>1, <2>0, <2>2, MapFunction
  <2>4. ASSUME thr[t].at \in Opening, thr[t].elem = m PROVE thr[t].sock \in cookies
    <3>1. f = thr[t].fd
      BY <1>0, <2>4 DEF HeldInv
    <3>2. fdtab[f] = thr[t].sock /\ thr[t].sock # NONE
      BY <1>0, <2>4, <3>1, Apart DEF CallsInv, CallOf
    <3>3. c = thr[t].sock
      BY <1>l, <3>2 DEF Behind
    <3> QED  BY <3>3 DEF OpenSent, SentInv
  <2>5. WillNext(m)
    BY <1>l, <1>1, <2>0, <2>4, WillStays
  <2> QED  BY <1>l, <1>1, <2>0, <2>1, <2>3, <2>5 DEF LiveNext
<1>2. CASE conn_info_map'[f] = NONE /\ thr[t].at \in Released /\ f = thr[t].fd
  <2>1. fdtab[f] = NONE
    BY <1>2 DEF FreedInv
  <2>2. conn[m].is_open
    <3>1. ASSUME NEW u \in Threads, thr[u].at \in Opening, thr[u].elem = m PROVE FALSE
      <4>1. f = thr[u].fd
        BY <1>0, <3>1 DEF HeldInv
      <4> QED  BY <1>0, <2>1, <3>1, <4>1, Apart DEF CallsInv, CallOf
    <3> QED  BY <1>l, <3>1 DEF WillOpen
  <2>3. conn[m].cookie = thr[t].sock
    BY <1>0, <1>2, <2>2, ClosesOwn
  <2>4. c = thr[t].sock
    <3>1. \A u \in Threads : thr[u].at \in Released => u = t
      BY <1>2, OneCloser, Apart
    <3> QED  BY <1>0, <1>l, <2>1, <3>1 DEF Behind
  <2>5. PICK i \in DOMAIN ring' :
          ring'[i].kind = "close" /\ ring'[i].state = "sent" /\ ring'[i].cookie = c
    BY <1>0, <1>2, <2>2, <2>3, <2>4, CloseSent
  <2> QED  BY <2>5, CloseOnce
<1>3. CASE f = thr[t].fd /\ conn_info_map'[f] \in Elems /\ Insert(t, conn_info_map'[f])
  <2>0. conn_info_map'[f] # NONE /\ conn_info_map[thr[t].fd] # NONE
    BY <1>0, <1>3
  <2>1. thr[t].op = "connect" /\ conn[m].function = "client"
    BY <1>3, <2>0, InsertConnects
  <2>2. conn'[conn_info_map'[f]].function = "client"
    BY <1>3, <2>1, SMT DEF Insert
  <2>3. BehindNext(f, c)
    BY <1>l, <2>0, BehindStays
  <2>4. WillNext(conn_info_map'[f])
    BY <1>3 DEF Insert, WillNext, Opening
  <2>5. ~IgnoredAtOpen(scope, "client")
    BY <1>l, <2>1
  <2> QED  BY <2>0, <2>2, <2>3, <2>4, <2>5 DEF LiveNext
<1> QED  BY <1>1, <1>2, <1>3, MapStep

LEMMA LiveStep ==
    ASSUME TypeInv, TypeInv', CallsInv, HeldInv, LeftInv, SlotInv, OpenInv, OpenerInv, OneOpener, FreedInv,
           CookieInv, AcceptInv, KnownInv, ClosedInv', SentInv, IgnoreInv, ClientInv, WillInv, LiveInv,
           NEW t \in Threads, Step(t), losses' = 0, scope.strategy # "ignore", NEW c \in Socks, SentNext(c)
    PROVE  (\E i \in DOMAIN ring' : ClosesNext(c) = {i}) \/ \E f \in Fds : LiveNext(c, f)
<1>0. NONE \notin Socks
  BY SocketAssumption
<1>1. CASE OpenSent(c)
  <2>1. ASSUME NEW i \in DOMAIN ring, Sent("close", c) = {i} PROVE \E k \in DOMAIN ring' : ClosesNext(c) = {k}
    <3>1. ring[i].state = "sent" /\ ring[i].kind = "close" /\ ring[i].cookie = c
      BY <2>1 DEF Sent
    <3>2. ring'[i] = ring[i] /\ i \in DOMAIN ring'
      BY <3>1, CloseKept, RingStep DEF Grows
    <3> QED  BY <3>1, <3>2, CloseOnce
  <2>2. ASSUME NEW f \in Fds, Live(c, f)
        PROVE  (\E i \in DOMAIN ring' : ClosesNext(c) = {i}) \/ LiveNext(c, f)
    BY <1>1, <2>2, LiveStays
  <2> QED  BY <1>1, <2>1, <2>2 DEF LiveInv
<1>2. CASE ~OpenSent(c)
  <2>1. PICK j \in DOMAIN ring' : ring'[j].state = "sent" /\ ring'[j].kind = "open" /\ ring'[j].cookie = c
    BY DEF SentNext
  <2>2. j \in DOMAIN ring
    BY <2>1, RingStep DEF Grows, Added
  <2>3. ring'[j] # ring[j]
    BY <1>2, <2>1, <2>2 DEF OpenSent
  <2>4. thr[t].at = "fill" /\ j = thr[t].slot
    BY <2>2, <2>3, RingStep
  <2>5. PICK d \in Socks \cup {NONE} : Submit(t, d)
    BY <2>4, FillSubmits
  <2>6. d = c
    BY <2>1, <2>4, <2>5 DEF Submit
  <2>7. thr'[t].at = "mark"
    <3>1. ring'[thr[t].slot].state # "void"
      BY <2>1, <2>4, SMT
    <3> QED  BY <2>5, <3>1 DEF Submit
  <2> QED  BY <2>5, <2>6, <2>7, NewLive
<1> QED  BY <1>1, <1>2

LEMMA OnceStep ==
    ASSUME SocketInv, TypeInv', OpenerInv, OneOpener, OwnInv, ClosedInv', OnceInv, NEW t \in Threads, Step(t)
    PROVE  OnceInv'
<1>0. scope' = scope
  BY StepFrame
<1> SUFFICES ASSUME losses' = 0, scope.strategy # "ignore"
             PROVE  SentInv' /\ IgnoreInv' /\ ClientInv' /\ WillInv' /\ LiveInv'
  BY <1>0 DEF OnceInv
<1>1. /\ TypeInv /\ CallsInv /\ HeldInv /\ LeftInv /\ SlotInv /\ OpenInv
      /\ FreedInv /\ CookieInv /\ AcceptInv /\ KnownInv
  BY DEF SocketInv, OwnInv
<1>2. SentInv /\ IgnoreInv /\ ClientInv /\ WillInv /\ LiveInv
  BY <1>1, LossStep DEF OnceInv
<1>3. SentInv' /\ IgnoreInv' /\ ClientInv'
  BY <1>1, <1>2, SentStep, IgnoreStep, ClientStep
<1>4. WillInv'
  <2>1. ASSUME NEW f \in Fds, conn_info_map'[f] # NONE, conn'[conn_info_map'[f]].function = "client",
               ~IgnoredAtOpen(scope, "client")
        PROVE  WillNext(conn_info_map'[f])
    BY <1>1, <1>2, <2>1, WillStep
  <2> QED  BY <1>0, <2>1 DEF WillInv, WillOpen, WillNext
<1>5. LiveInv'
  <2>1. ASSUME NEW c \in Socks, SentNext(c)
        PROVE  (\E i \in DOMAIN ring' : ClosesNext(c) = {i}) \/ \E f \in Fds : LiveNext(c, f)
    BY <1>1, <1>2, <2>1, LiveStep
  <2>2. ASSUME NEW c \in Socks, NEW f \in Fds, LiveNext(c, f) PROVE Live(c, f)'
    BY <1>0, <2>2 DEF Live, LiveNext, Behind, BehindNext, WillOpen, WillNext
  <2>3. ASSUME NEW c \in Socks PROVE Sent("close", c)' = ClosesNext(c) /\ (OpenSent(c)' => SentNext(c))
    BY DEF Sent, ClosesNext, OpenSent, SentNext
  <2> QED  BY <2>1, <2>2, <2>3 DEF LiveInv
<1> QED  BY <1>3, <1>4, <1>5

-----------------------------------------------------------------------------
\* The actions are such steps

LEMMA ThreadMoves ==
    ASSUME TypeInv, NEW t \in Threads, NEW r \in ThreadRecs, thr' = [thr EXCEPT ![t] = r]
    PROVE  thr' \in [Threads -> ThreadRecs] /\ thr'[t] = r /\ Only(t)
BY DEF TypeInv, Only

LEMMA IdleRec == 
    Idle \in ThreadRecs /\ Idle.at = "user" /\ Idle.op = "none" /\ Idle.fd = NONE /\ Idle.sock = NONE
      /\ Idle.elem = NONE
BY SMT DEF Idle, ThreadRecs, Places, Protocols

\* A thread returns from its call.
LEMMA ReturnHome ==
    ASSUME TypeInv, NEW t \in Threads, Return(t)
    PROVE  thr' \in [Threads -> ThreadRecs] /\ Home(t) /\ Only(t)
BY IdleRec, ThreadMoves DEF Return, Home

LEMMA EnterConnectShape ==
    ASSUME TypeInv, NEW t \in Threads, NEW f \in Fds, EnterConnect(t, f)
    PROVE  TypeInv' /\ Arrive(t)
<1> DEFINE r == [Idle EXCEPT !.at = "tcp_connect", !.op = "connect", !.fd = f, !.sock = fdtab[f]]
<1>0. fdtab[f] \in Socks
  BY DEF EnterConnect, Usable, TypeInv
<1>1. thr' = [thr EXCEPT ![t] = r]
  BY DEF EnterConnect, Begin
<1>2. /\ r \in ThreadRecs /\ r.at = "tcp_connect" /\ r.op = "connect" /\ r.fd = f /\ r.sock = fdtab[f]
      /\ r.elem = NONE
  BY <1>0 DEF Idle, ThreadRecs, Places, Using, AddrCalls, Protocols
<1> HIDE DEF r
<1>3. thr' \in [Threads -> ThreadRecs] /\ thr'[t] = r /\ Only(t)
  BY <1>1, <1>2, ThreadMoves
<1>4. addr_args' = [addr_args EXCEPT ![f] = TRUE]
  BY DEF EnterConnect
<1>5. TypeInv'
  BY <1>3, <1>4, SMT DEF EnterConnect, TypeInv, kernelVars, fileVars, connVars, ringVars
<1>6. Arrive(t)
  BY <1>2, <1>3, <1>4
  DEF EnterConnect, TypeInv, kernelVars, fileVars, connVars, ringVars, Arrive, Quiet, Begin, Call
<1> QED  BY <1>5, <1>6

LEMMA EnterIOShape ==
    ASSUME TypeInv, NEW t \in Threads, NEW f \in Fds, NEW op \in IoCalls, NEW ops,
           EnterIO(t, f, op, ops)
    PROVE  TypeInv' /\ Arrive(t)
<1> DEFINE r == [Idle EXCEPT !.at = "io", !.op = op, !.fd = f, !.sock = fdtab[f]]
<1>0. fdtab[f] \in Socks /\ Dir(op) \in {"in", "out"}
  BY DEF EnterIO, Usable, TypeInv, Dir
<1>1. thr' = [thr EXCEPT ![t] = r]
  BY DEF EnterIO, Begin
<1>2. /\ r \in ThreadRecs /\ r.at = "io" /\ r.op = op /\ r.fd = f /\ r.sock = fdtab[f]
      /\ r.elem = NONE
  BY <1>0 DEF Idle, ThreadRecs, Places, Using, AddrCalls, Protocols
<1> HIDE DEF r
<1>3. thr' \in [Threads -> ThreadRecs] /\ thr'[t] = r /\ Only(t)
  BY <1>1, <1>2, ThreadMoves
<1>4. /\ io_args' \in [{"in", "out"} -> [Fds -> Threads \cup {NONE}]]
      /\ \A d \in {"in", "out"}, g \in Fds :
           io_args'[d][g] = IF d = Dir(op) /\ g = f THEN t ELSE io_args[d][g]
  BY <1>0, SMT DEF EnterIO, TypeInv
<1>5. TypeInv'
  BY <1>3, <1>4, SMT DEF EnterIO, TypeInv, kernelVars, fileVars, connVars, ringVars
<1>6. Arrive(t)
  BY <1>2, <1>3, <1>4, ZenonT(30)
  DEF EnterIO, TypeInv, kernelVars, fileVars, connVars, ringVars, Arrive, Quiet, Begin, Call
<1> QED  BY <1>5, <1>6

LEMMA EnterAcceptShape ==
    ASSUME TypeInv, NEW t \in Threads, NEW op \in Accepts, EnterAccept(t, op)
    PROVE  TypeInv' /\ GoAccept(t)
<1> DEFINE r == [Idle EXCEPT !.at = "accept", !.op = op]
<1>1. thr' = [thr EXCEPT ![t] = r]
  BY DEF EnterAccept, Begin
<1>2. r \in ThreadRecs /\ r.at = "accept" /\ r.op = op /\ r.fd = NONE /\ r.elem = NONE
  BY DEF Idle, ThreadRecs, Places, AddrCalls, Accepts, Protocols
<1> HIDE DEF r
<1>3. thr' \in [Threads -> ThreadRecs] /\ thr'[t] = r /\ Only(t)
  BY <1>1, <1>2, ThreadMoves
<1>4. addr_args' = [addr_args EXCEPT ![ListenFd] = TRUE]
  BY DEF EnterAccept
<1>5. TypeInv'
  BY <1>3, <1>4, SMT DEF EnterAccept, TypeInv, kernelVars, fileVars, connVars, ringVars
<1>6. Opener(t)
  BY DEF EnterAccept, Begin, Call, Opener, Accepts
<1>7. GoAccept(t)
  BY <1>2, <1>3, <1>4, <1>6, SocketAssumption
  DEF EnterAccept, TypeInv, kernelVars, fileVars, connVars, ringVars, GoAccept, Quiet, Begin, Call
<1> QED  BY <1>5, <1>7

LEMMA SocketShape ==
    ASSUME TypeInv, NEW t \in Threads, NEW f \in Fds, NEW s \in Socks, Socket(t, f, s)
    PROVE  TypeInv' /\ Install(t, f, s)
<1>1. thr' \in [Threads -> ThreadRecs] /\ Home(t) /\ Only(t)
  BY ReturnHome DEF Socket, Begin, Return
<1>2. Opener(t) /\ thr[t].at = "user"
  BY DEF Socket, Begin, Call, Opener
<1>3. TypeInv'
  BY <1>1, SMT DEF Socket, fd_install, TypeInv, argVars, connVars, ringVars
<1>4. Install(t, f, s)
  BY <1>1, <1>2 DEF Socket, Install, argVars, connVars, ringVars
<1> QED  BY <1>3, <1>4

LEMMA AcceptedShape ==
    ASSUME TypeInv, NEW t \in Threads, NEW f \in Fds, NEW s \in Socks, Accepted(t, f, s), HeldInv
    PROVE  TypeInv' /\ Install(t, f, s)
<1> DEFINE r == [thr[t] EXCEPT !.at = "ret_addr", !.fd = f, !.sock = s]
<1>0. thr[t] \in ThreadRecs /\ thr[t].at = "accept" /\ thr[t].elem = NONE
  BY DEF Accepted, TypeInv, HeldInv, Holding, Opening, Processing, ThreadRecs
<1>1. thr' = [thr EXCEPT ![t] = r]
  BY <1>0 DEF Accepted, TypeInv
<1>2. r \in ThreadRecs /\ r.at = "ret_addr" /\ r.op = thr[t].op /\ r.fd = f /\ r.sock = s /\ r.elem = NONE
  BY <1>0 DEF ThreadRecs, Places, Using
<1> HIDE DEF r
<1>3. thr' \in [Threads -> ThreadRecs] /\ thr'[t] = r /\ Only(t)
  BY <1>1, <1>2, ThreadMoves
<1>4. TypeInv'
  BY <1>3, SMT DEF Accepted, fd_install, TypeInv, argVars, connVars, ringVars
<1>5. Install(t, f, s)
  BY <1>0, <1>2, <1>3 DEF Accepted, Install, argVars, connVars, ringVars
<1> QED  BY <1>4, <1>5

LEMMA PeekShape ==
    ASSUME TypeInv, CallsInv, NEW t \in Threads, NEW f \in Fds, Peek(t, f)
    PROVE  TypeInv' /\ Leave(t)
<1>1. thr' \in [Threads -> ThreadRecs] /\ Home(t) /\ Only(t)
  BY ReturnHome DEF Peek, Begin, Return
<1>2. thr[t].at = "user" /\ thr[t].fd = NONE /\ fdtab[f] \in Socks
  BY DEF Peek, Begin, Call, CallsInv, CallOf, Usable, TypeInv
<1>3. TypeInv'
  BY <1>1, <1>2, Zenon DEF Peek, TypeInv, argVars, fileVars, connVars, ringVars
<1>4. Leave(t)
  BY <1>1, <1>2, SocketAssumption, Zenon
  DEF Peek, Leave, Quiet, Keeps, Adds, argVars, fileVars, connVars, ringVars, Using, Opening, TypeInv
<1> QED  BY <1>3, <1>4

LEMMA AcceptFailsShape ==
    ASSUME TypeInv, CallsInv, NEW t \in Threads, AcceptFails(t)
    PROVE  TypeInv' /\ Leave(t)
<1>1. thr' \in [Threads -> ThreadRecs] /\ Home(t) /\ Only(t)
  BY ReturnHome DEF AcceptFails
<1>2. thr[t].at = "accept" /\ thr[t].fd = NONE
  BY DEF AcceptFails, CallsInv, CallOf
<1>3. TypeInv'
  BY <1>1, Zenon DEF AcceptFails, TypeInv, kernelVars, fileVars, connVars, ringVars
<1>4. Leave(t)
  BY <1>1, <1>2, SocketAssumption, SMT
  DEF AcceptFails, Leave, Quiet, Keeps, Adds, kernelVars, fileVars, connVars, ringVars, Opening, TypeInv
<1> QED  BY <1>3, <1>4

\* A thread that holds no connection points to none.
LEMMA NotHeld ==
    ASSUME TypeInv, HeldInv, NEW t \in Threads, thr[t].at \notin Holding
    PROVE  thr[t].elem = NONE
<1>1. thr[t] \in ThreadRecs
  BY DEF TypeInv
<1>2. thr[t].elem \in Elems \cup {NONE}
  BY <1>1 DEF ThreadRecs
<1> QED  BY <1>2 DEF HeldInv

\* A step of a thread to another place of the same call, with connection e.
LEMMA PlaceMoves ==
    ASSUME TypeInv, NEW t \in Threads, NEW at \in Places, NEW e \in Elems \cup {NONE},
           thr' = [thr EXCEPT ![t] = [thr[t] EXCEPT !.at = at, !.elem = e]]
    PROVE  /\ thr' \in [Threads -> ThreadRecs] /\ Only(t) /\ Same(t)
           /\ thr'[t].at = at /\ thr'[t].elem = e
<1> DEFINE r == [thr[t] EXCEPT !.at = at, !.elem = e]
<1>1. thr[t] \in ThreadRecs
  BY DEF TypeInv
<1>2. /\ r \in ThreadRecs /\ r.at = at /\ r.op = thr[t].op /\ r.fd = thr[t].fd /\ r.sock = thr[t].sock
      /\ r.elem = e
  BY <1>1 DEF ThreadRecs
<1> HIDE DEF r
<1>3. thr' = [thr EXCEPT ![t] = r]
  BY DEF r
<1>4. thr' \in [Threads -> ThreadRecs] /\ thr'[t] = r /\ Only(t)
  BY <1>2, <1>3, ThreadMoves
<1> QED  BY <1>2, <1>4 DEF Same

LEMMA GotoMoves ==
    ASSUME TypeInv, NEW t \in Threads, NEW at \in Places, Goto(t, at)
    PROVE  /\ thr' \in [Threads -> ThreadRecs] /\ Only(t) /\ Same(t)
           /\ thr'[t].at = at /\ thr'[t].elem = thr[t].elem
<1> DEFINE r == [thr[t] EXCEPT !.at = at]
<1>1. thr[t] \in ThreadRecs
  BY DEF TypeInv
<1>2. /\ r \in ThreadRecs /\ r.at = at /\ r.op = thr[t].op /\ r.fd = thr[t].fd /\ r.sock = thr[t].sock
      /\ r.elem = thr[t].elem
  BY <1>1, SMT DEF ThreadRecs
<1> HIDE DEF r
<1>3. thr' = [thr EXCEPT ![t] = r]
  BY DEF r, Goto
<1>4. thr' \in [Threads -> ThreadRecs] /\ thr'[t] = r /\ Only(t)
  BY <1>2, <1>3, ThreadMoves
<1> QED  BY <1>2, <1>4 DEF Same

LEMMA TcpConnectShape ==
    ASSUME TypeInv, CallsInv, HeldInv, NEW t \in Threads, TcpConnect(t)
    PROVE  TypeInv' /\ Advance(t)
<1>1. /\ thr[t].at = "tcp_connect" /\ thr[t].at \in Using /\ thr[t].sock \in Socks
      /\ thr[t].at \notin Holding /\ thr[t].elem = NONE
  BY NotHeld DEF TcpConnect, CallsInv, CallOf, Using, Holding, Opening, Processing
<1>2. /\ thr' \in [Threads -> ThreadRecs] /\ Only(t) /\ Same(t)
      /\ thr'[t].at = "ret_addr" /\ thr'[t].elem = NONE
  BY <1>1, GotoMoves DEF TcpConnect, Places, Using
<1>3. TypeInv'
  BY <1>1, <1>2, SMT DEF TcpConnect, TypeInv, argVars, fileVars, connVars, ringVars
<1>4. Advance(t)
  BY <1>1, <1>2, SMT DEF TcpConnect, TypeInv, argVars, fileVars, connVars, ringVars, Advance, Quiet,
                    Keeps, Adds, Using, Holding, Opening, Processing
<1> QED  BY <1>3, <1>4

LEMMA TransferShape ==
    ASSUME TypeInv, CallsInv, HeldInv, NEW t \in Threads, NEW c \in Contents \cup {NONE}, Transfer(t, c)
    PROVE  TypeInv' /\ Advance(t)
<1> DEFINE r == [thr[t] EXCEPT !.at = "init", !.data = c]
<1>1. /\ thr[t].at = "io" /\ thr[t].at \in Using /\ thr[t].sock \in Socks /\ thr[t].op \in IoCalls
      /\ thr[t].at \notin Holding /\ thr[t].elem = NONE
  BY NotHeld DEF Transfer, CallsInv, CallOf, Using, Holding, Opening, Processing
<1>2. thr[t] \in ThreadRecs
  BY DEF TypeInv
<1>3. /\ r \in ThreadRecs /\ r.at = "init" /\ r.op = thr[t].op /\ r.fd = thr[t].fd /\ r.sock = thr[t].sock
      /\ r.elem = NONE
  BY <1>1, <1>2 DEF ThreadRecs, Places, Using
<1>4. thr' = [thr EXCEPT ![t] = r]
  BY <1>2 DEF Transfer, TypeInv
<1> HIDE DEF r
<1>5. thr' \in [Threads -> ThreadRecs] /\ thr'[t] = r /\ Only(t)
  BY <1>3, <1>4, ThreadMoves
<1>6. TypeInv'
  BY <1>1, <1>5, Zenon DEF Transfer, TypeInv, argVars, fileVars, connVars, ringVars
<1>7. Advance(t)
  BY <1>1, <1>3, <1>5, Zenon DEF Transfer, TypeInv, argVars, fileVars, connVars, ringVars, Advance, Quiet,
                    Keeps, Adds, Using, Holding, Opening, Processing, Same
<1> QED  BY <1>6, <1>7

LEMMA NewConnRec ==
    ASSUME NEW function \in {"client", "server"}
    PROVE  /\ NewConn(function) \in ConnRecs
           /\ NewConn(function).function = function /\ NewConn(function).cookie = NONE
           /\ NewConn(function).is_open = FALSE /\ NewConn(function).ignore = FALSE
BY DEF NewConn, Unused, ConnRecs, Protocols

LEMMA RetAddrShape ==
    ASSUME TypeInv, CallsInv, HeldInv, NEW t \in Threads, NEW ops, NEW key \in Fds \cup {ListenFd},
           NEW function \in {"client", "server"}, RetAddr(t, ops, key, function),
           function = IF thr[t].op = "connect" THEN "client" ELSE "server",
           thr[t].op = "connect" => key = thr[t].fd
    PROVE  TypeInv' /\ (Leave(t) \/ \E e \in Elems : Insert(t, e))
<1>1. /\ thr[t].at = "ret_addr" /\ thr[t].at \in Using /\ thr[t].fd \in Fds /\ thr[t].op \in AddrCalls
      /\ thr[t].at \notin Holding /\ thr[t].elem = NONE
  BY NotHeld DEF RetAddr, CallsInv, CallOf, Using, Holding, Opening, Processing
<1>2. /\ addr_args' \in [Fds \cup {ListenFd} -> BOOLEAN]
      /\ \A f \in Fds : addr_args'[f] => addr_args[f] /\ ~(f = thr[t].fd /\ thr[t].op = "connect")
  BY SMT DEF RetAddr, TypeInv
<1>3. CASE ~addr_args[key]
  <2>1. thr' \in [Threads -> ThreadRecs] /\ Home(t) /\ Only(t)
    BY <1>3, ReturnHome DEF RetAddr
  <2>2. UNCHANGED connVars
    BY <1>3 DEF RetAddr
  <2>3. TypeInv'
    BY <2>1, <2>2, <1>2, Zenon DEF RetAddr, TypeInv, kernelVars, fileVars, connVars, ringVars
  <2>4. thr[t].op \notin IoCalls
    BY <1>1, SMT DEF AddrCalls, Accepts, IoCalls, ReadCalls, WriteCalls
  <2>5. Leave(t)
    BY <1>1, <1>2, <2>1, <2>2, <2>4, SMT DEF RetAddr, Leave, Quiet, Keeps, Adds, kernelVars, fileVars, connVars,
                                   ringVars, Opening
  <2> QED  BY <2>3, <2>5
<1>4. CASE addr_args[key]
  <2>1. PICK e \in FreeElems :
          /\ conn_info_map' = [conn_info_map EXCEPT ![thr[t].fd] = e]
          /\ conn' = [conn EXCEPT ![e] = NewConn(function)]
          /\ thr' = [thr EXCEPT ![t].at = "open", ![t].elem = e]
    BY <1>4 DEF RetAddr, process_syscall_addr
  <2>2. e \in Elems
    BY DEF FreeElems
  <2>3. thr' = [thr EXCEPT ![t] = [thr[t] EXCEPT !.at = "open", !.elem = e]]
    BY <2>1 DEF TypeInv
  <2>4. /\ thr' \in [Threads -> ThreadRecs] /\ Only(t) /\ Same(t)
        /\ thr'[t].at = "open" /\ thr'[t].elem = e
    BY <2>2, <2>3, PlaceMoves DEF Places, Using, Holding, Opening
  <2>5. /\ conn' \in [Elems -> ConnRecs] /\ conn'[e] = NewConn(function)
        /\ \A x \in Elems : x # e => conn'[x] = conn[x]
    BY <2>1, <2>2, NewConnRec DEF TypeInv
  <2>6. TypeInv'
    BY <2>1, <2>2, <2>4, <2>5, <1>1, <1>2, SMT DEF RetAddr, TypeInv, kernelVars, fileVars, ringVars
  <2>7. Insert(t, e)
    BY <1>1, <1>2, <2>1, <2>4, <2>5, NewConnRec
    DEF RetAddr, Insert, kernelVars, fileVars, ringVars
  <2> QED  BY <2>2, <2>6, <2>7
<1> QED  BY <1>3, <1>4

LEMMA EndOpenShape ==
    ASSUME TypeInv, CallsInv, NEW t \in Threads, thr[t].at \in Opening, EndOpen(t)
    PROVE  thr' \in [Threads -> ThreadRecs] /\ Only(t) /\ End(t)
<1>1. thr[t].op \in AddrCalls \cup IoCalls
  BY DEF CallsInv, CallOf, Using, Holding
<1>2. CASE thr[t].op \in AddrCalls
  <2>1. Return(t)
    BY <1>2 DEF EndOpen, AddrCalls, Accepts
  <2> QED  BY <1>2, <2>1, ReturnHome DEF End
<1>3. CASE thr[t].op \notin AddrCalls
  <2> DEFINE r == [thr[t] EXCEPT !.at = "tls", !.slot = 0]
  <2>1. thr[t] \in ThreadRecs
    BY DEF TypeInv
  <2>2. /\ r \in ThreadRecs /\ r.at = "tls" /\ r.op = thr[t].op /\ r.fd = thr[t].fd
        /\ r.sock = thr[t].sock /\ r.elem = thr[t].elem
    BY <2>1 DEF ThreadRecs, Places, Using, Holding
  <2>3. thr' = [thr EXCEPT ![t].at = "tls", ![t].slot = 0]
    BY <1>3 DEF EndOpen, AddrCalls, Accepts
  <2>4. thr' = [thr EXCEPT ![t] = r]
    BY <2>1, <2>3 DEF TypeInv
  <2> HIDE DEF r
  <2>5. thr' \in [Threads -> ThreadRecs] /\ thr'[t] = r /\ Only(t)
    BY <2>2, <2>4, ThreadMoves
  <2> QED  BY <1>1, <1>3, <2>2, <2>5 DEF End, Same
<1> QED  BY <1>2, <1>3

\* A submission that ends before the record is filled.
LEMMA EndsEarly ==
    ASSUME TypeInv, CallsInv, HeldInv, NEW t \in Threads, thr[t].at = "open",
           Only(t), End(t), Quiet, Keeps, UNCHANGED <<addr_args, io_args>>, ring' = ring,
           \/ losses' = losses /\ (conn[thr[t].elem].is_open \/ scope.strategy = "ignore")
           \/ losses' = losses + 1
    PROVE  Advance(t) \/ Leave(t)
<1>1. /\ thr[t].at \in Holding /\ thr[t].at \in Using /\ thr[t].at \in Opening
      /\ thr[t].elem \in Elems /\ losses \in Nat
  BY DEF HeldInv, Using, Holding, Opening, TypeInv
<1>2. Adds(t, thr[t].elem, {"proto"}) /\ Adds(t, thr[t].elem, {"proto", "hello"})
  BY DEF Adds
<1>3. losses' = 0 => conn[thr[t].elem].is_open \/ scope.strategy = "ignore"
  BY <1>1, SMT
<1>4. CASE thr[t].op \in AddrCalls /\ Home(t)
  <2>1. thr[t].op \notin IoCalls
    BY <1>4, SMT DEF AddrCalls, Accepts, IoCalls, ReadCalls, WriteCalls
  <2> QED  BY <1>1, <1>2, <1>3, <1>4, <2>1 DEF Leave
<1>5. CASE /\ thr[t].op \in IoCalls /\ thr'[t].at = "tls"
           /\ Same(t) /\ thr'[t].elem = thr[t].elem
  BY <1>1, <1>2, <1>3, <1>5 DEF Advance, Using, Holding, Opening, Processing
<1> QED  BY <1>4, <1>5 DEF End

LEMMA OpenReserveShape ==
    ASSUME TypeInv, CallsInv, HeldInv, NEW t \in Threads, OpenReserve(t)
    PROVE  TypeInv' /\ (Advance(t) \/ Leave(t) \/ Reserve(t))
<1> DEFINE e == thr[t].elem
<1>1. /\ thr[t].at = "open" /\ thr[t].at \in Holding /\ thr[t].at \in Opening /\ e \in Elems
      /\ conn[e] \in ConnRecs /\ thr[t] \in ThreadRecs
  BY DEF OpenReserve, HeldInv, Holding, Opening, TypeInv
<1>2. UNCHANGED <<fdtab, fresh, cookies, addr_args, io_args, close_args, file_to_pid_fd,
                  pid_fd_to_sock, conn_info_map, scope>> /\ Quiet
  BY DEF OpenReserve, kernelVars, argVars, fileVars, Quiet
<1>3. CASE conn[e].is_open /\ EndOpen(t) /\ UNCHANGED <<conn, ringVars>>
  <2>1. thr' \in [Threads -> ThreadRecs] /\ Only(t) /\ End(t)
    BY <1>1, <1>3, EndOpenShape
  <2>2. TypeInv' /\ Keeps
    BY <1>2, <1>3, <2>1 DEF TypeInv, ringVars, Keeps
  <2> QED  BY <1>1, <1>2, <1>3, <2>1, <2>2, EndsEarly DEF ringVars
<1>4. CASE /\ ~conn[e].is_open /\ scope.strategy = "ignore"
           /\ conn' = [conn EXCEPT ![e].ignore = TRUE]
           /\ EndOpen(t)
           /\ UNCHANGED ringVars
  <2>1. thr' \in [Threads -> ThreadRecs] /\ Only(t) /\ End(t)
    BY <1>1, <1>4, EndOpenShape
  <2>2. conn' \in [Elems -> ConnRecs] /\ Keeps
    BY <1>1, <1>4 DEF TypeInv, Keeps, ConnRecs
  <2>3. TypeInv'
    BY <1>2, <1>4, <2>1, <2>2 DEF TypeInv, ringVars
  <2> QED  BY <1>1, <1>2, <1>4, <2>1, <2>2, <2>3, EndsEarly DEF ringVars
<1>5. CASE ~conn[e].is_open /\ scope.strategy # "ignore" /\ OpenLost(t, e)
  <2>1. thr' \in [Threads -> ThreadRecs] /\ Only(t) /\ End(t)
    BY <1>1, <1>5, EndOpenShape DEF OpenLost
  <2>2. losses' = losses + 1 /\ ring' = ring /\ conn' = conn
    BY <1>5 DEF OpenLost
  <2>3. losses' \in Nat /\ Keeps
    BY <2>2, SMT DEF TypeInv, Keeps
  <2>4. TypeInv'
    BY <1>2, <2>1, <2>2, <2>3 DEF TypeInv
  <2> QED  BY <1>1, <1>2, <2>1, <2>2, <2>3, <2>4, EndsEarly
<1>6. CASE /\ ~conn[e].is_open /\ scope.strategy # "ignore"
           /\ ring' = Append(ring, [kind |-> "open", cookie |-> NONE, state |-> "busy",
                                    ssl |-> FALSE, of |-> thr[t].sock,
                                    function |-> conn[e].function])
           /\ thr' = [thr EXCEPT ![t].at = "fill", ![t].slot = Len(ring) + 1]
           /\ UNCHANGED <<conn, losses>>
  <2> DEFINE ev == [kind |-> "open", cookie |-> NONE, state |-> "busy", ssl |-> FALSE,
                    of |-> thr[t].sock, function |-> conn[e].function]
  <2>0. PICK n \in Nat : n = Len(ring) + 1
    BY SMT DEF TypeInv
  <2> DEFINE r == [thr[t] EXCEPT !.at = "fill", !.slot = n]
  <2>1. ev \in Events /\ ev.kind = "open" /\ ev.state = "busy" /\ ev.function = conn[e].function
    BY <1>1, SMT DEF Events, ThreadRecs, ConnRecs
  <2>2. /\ r \in ThreadRecs /\ r.at = "fill" /\ r.op = thr[t].op /\ r.fd = thr[t].fd
        /\ r.sock = thr[t].sock /\ r.elem = e /\ r.slot = n
    BY <1>1 DEF ThreadRecs, Places, Using, Holding, Opening
  <2>3. thr' = [thr EXCEPT ![t] = r]
    BY <1>1, <1>6, <2>0 DEF TypeInv
  <2>4. ring' = Append(ring, ev)
    BY <1>6
  <2> HIDE DEF ev, r
  <2>5. thr' \in [Threads -> ThreadRecs] /\ thr'[t] = r /\ Only(t)
    BY <2>2, <2>3, ThreadMoves
  <2>6. ring' \in Seq(Events)
    BY <2>1, <2>4, SMT DEF TypeInv
  <2>7. TypeInv'
    BY <1>2, <1>6, <2>5, <2>6 DEF TypeInv
  <2>8. Reserve(t)
    BY <1>1, <1>2, <1>6, <2>0, <2>1, <2>2, <2>4, <2>5 DEF Reserve, Same
  <2> QED  BY <2>7, <2>8
<1> QED  BY <1>3, <1>4, <1>5, <1>6 DEF OpenReserve

LEMMA OpenSubmitShape ==
    ASSUME TypeInv, CallsInv, HeldInv, SlotInv, NEW t \in Threads, OpenSubmit(t)
    PROVE  TypeInv' /\ \E c \in Socks \cup {NONE} : Submit(t, c)
<1> DEFINE e == thr[t].elem
           n == thr[t].slot
           s == pid_fd_to_sock[thr[t].fd]
           c == IF s = NONE THEN conn[e].cookie ELSE CookieOf(s)
           ignore == conn[e].ignore \/ IgnoredAtOpen(scope, conn[e].function)
           send == Reportable(ignore, c)
           state == IF send THEN "sent" ELSE "void"
<1>1. /\ thr[t].at = "fill" /\ thr[t].at \in Holding /\ thr[t].at \in Opening /\ e \in Elems
      /\ conn[e] \in ConnRecs /\ thr[t] \in ThreadRecs /\ thr[t].fd \in Fds
      /\ n \in DOMAIN ring
  BY DEF OpenSubmit, HeldInv, CallsInv, CallOf, SlotInv, Using, Holding, Opening, TypeInv
<1>2. /\ UNCHANGED <<fdtab, fresh, cookies, addr_args, io_args, close_args, file_to_pid_fd,
                     pid_fd_to_sock, conn_info_map, losses, scope>>
      /\ Quiet
  BY DEF OpenSubmit, kernelVars, argVars, fileVars, Quiet
<1>3. s \in Socks \cup {NONE}
  BY <1>1 DEF TypeInv
<1>4. c \in Socks \cup {NONE}
  BY <1>1, <1>3, SMT DEF CookieOf, ConnRecs
<1>5. ignore \in BOOLEAN /\ state \in {"sent", "void"}
  BY <1>1, SMT DEF ConnRecs, IgnoredAtOpen
<1>6. /\ conn' = [conn EXCEPT ![e].cookie = c, ![e].ignore = ignore]
      /\ ring' = [ring EXCEPT ![n].cookie = c, ![n].state = state]
      /\ IF send THEN Goto(t, "mark") ELSE EndOpen(t)
  BY DEF OpenSubmit
<1>7. send <=> ~ignore /\ c # NONE
  BY DEF Reportable
<1>8. thr' \in [Threads -> ThreadRecs] /\ Only(t)
       /\ (send => thr'[t].at = "mark" /\ Same(t) /\ thr'[t].elem = e)
       /\ (~send => End(t))
  <2>1. CASE send
    <3>1. Goto(t, "mark")
      BY <1>6, <2>1
    <3>2. "mark" \in Places
      BY DEF Places, Using, Holding, Opening
    <3> QED  BY <2>1, <3>1, <3>2, GotoMoves
  <2>2. CASE ~send
    BY <1>1, <1>6, <2>2, EndOpenShape
  <2> QED  BY <2>1, <2>2
<1> HIDE DEF s, c, ignore, send, state
<1>9. /\ conn' \in [Elems -> ConnRecs]
      /\ \A x \in Elems : x # e => conn'[x] = conn[x]
      /\ conn'[e].function = conn[e].function /\ conn'[e].is_open = conn[e].is_open
      /\ conn'[e].cookie = c /\ conn'[e].ignore = ignore
  BY <1>1, <1>4, <1>5, <1>6 DEF TypeInv, ConnRecs
<1>10. /\ ring' \in Seq(Events) /\ Len(ring') = Len(ring)
       /\ \A i \in DOMAIN ring : i # n => ring'[i] = ring[i]
       /\ ring'[n].kind = ring[n].kind /\ ring'[n].function = ring[n].function
       /\ ring'[n].cookie = c /\ ring'[n].state = state
  <2> DEFINE ev == [ring[n] EXCEPT !.cookie = c, !.state = state]
  <2>1. ring[n] \in Events
    BY <1>1, SMT DEF TypeInv
  <2>2. /\ ev \in Events /\ ev.kind = ring[n].kind /\ ev.function = ring[n].function
        /\ ev.cookie = c /\ ev.state = state
    BY <1>4, <1>5, <2>1 DEF Events
  <2>3. ring' = [ring EXCEPT ![n] = ev]
    BY <1>1, <1>6, <2>1 DEF TypeInv
  <2> HIDE DEF ev
  <2> QED  BY <1>1, <2>2, <2>3, SMT DEF TypeInv
<1>11. TypeInv'
  BY <1>2, <1>8, <1>9, <1>10 DEF TypeInv
<1>12. Submit(t, c)
  <2>1. c = IF pid_fd_to_sock[thr[t].fd] = NONE THEN conn[e].cookie
                                                 ELSE CookieOf(pid_fd_to_sock[thr[t].fd])
    BY DEF c, s
  <2>2. ignore <=> conn[e].ignore \/ IgnoredAtOpen(scope, conn[e].function)
    BY DEF ignore
  <2>3. CASE send
    <3>1. state = "sent" /\ ~ignore /\ c # NONE
      BY <1>7, <2>3 DEF state
    <3> QED  BY <1>1, <1>2, <1>8, <1>9, <1>10, <2>1, <2>3, <3>1 DEF Submit, ignore
  <2>4. CASE ~send
    <3>1. state = "void" /\ (ignore \/ c = NONE)
      BY <1>7, <2>4 DEF state
    <3> QED  BY <1>1, <1>2, <1>8, <1>9, <1>10, <2>1, <2>4, <3>1 DEF Submit, ignore
  <2> QED  BY <2>3, <2>4
<1> QED  BY <1>4, <1>11, <1>12

LEMMA OpenMarkShape ==
    ASSUME TypeInv, CallsInv, HeldInv, NEW t \in Threads, OpenMark(t)
    PROVE  TypeInv' /\ Mark(t)
<1> DEFINE e == thr[t].elem
<1>1. /\ thr[t].at = "mark" /\ thr[t].at \in Holding /\ thr[t].at \in Opening /\ e \in Elems
      /\ conn[e] \in ConnRecs
  BY DEF OpenMark, HeldInv, Holding, Opening, TypeInv
<1>2. /\ UNCHANGED <<fdtab, fresh, cookies, addr_args, io_args, close_args, file_to_pid_fd,
                     pid_fd_to_sock, conn_info_map, ring, losses, scope>>
      /\ Quiet
  BY DEF OpenMark, kernelVars, argVars, fileVars, ringVars, Quiet
<1>3. thr' \in [Threads -> ThreadRecs] /\ Only(t) /\ End(t)
  BY <1>1, EndOpenShape DEF OpenMark
<1>4. conn' = [conn EXCEPT ![e].is_open = TRUE]
  BY DEF OpenMark
<1>5. /\ conn' \in [Elems -> ConnRecs]
      /\ \A x \in Elems : x # e => conn'[x] = conn[x]
      /\ conn'[e].function = conn[e].function /\ conn'[e].is_open
      /\ conn'[e].cookie = conn[e].cookie /\ conn'[e].ignore = conn[e].ignore
  BY <1>1, <1>4 DEF TypeInv, ConnRecs
<1>6. TypeInv'
  BY <1>2, <1>3, <1>5 DEF TypeInv
<1>7. Mark(t)
  BY <1>1, <1>2, <1>3, <1>5 DEF Mark
<1> QED  BY <1>6, <1>7

\* ToMain moves a thread to the exit probe that runs second.
LEMMA ToMainMoves ==
    ASSUME TypeInv, NEW t \in Threads, ToMain(t)
    PROVE  /\ thr' \in [Threads -> ThreadRecs] /\ Only(t) /\ Same(t)
           /\ thr'[t].at = "main" /\ thr'[t].elem = NONE
<1>1. thr' = [thr EXCEPT ![t] = [thr[t] EXCEPT !.at = "main", !.elem = NONE]]
  BY DEF ToMain, TypeInv
<1>2. "main" \in Places
  BY DEF Places, Using
<1> QED  BY <1>1, <1>2, PlaceMoves

\* Steps of an exit probe that end with the second part of the call still to come.
LEMMA ProbeAdvances ==
    ASSUME TypeInv, CallsInv, HeldInv, NEW t \in Threads,
           thr[t].at \in {"init", "tls", "hello", "main", "detect", "proto"},
           Only(t), Same(t), Quiet, Keeps, UNCHANGED <<addr_args, io_args>>,
           Adds(t, thr[t].elem, {"proto", "hello"}),
           thr'[t].at \in {"open", "tls", "hello", "main", "detect", "proto", "data"},
           thr'[t].at = "main" => thr'[t].elem = NONE,
           thr'[t].at # "main" =>
             \/ thr[t].at \in {"tls", "hello", "detect", "proto"} /\ thr'[t].elem = thr[t].elem
             \/ /\ thr[t].at \in {"init", "main"} /\ thr'[t].elem = conn_info_map[thr[t].fd]
                /\ conn_info_map[thr[t].fd] \in Elems,
           thr'[t].at \in Processing /\ thr[t].at \notin Processing =>
             conn[thr'[t].elem].is_open /\ scope.strategy \in {"observe", "audit"},
           thr'[t].at = "data" => "data" \notin scope.filter,
           thr'[t].at = "open" => pid_fd_to_sock[thr[t].fd] \in cookies
    PROVE  Advance(t)
<1>1. /\ thr[t].at \in Using /\ thr[t].at \notin Opening /\ thr[t].op \in IoCalls
      /\ thr[t].at \notin {"fill", "mark"}
  BY DEF CallsInv, CallOf, Using, Holding, Opening, Processing
<1>2. thr[t].at \in {"tls", "hello", "detect", "proto"} => thr[t].at \in Holding /\ thr[t].elem \in Elems
  BY DEF HeldInv, Holding, Processing
<1>3. thr[t].at \in {"init", "main"} => thr[t].at \notin Holding
  BY DEF Holding, Opening, Processing
<1>4. thr'[t].at \in Using \ {"fill", "mark", "tcp_connect"} /\ thr'[t].at # "ret_addr"
  BY DEF Using, Holding, Opening, Processing
<1>5. thr'[t].at \notin Holding => thr'[t].at = "main"
  BY DEF Holding, Opening, Processing
<1>6. thr'[t].at \in Holding => thr'[t].at # "main"
  BY DEF Holding, Opening, Processing
<1> QED  BY <1>1, <1>2, <1>3, <1>4, <1>5, <1>6 DEF Advance

LEMMA RetInitShape ==
    ASSUME TypeInv, CallsInv, HeldInv, NEW t \in Threads, NEW op, RetInit(t, op)
    PROVE  TypeInv' /\ Advance(t)
<1> DEFINE e == conn_info_map[thr[t].fd]
<1>1. /\ thr[t].at = "init" /\ thr[t].fd \in Fds /\ e \in Elems \cup {NONE} /\ thr[t].elem = NONE
      /\ thr[t].at \notin Processing
  BY NotHeld DEF RetInit, CallsInv, CallOf, Using, Holding, Opening, Processing, TypeInv
<1>2. /\ UNCHANGED <<fdtab, fresh, cookies, addr_args, io_args, close_args, file_to_pid_fd,
                     pid_fd_to_sock, conn_info_map, ring, losses, scope>>
      /\ Quiet /\ Adds(t, thr[t].elem, {"proto", "hello"})
  BY DEF RetInit, kernelVars, fileVars, ringVars, Quiet, Adds
<1>3. CASE ToMain(t) /\ UNCHANGED conn
  <2>1. /\ thr' \in [Threads -> ThreadRecs] /\ Only(t) /\ Same(t)
        /\ thr'[t].at = "main" /\ thr'[t].elem = NONE
    BY <1>3, ToMainMoves
  <2>2. TypeInv' /\ Keeps
    BY <1>2, <1>3, <2>1 DEF TypeInv, Keeps
  <2>3. Advance(t)
    BY <1>1, <1>2, <2>1, <2>2, ProbeAdvances DEF Processing
  <2> QED  BY <2>2, <2>3
<1>4. CASE e # NONE /\ scope.strategy = "ignore" /\ conn' = [conn EXCEPT ![e].ignore = TRUE] /\ ToMain(t)
  <2>1. /\ thr' \in [Threads -> ThreadRecs] /\ Only(t) /\ Same(t)
        /\ thr'[t].at = "main" /\ thr'[t].elem = NONE
    BY <1>4, ToMainMoves
  <2>2. e \in Elems /\ conn[e] \in ConnRecs
    BY <1>1, <1>4 DEF TypeInv
  <2>3. conn' \in [Elems -> ConnRecs] /\ Keeps
    BY <1>4, <2>2 DEF TypeInv, Keeps, ConnRecs
  <2>4. TypeInv'
    BY <1>2, <2>1, <2>3 DEF TypeInv
  <2>5. Advance(t)
    BY <1>1, <1>2, <2>1, <2>3, ProbeAdvances DEF Processing
  <2> QED  BY <2>4, <2>5
<1>5. CASE /\ e # NONE
           /\ \E at \in {"open", "tls"} :
                /\ thr' = [thr EXCEPT ![t] = [thr[t] EXCEPT !.at = at, !.elem = e]]
                /\ at = "open" => pid_fd_to_sock[thr[t].fd] \in cookies
           /\ UNCHANGED conn
  <2>1. e \in Elems
    BY <1>1, <1>5
  <2>2. PICK at \in {"open", "tls"} :
          /\ thr' = [thr EXCEPT ![t] = [thr[t] EXCEPT !.at = at, !.elem = e]]
          /\ at = "open" => pid_fd_to_sock[thr[t].fd] \in cookies
    BY <1>5
  <2>3. at \in Places
    BY DEF Places, Using, Holding, Opening
  <2>4. /\ thr' \in [Threads -> ThreadRecs] /\ Only(t) /\ Same(t)
        /\ thr'[t].at = at /\ thr'[t].elem = e
    BY <2>1, <2>2, <2>3, PlaceMoves
  <2>5. TypeInv' /\ Keeps
    BY <1>2, <1>5, <2>4 DEF TypeInv, Keeps
  <2>6. Advance(t)
    BY <1>1, <1>2, <2>1, <2>2, <2>4, <2>5, ProbeAdvances DEF Processing
  <2> QED  BY <2>5, <2>6
<1>6. ASSUME NEW at \in {"open", "tls"}, thr' = [thr EXCEPT ![t].elem = e, ![t].at = at]
      PROVE  thr' = [thr EXCEPT ![t] = [thr[t] EXCEPT !.at = at, !.elem = e]]
  <2>1. thr[t] \in ThreadRecs
    BY DEF TypeInv
  <2> QED  BY <1>6, <2>1 DEF TypeInv, ThreadRecs
<1> QED  BY <1>3, <1>4, <1>5, <1>6 DEF RetInit, CookieOf

LEMMA EventRec ==
    ASSUME TypeInv, NEW t \in Threads, NEW e \in Elems,
           NEW kind \in {"open", "proto", "hello", "data", "close"}
    PROVE  /\ Event(kind, e, t) \in Events
           /\ Event(kind, e, t).kind = kind /\ Event(kind, e, t).state = "sent"
           /\ Event(kind, e, t).cookie = conn[e].cookie
           /\ Event(kind, e, t).function = conn[e].function
           /\ Event(kind, e, t).of = thr[t].sock
<1>1. conn[e] \in ConnRecs /\ thr[t] \in ThreadRecs
  BY DEF TypeInv
<1> QED  BY <1>1, SMT DEF Event, Events, ConnRecs, ThreadRecs

LEMMA EmitAdds ==
    ASSUME TypeInv, NEW t \in Threads, NEW e \in Elems, NEW kinds, NEW ev \in Events, Emit(ev),
           ev.kind \in kinds, ev.state = "sent", ev.cookie = conn[e].cookie,
           ev.function = conn[e].function, ev.of = thr[t].sock
    PROVE  Adds(t, e, kinds) /\ ring' \in Seq(Events) /\ losses' \in Nat
<1>1. losses \in Nat /\ ring \in Seq(Events)
  BY DEF TypeInv
<1>2. CASE ring' = Append(ring, ev) /\ UNCHANGED losses
  <2>1. ring' \in Seq(Events)
    BY <1>1, <1>2, SMT
  <2> QED  BY <1>1, <1>2, <2>1 DEF Adds
<1>3. CASE losses' = losses + 1 /\ UNCHANGED ring
  <2>1. losses' \in Nat
    BY <1>1, <1>3, SMT
  <2> QED  BY <1>1, <1>3, <2>1 DEF Adds
<1> QED  BY <1>2, <1>3 DEF Emit

LEMMA InitHelloShape ==
    ASSUME TypeInv, CallsInv, HeldInv, NEW t \in Threads, InitHello(t)
    PROVE  TypeInv' /\ Advance(t)
<1>1. thr[t].at = "hello" /\ thr[t].elem \in Elems
  BY DEF InitHello, HeldInv, Holding
<1>2. /\ thr' \in [Threads -> ThreadRecs] /\ Only(t) /\ Same(t)
      /\ thr'[t].at = "main" /\ thr'[t].elem = NONE
  BY ToMainMoves DEF InitHello
<1>3. UNCHANGED <<fdtab, fresh, cookies, addr_args, io_args, close_args, file_to_pid_fd,
                  pid_fd_to_sock, conn_info_map, conn, scope>> /\ Quiet
  BY DEF InitHello, kernelVars, argVars, fileVars, connVars, Quiet
<1>4. Adds(t, thr[t].elem, {"proto", "hello"}) /\ ring' \in Seq(Events) /\ losses' \in Nat
  <2> DEFINE ev == Event("hello", thr[t].elem, t)
  <2>1. /\ ev \in Events /\ ev.kind = "hello" /\ ev.state = "sent"
        /\ ev.cookie = conn[thr[t].elem].cookie /\ ev.function = conn[thr[t].elem].function
        /\ ev.of = thr[t].sock
    BY <1>1, EventRec, SMT
  <2>2. Emit(ev)
    BY DEF InitHello
  <2> HIDE DEF ev
  <2> QED  BY <1>1, <2>1, <2>2, EmitAdds
<1>5. TypeInv' /\ Keeps
  BY <1>2, <1>3, <1>4 DEF TypeInv, Keeps
<1>6. Advance(t)
  BY <1>1, <1>2, <1>3, <1>4, <1>5, ProbeAdvances DEF Processing
<1> QED  BY <1>5, <1>6

LEMMA InitTlsShape ==
    ASSUME TypeInv, CallsInv, HeldInv, NEW t \in Threads, InitTls(t)
    PROVE  TypeInv' /\ Advance(t)
<1> DEFINE e == thr[t].elem
<1>1. thr[t].at = "tls" /\ e \in Elems /\ conn[e] \in ConnRecs
  BY DEF InitTls, HeldInv, Holding, TypeInv
<1>2. UNCHANGED <<fdtab, fresh, cookies, addr_args, io_args, close_args, file_to_pid_fd,
                  pid_fd_to_sock, conn_info_map, scope>> /\ Quiet
  BY DEF InitTls, kernelVars, argVars, fileVars, Quiet
<1>3. /\ thr' \in [Threads -> ThreadRecs] /\ Only(t) /\ Same(t)
      /\ \/ thr'[t].at = "main" /\ thr'[t].elem = NONE
         \/ thr'[t].at = "hello" /\ thr'[t].elem = e
  <2>1. ToMain(t) \/ Goto(t, "hello")
    BY DEF InitTls
  <2>2. "hello" \in Places
    BY DEF Places, Using, Holding
  <2> QED  BY <2>1, <2>2, ToMainMoves, GotoMoves
<1>4. Adds(t, e, {"proto", "hello"}) /\ ring' \in Seq(Events) /\ losses' \in Nat
  <2> DEFINE x == Event("proto", e, t)
             ev == [x EXCEPT !.ssl = TRUE]
  <2>0. /\ x \in Events /\ x.kind = "proto" /\ x.state = "sent"
        /\ x.cookie = conn[e].cookie /\ x.function = conn[e].function /\ x.of = thr[t].sock
    BY <1>1, EventRec, SMT
  <2>1. /\ ev \in Events /\ ev.kind = "proto" /\ ev.state = "sent"
        /\ ev.cookie = conn[e].cookie /\ ev.function = conn[e].function /\ ev.of = thr[t].sock
    <3> HIDE DEF x
    <3> QED  BY <2>0 DEF Events
  <2>2. Emit(ev) \/ UNCHANGED ringVars
    BY DEF InitTls
  <2> HIDE DEF ev
  <2>3. CASE Emit(ev)
    BY <1>1, <2>1, <2>3, EmitAdds
  <2>4. CASE UNCHANGED ringVars
    BY <2>4 DEF ringVars, Adds, TypeInv
  <2> QED  BY <2>2, <2>3, <2>4
<1>5. conn' \in [Elems -> ConnRecs] /\ Keeps
  <2>1. CASE UNCHANGED conn
    BY <2>1 DEF TypeInv, Keeps
  <2>2. ASSUME NEW is_ssl \in BOOLEAN,
               conn' = [conn EXCEPT ![e].is_ssl = is_ssl, ![e].tls_upgrade_pending = @ /\ ~is_ssl]
        PROVE  conn' \in [Elems -> ConnRecs] /\ Keeps
    BY <1>1, <2>2, SMT DEF TypeInv, Keeps, ConnRecs
  <2>3. \/ UNCHANGED conn
        \/ \E c \in Seen(t) :
             conn' = [conn EXCEPT ![e].is_ssl = conn[e].is_ssl \/ c = "hello",
                                  ![e].tls_upgrade_pending = @ /\ ~(conn[e].is_ssl \/ c = "hello")]
    BY DEF InitTls
  <2>4. ASSUME NEW c \in Seen(t)
        PROVE  (conn[e].is_ssl \/ c = "hello") \in BOOLEAN
    OBVIOUS
  <2> QED  BY <2>1, <2>2, <2>3, <2>4
<1>6. TypeInv'
  BY <1>2, <1>3, <1>4, <1>5 DEF TypeInv
<1>7. Advance(t)
  BY <1>1, <1>2, <1>3, <1>4, <1>5, ProbeAdvances DEF Processing
<1> QED  BY <1>6, <1>7

\* The end of an exit probe of a read or a write.
LEMMA EndDataLeaves ==
    ASSUME TypeInv, CallsInv, HeldInv, NEW t \in Threads,
           thr[t].at \in {"main", "proto", "data"}, EndData(t), Quiet, Keeps, UNCHANGED addr_args,
           Adds(t, thr[t].elem, IF thr[t].at = "data" THEN {"data"} ELSE {"proto"})
    PROVE  /\ thr' \in [Threads -> ThreadRecs]
           /\ io_args' \in [{"in", "out"} -> [Fds -> Threads \cup {NONE}]]
           /\ Leave(t)
<1>1. /\ thr[t].at \in Using \ {"tcp_connect"} /\ thr[t].at \notin Opening
      /\ thr[t].at \notin {"fill", "mark", "ret_addr"}
      /\ thr[t].op \in IoCalls /\ thr[t].fd \in Fds
  BY DEF CallsInv, CallOf, Using, Holding, Opening, Processing
<1>2. thr' \in [Threads -> ThreadRecs] /\ Home(t) /\ Only(t)
  BY ReturnHome DEF EndData
<1>3. /\ thr[t].op \notin {"ssl_read", "ssl_write"}
      /\ Dir(thr[t].op) \in {"in", "out"}
  BY <1>1, Zenon DEF IoCalls, ReadCalls, WriteCalls, Dir
<1>4. /\ io_args' \in [{"in", "out"} -> [Fds -> Threads \cup {NONE}]]
      /\ \A d \in {"in", "out"}, f \in Fds :
           io_args'[d][f] # NONE => io_args[d][f] # NONE /\ ~(f = thr[t].fd /\ d = Dir(thr[t].op))
  BY <1>1, <1>3, SMT DEF EndData, TypeInv
<1>5. Leave(t)
  BY <1>1, <1>2, <1>4 DEF Leave
<1> QED  BY <1>2, <1>4, <1>5

LEMMA DataEmitShape ==
    ASSUME TypeInv, CallsInv, HeldInv, NEW t \in Threads, DataEmit(t)
    PROVE  TypeInv' /\ Leave(t)
<1> DEFINE e == thr[t].elem
<1>1. thr[t].at = "data" /\ e \in Elems
  BY DEF DataEmit, HeldInv, Holding, Processing
<1>2. UNCHANGED <<fdtab, fresh, cookies, addr_args, close_args, file_to_pid_fd, pid_fd_to_sock,
                  conn_info_map, conn, scope>> /\ Quiet /\ Keeps
  BY DEF DataEmit, kernelVars, fileVars, connVars, Quiet, Keeps
<1>3. Adds(t, e, {"data"}) /\ ring' \in Seq(Events) /\ losses' \in Nat
  <2> DEFINE x == Event("data", e, t)
             ssl == thr[t].op \in {"ssl_read", "ssl_write"}
             ev == [x EXCEPT !.ssl = ssl]
  <2>1. /\ x \in Events /\ x.kind = "data" /\ x.state = "sent"
        /\ x.cookie = conn[e].cookie /\ x.function = conn[e].function /\ x.of = thr[t].sock
    BY <1>1, EventRec, SMT
  <2>2. ssl \in BOOLEAN
    BY SMT
  <2>3. Emit(ev)
    BY DEF DataEmit
  <2> HIDE DEF x, ssl
  <2>4. /\ ev \in Events /\ ev.kind = "data" /\ ev.state = "sent"
        /\ ev.cookie = conn[e].cookie /\ ev.function = conn[e].function /\ ev.of = thr[t].sock
    BY <2>1, <2>2, SMT DEF Events
  <2> HIDE DEF ev
  <2> QED  BY <1>1, <2>3, <2>4, EmitAdds
<1>4. /\ thr' \in [Threads -> ThreadRecs]
      /\ io_args' \in [{"in", "out"} -> [Fds -> Threads \cup {NONE}]]
      /\ Leave(t)
  <2>1. EndData(t)
    BY DEF DataEmit
  <2> QED  BY <1>1, <1>2, <1>3, <2>1, EndDataLeaves
<1>5. TypeInv'
  BY <1>2, <1>3, <1>4 DEF TypeInv
<1> QED  BY <1>4, <1>5

LEMMA DetectedType ==
    ASSUME NEW c PROVE Detected(c) \in Protocols
BY SMT DEF Detected, Protocols

LEMMA DataDetectShape ==
    ASSUME TypeInv, CallsInv, HeldInv, NEW t \in Threads, DataDetect(t)
    PROVE  TypeInv' /\ Advance(t)
<1> DEFINE e == thr[t].elem
<1>1. thr[t].at = "detect" /\ e \in Elems /\ conn[e] \in ConnRecs /\ thr[t].at \in Processing
  BY DEF DataDetect, HeldInv, Holding, Processing, TypeInv
<1>2. /\ UNCHANGED <<fdtab, fresh, cookies, addr_args, io_args, close_args, file_to_pid_fd,
                     pid_fd_to_sock, conn_info_map, ring, losses, scope>>
      /\ Quiet /\ Adds(t, e, {"proto", "hello"})
  BY DEF DataDetect, kernelVars, argVars, fileVars, ringVars, Quiet, Adds
<1>3. /\ thr' \in [Threads -> ThreadRecs] /\ Only(t) /\ Same(t)
      /\ thr'[t].at = "proto" /\ thr'[t].elem = e
  <2>1. "proto" \in Places
    BY DEF Places, Using, Holding, Processing
  <2> QED  BY <2>1, GotoMoves DEF DataDetect
<1>4. conn' \in [Elems -> ConnRecs] /\ Keeps
  <2>1. ASSUME NEW p \in Protocols, NEW b \in BOOLEAN,
               conn' = [conn EXCEPT ![e].protocol = p, ![e].tls_upgrade_pending = @ \/ b]
        PROVE  conn' \in [Elems -> ConnRecs] /\ Keeps
    BY <1>1, <2>1 DEF TypeInv, Keeps, ConnRecs
  <2>2. CASE UNCHANGED conn
    BY <2>2 DEF TypeInv, Keeps
  <2>3. ASSUME NEW c \in Seen(t),
               conn' = [conn EXCEPT ![e].protocol = Detected(c),
                                    ![e].tls_upgrade_pending = @ \/ Detected(c) = "mysql"]
        PROVE  conn' \in [Elems -> ConnRecs] /\ Keeps
    <3>1. (Detected(c) = "mysql") \in BOOLEAN
      OBVIOUS
    <3> QED  BY <2>1, <2>3, <3>1, DetectedType
  <2> QED  BY <2>2, <2>3 DEF DataDetect
<1>5. TypeInv'
  BY <1>2, <1>3, <1>4 DEF TypeInv
<1>6. Advance(t)
  BY <1>1, <1>2, <1>3, <1>4, ProbeAdvances
<1> QED  BY <1>5, <1>6

LEMMA DataProtoShape ==
    ASSUME TypeInv, CallsInv, HeldInv, OpenInv, NEW t \in Threads, DataProto(t)
    PROVE  TypeInv' /\ (Advance(t) \/ Leave(t))
<1> DEFINE e == thr[t].elem
           known == conn[e].protocol # "unknown"
           skip == Skipped(scope, conn[e].protocol, conn[e].is_ssl)
           stream == Streamed(scope, conn[e].function, conn[e].protocol)
<1>1. /\ thr[t].at = "proto" /\ e \in Elems /\ conn[e] \in ConnRecs /\ thr[t].at \in Processing
      /\ conn[e].is_open
  BY DEF DataProto, HeldInv, OpenInv, Holding, Processing, TypeInv
<1>2. UNCHANGED <<fdtab, fresh, cookies, addr_args, close_args, file_to_pid_fd, pid_fd_to_sock,
                  conn_info_map, scope>> /\ Quiet
  BY DEF DataProto, kernelVars, fileVars, Quiet
<1>3. /\ Adds(t, e, {"proto", "hello"}) /\ Adds(t, e, {"proto"})
      /\ ring' \in Seq(Events) /\ losses' \in Nat
  <2> DEFINE ev == Event("proto", e, t)
  <2>1. /\ ev \in Events /\ ev.kind = "proto" /\ ev.state = "sent"
        /\ ev.cookie = conn[e].cookie /\ ev.function = conn[e].function /\ ev.of = thr[t].sock
    BY <1>1, EventRec, SMT
  <2>2. Emit(ev) \/ UNCHANGED ringVars
    BY DEF DataProto
  <2> HIDE DEF ev
  <2>3. CASE Emit(ev)
    <3>1. ev.kind \in {"proto"} /\ ev.kind \in {"proto", "hello"}
      BY <2>1
    <3> QED  BY <1>1, <2>1, <2>3, <3>1, EmitAdds
  <2>4. CASE UNCHANGED ringVars
    BY <2>4 DEF ringVars, Adds, TypeInv
  <2> QED  BY <2>2, <2>3, <2>4
<1>4. conn' \in [Elems -> ConnRecs] /\ Keeps
  <2>1. ASSUME NEW b \in BOOLEAN, conn' = [conn EXCEPT ![e].ignore = @ \/ b]
        PROVE  conn' \in [Elems -> ConnRecs] /\ Keeps
    <3>1. conn \in [Elems -> ConnRecs]
      BY DEF TypeInv
    <3>2. conn' \in [Elems -> ConnRecs]
      BY <1>1, <2>1, <3>1, SMT DEF ConnRecs
    <3>3. Keeps
      BY <1>1, <2>1, <3>1, SMT DEF Keeps, ConnRecs
    <3> QED  BY <3>2, <3>3
  <2>2. (skip \/ (known /\ ~stream)) \in BOOLEAN
    OBVIOUS
  <2>3. conn' = [conn EXCEPT ![e].ignore = @ \/ (skip \/ (known /\ ~stream))]
    BY SMT DEF DataProto
  <2> QED  BY <2>1, <2>2, <2>3
<1>5. CASE Goto(t, "data") /\ UNCHANGED io_args /\ ~skip
  <2>1. "data" \in Places
    BY DEF Places, Using, Holding, Processing
  <2>2. /\ thr' \in [Threads -> ThreadRecs] /\ Only(t) /\ Same(t)
        /\ thr'[t].at = "data" /\ thr'[t].elem = e
    BY <1>5, <2>1, GotoMoves
  <2>3. "data" \notin scope.filter
    BY <1>5 DEF Skipped
  <2>4. Advance(t)
    BY <1>1, <1>2, <1>3, <1>4, <1>5, <2>2, <2>3, ProbeAdvances
  <2>5. TypeInv'
    BY <1>2, <1>3, <1>4, <1>5, <2>2 DEF TypeInv
  <2> QED  BY <2>4, <2>5
<1>6. CASE EndData(t)
  <2>1. /\ thr' \in [Threads -> ThreadRecs]
        /\ io_args' \in [{"in", "out"} -> [Fds -> Threads \cup {NONE}]]
        /\ Leave(t)
    BY <1>1, <1>2, <1>3, <1>4, <1>6, EndDataLeaves
  <2>2. TypeInv'
    BY <1>2, <1>3, <1>4, <2>1 DEF TypeInv
  <2> QED  BY <2>1, <2>2
<1> QED  BY <1>5, <1>6 DEF DataProto

\* An open connection changes in what it is not known by.
LEMMA OpenConnKeeps ==
    ASSUME TypeInv, NEW e \in Elems, conn[e].is_open, NEW x \in ConnRecs,
           x.function = conn[e].function, x.cookie = conn[e].cookie, x.is_open = conn[e].is_open,
           conn' = [conn EXCEPT ![e] = x]
    PROVE  conn' \in [Elems -> ConnRecs] /\ Keeps
<1>1. conn'[e] = x /\ \A y \in Elems : y # e => conn'[y] = conn[y]
  BY DEF TypeInv
<1>2. conn' \in [Elems -> ConnRecs]
  BY DEF TypeInv
<1>3. Keeps
  BY <1>1 DEF Keeps
<1> QED  BY <1>2, <1>3

LEMMA RetShape ==
    ASSUME TypeInv, CallsInv, HeldInv, NEW t \in Threads, NEW op, Ret(t, op)
    PROVE  TypeInv' /\ (Advance(t) \/ Leave(t))
<1> DEFINE e == conn_info_map[thr[t].fd]
           inward == ~FALSE /\ Dir(thr[t].op) = "in"
           outward == ~FALSE /\ Dir(thr[t].op) = "out"
           counted == [conn EXCEPT ![e].rd = @ \/ inward, ![e].wr = @ \/ outward]
<1>1. /\ thr[t].at = "main" /\ thr[t].fd \in Fds /\ e \in Elems \cup {NONE} /\ thr[t].elem = NONE
      /\ thr[t].at \notin Processing /\ thr[t] \in ThreadRecs
  BY NotHeld DEF Ret, CallsInv, CallOf, Using, Holding, Opening, Processing, TypeInv
<1>2. /\ UNCHANGED <<fdtab, fresh, cookies, addr_args, close_args, file_to_pid_fd,
                     pid_fd_to_sock, conn_info_map, ring, losses, scope>>
      /\ Quiet /\ Adds(t, thr[t].elem, {"proto", "hello"}) /\ Adds(t, thr[t].elem, {"proto"})
  BY DEF Ret, kernelVars, fileVars, ringVars, Quiet, Adds
<1>3. ASSUME EndData(t), conn' \in [Elems -> ConnRecs], Keeps
      PROVE  TypeInv' /\ Leave(t)
  <2>1. /\ thr' \in [Threads -> ThreadRecs]
        /\ io_args' \in [{"in", "out"} -> [Fds -> Threads \cup {NONE}]]
        /\ Leave(t)
    BY <1>1, <1>2, <1>3, EndDataLeaves
  <2>2. TypeInv'
    BY <1>2, <1>3, <2>1 DEF TypeInv
  <2> QED  BY <2>1, <2>2
<1>4. CASE EndData(t) /\ UNCHANGED conn
  <2>1. conn' \in [Elems -> ConnRecs] /\ Keeps
    BY <1>4 DEF TypeInv, Keeps
  <2> QED  BY <1>3, <1>4, <2>1
<1>5. CASE e # NONE /\ Data(t, FALSE)
  <2>1. e \in Elems /\ conn[e] \in ConnRecs /\ inward \in BOOLEAN /\ outward \in BOOLEAN
    BY <1>1, <1>5 DEF TypeInv
  <2>2. CASE /\ \E c \in Seen(t) :
                  conn' = [conn EXCEPT ![e].protocol = Detected(c),
                                       ![e].tls_upgrade_pending = @ \/ Detected(c) = "mysql"]
             /\ EndData(t)
    <3>1. ASSUME NEW p \in Protocols, NEW b \in BOOLEAN,
                 conn' = [conn EXCEPT ![e].protocol = p, ![e].tls_upgrade_pending = @ \/ b]
          PROVE  conn' \in [Elems -> ConnRecs] /\ Keeps
      BY <2>1, <3>1 DEF TypeInv, Keeps, ConnRecs
    <3>2. PICK c \in Seen(t) :
            conn' = [conn EXCEPT ![e].protocol = Detected(c),
                                 ![e].tls_upgrade_pending = @ \/ Detected(c) = "mysql"]
      BY <2>2
    <3>3. (Detected(c) = "mysql") \in BOOLEAN
      OBVIOUS
    <3>4. conn' \in [Elems -> ConnRecs] /\ Keeps
      BY <3>1, <3>2, <3>3, DetectedType
    <3> QED  BY <1>3, <2>2, <3>4
  <2>3. CASE /\ conn[e].is_open
             /\ conn' = [counted EXCEPT ![e].ignore = @ \/ scope.strategy = "ignore"]
             /\ EndData(t)
    <3>1. ASSUME NEW i \in BOOLEAN, NEW o \in BOOLEAN, NEW b \in BOOLEAN,
                 conn' = [[conn EXCEPT ![e].rd = @ \/ i, ![e].wr = @ \/ o] EXCEPT ![e].ignore = @ \/ b]
          PROVE  conn' \in [Elems -> ConnRecs] /\ Keeps
      <4> DEFINE x == [conn[e] EXCEPT !.rd = @ \/ i, !.wr = @ \/ o, !.ignore = @ \/ b]
      <4>1. /\ x \in ConnRecs /\ x.function = conn[e].function /\ x.cookie = conn[e].cookie
            /\ x.is_open = conn[e].is_open
        BY <2>1, <3>1, ZenonT(30) DEF ConnRecs
      <4>2. conn' = [conn EXCEPT ![e] = x]
        BY <2>1, <3>1 DEF TypeInv, ConnRecs
      <4> HIDE DEF x
      <4>3. conn[e].is_open
        BY <2>3
      <4> QED  BY <2>1, <4>1, <4>2, <4>3, OpenConnKeeps
    <3>2. (scope.strategy = "ignore") \in BOOLEAN
      OBVIOUS
    <3>3. conn' \in [Elems -> ConnRecs] /\ Keeps
      BY <2>1, <2>3, <3>1, <3>2
    <3> QED  BY <1>3, <2>3, <3>3
  <2>4. CASE /\ conn[e].is_open /\ scope.strategy \notin {"ignore", "forward", "proxy"}
             /\ conn' = [counted EXCEPT ![e].is_ssl = @ \/ FALSE]
             /\ thr' = [thr EXCEPT
                          ![t].at = "detect", ![t].elem = e, ![t].was = conn[e].protocol,
                          ![t].up = FALSE /\ ~conn[e].is_ssl /\ conn[e].protocol # "unknown"]
             /\ UNCHANGED io_args
    <3> DEFINE r == [thr[t] EXCEPT !.at = "detect", !.elem = e, !.was = conn[e].protocol, !.up = FALSE]
    <3>1. ASSUME NEW i \in BOOLEAN, NEW o \in BOOLEAN,
                 conn' = [[conn EXCEPT ![e].rd = @ \/ i, ![e].wr = @ \/ o] EXCEPT ![e].is_ssl = @ \/ FALSE]
          PROVE  conn' \in [Elems -> ConnRecs] /\ Keeps
      <4> DEFINE x == [conn[e] EXCEPT !.rd = @ \/ i, !.wr = @ \/ o, !.is_ssl = @ \/ FALSE]
      <4>1. /\ x \in ConnRecs /\ x.function = conn[e].function /\ x.cookie = conn[e].cookie
            /\ x.is_open = conn[e].is_open
        BY <2>1, <3>1, ZenonT(30) DEF ConnRecs
      <4>2. conn' = [conn EXCEPT ![e] = x]
        BY <2>1, <3>1 DEF TypeInv, ConnRecs
      <4> HIDE DEF x
      <4>3. conn[e].is_open
        BY <2>4
      <4> QED  BY <2>1, <4>1, <4>2, <4>3, OpenConnKeeps
    <3>2. conn' \in [Elems -> ConnRecs] /\ Keeps
      BY <2>1, <2>4, <3>1
    <3>3. conn[e].protocol \in Protocols
      BY <2>1 DEF ConnRecs
    <3>4. /\ r \in ThreadRecs /\ r.at = "detect" /\ r.op = thr[t].op /\ r.fd = thr[t].fd
          /\ r.sock = thr[t].sock /\ r.elem = e
      BY <1>1, <2>1, <3>3, ZenonT(30) DEF ThreadRecs, Places, Using, Holding, Processing
    <3>5. thr' = [thr EXCEPT ![t] = r]
      BY <1>1, <2>4 DEF TypeInv, ThreadRecs
    <3> HIDE DEF r
    <3>6. thr' \in [Threads -> ThreadRecs] /\ thr'[t] = r /\ Only(t) /\ Same(t)
      BY <3>4, <3>5, ThreadMoves DEF Same
    <3>7. scope.strategy \in {"observe", "audit"}
      BY <2>4, SocketAssumption DEF TypeInv, Strategies
    <3>8. Advance(t)
      BY <1>1, <1>2, <2>1, <2>4, <3>2, <3>4, <3>6, <3>7, ProbeAdvances
    <3>9. TypeInv'
      BY <1>2, <2>4, <3>2, <3>6 DEF TypeInv
    <3> QED  BY <3>8, <3>9
  <2> HIDE DEF counted
  <2> QED  BY <1>4, <1>5, <2>2, <2>3, <2>4 DEF Data, counted
<1>6. Data(t, FALSE) /\ e = NONE => EndData(t) /\ UNCHANGED conn
  BY DEF Data
<1>7. Data(t, FALSE) \/ (EndData(t) /\ UNCHANGED conn)
  BY DEF Ret
<1> QED  BY <1>4, <1>5, <1>6, <1>7

LEMMA EnterCloseShape ==
    ASSUME TypeInv, NEW t \in Threads, NEW f \in Fds, EnterClose(t, f)
    PROVE  TypeInv' /\ BeginClose(t, f)
<1> DEFINE r == [Idle EXCEPT !.at = "close", !.op = "close", !.fd = f, !.sock = fdtab[f]]
<1>1. fdtab[f] \in Socks /\ thr[t].at = "user"
  BY DEF EnterClose, Closable, Begin, Call, TypeInv
<1>2. thr' = [thr EXCEPT ![t] = r]
  BY DEF EnterClose, Begin
<1>3. /\ r \in ThreadRecs /\ r.at = "close" /\ r.op = "close" /\ r.fd = f /\ r.sock = fdtab[f]
      /\ r.elem = NONE
  BY <1>1 DEF Idle, ThreadRecs, Places, Closing, Protocols
<1> HIDE DEF r
<1>4. thr' \in [Threads -> ThreadRecs] /\ thr'[t] = r /\ Only(t)
  BY <1>2, <1>3, ThreadMoves
<1>5. Opener(t)
  BY DEF EnterClose, Begin, Call, Opener
<1>6. close_args' = [close_args EXCEPT ![f] = TRUE] /\ close_args' \in [Fds -> BOOLEAN]
  BY DEF EnterClose, TypeInv
<1>7. UNCHANGED fdtab /\ Rest
  BY DEF EnterClose, kernelVars, fileVars, connVars, ringVars, Rest
<1>8. TypeInv'
  BY <1>4, <1>6, <1>7 DEF TypeInv, Rest
<1>9. BeginClose(t, f)
  BY <1>1, <1>3, <1>4, <1>5, <1>6, <1>7 DEF BeginClose, EnterClose
<1> QED  BY <1>8, <1>9

LEMMA DropShape ==
    ASSUME TypeInv, NEW t \in Threads, NEW f \in Fds, Drop(t, f)
    PROVE  TypeInv' /\ BeginClose(t, f)
<1> DEFINE r == [Idle EXCEPT !.at = "fput", !.op = "drop", !.fd = f, !.sock = fdtab[f]]
<1>1. fdtab[f] \in Socks /\ thr[t].at = "user"
  BY DEF Drop, Closable, Begin, Call, TypeInv
<1>2. thr' = [thr EXCEPT ![t] = r]
  BY DEF Drop, Begin
<1>3. /\ r \in ThreadRecs /\ r.at = "fput" /\ r.op = "drop" /\ r.fd = f /\ r.sock = fdtab[f]
      /\ r.elem = NONE
  BY <1>1 DEF Idle, ThreadRecs, Places, Closing, Released, Protocols
<1> HIDE DEF r
<1>4. thr' \in [Threads -> ThreadRecs] /\ thr'[t] = r /\ Only(t)
  BY <1>2, <1>3, ThreadMoves
<1>5. Opener(t)
  BY DEF Drop, Begin, Call, Opener
<1>6. fdtab' = [fdtab EXCEPT ![f] = NONE] /\ fdtab' \in [Fds -> Socks \cup {NONE}]
  BY DEF Drop, TypeInv
<1>7. UNCHANGED close_args /\ Rest
  BY DEF Drop, argVars, fileVars, connVars, ringVars, Rest
<1>8. TypeInv'
  BY <1>4, <1>6, <1>7 DEF TypeInv, Rest
<1>9. BeginClose(t, f)
  BY <1>1, <1>3, <1>4, <1>5, <1>6, <1>7 DEF BeginClose, Drop
<1> QED  BY <1>8, <1>9

LEMMA KernelCloseShape ==
    ASSUME TypeInv, NEW t \in Threads, KernelClose(t)
    PROVE  TypeInv' /\ Free(t)
<1>1. PICK next \in {"fput", "ret_close"} : Goto(t, next)
  BY DEF KernelClose
<1>2. next \in Places /\ next \in Released
  BY DEF Places, Closing, Released
<1>3. /\ thr' \in [Threads -> ThreadRecs] /\ Only(t) /\ Same(t)
      /\ thr'[t].at = next /\ thr'[t].elem = thr[t].elem
  BY <1>1, <1>2, GotoMoves
<1>4. fdtab' = [fdtab EXCEPT ![thr[t].fd] = NONE] /\ fdtab' \in [Fds -> Socks \cup {NONE}]
  BY DEF KernelClose, TypeInv
<1>5. UNCHANGED close_args /\ Rest
  BY DEF KernelClose, argVars, fileVars, connVars, ringVars, Rest
<1>6. TypeInv'
  BY <1>3, <1>4, <1>5 DEF TypeInv, Rest
<1>7. Free(t)
  BY <1>2, <1>3, <1>4, <1>5 DEF Free, KernelClose
<1> QED  BY <1>6, <1>7

LEMMA ProcessCloseShape ==
    ASSUME TypeInv, NEW t \in Threads, NEW f \in Fds, process_close(t, f)
    PROVE  /\ Closes(t, f)
           /\ conn_info_map' \in [Fds -> Elems \cup {NONE}] /\ ring' \in Seq(Events) /\ losses' \in Nat
<1> DEFINE e == conn_info_map[f]
<1>1. /\ conn_info_map' = [conn_info_map EXCEPT ![f] = NONE]
      /\ conn_info_map' \in [Fds -> Elems \cup {NONE}] /\ e \in Elems \cup {NONE}
  BY DEF process_close, TypeInv
<1>2. e # NONE <=> e \in Elems
  BY <1>1, SocketAssumption
<1>3. CASE ~(e \in Elems /\ conn[e].is_open)
  <2>1. UNCHANGED ringVars
    BY <1>2, <1>3 DEF process_close
  <2> QED  BY <1>1, <1>3, <2>1 DEF Closes, ringVars, TypeInv
<1>4. CASE e \in Elems /\ conn[e].is_open
  <2> DEFINE ev == Event("close", e, t)
  <2>1. Emit(ev)
    BY <1>2, <1>4 DEF process_close
  <2>2. /\ ev \in Events /\ ev.kind = "close" /\ ev.state = "sent"
        /\ ev.cookie = conn[e].cookie /\ ev.function = conn[e].function /\ ev.of = thr[t].sock
    BY <1>4, EventRec, SMT
  <2> HIDE DEF ev
  <2>3. ring' \in Seq(Events) /\ losses' \in Nat
    BY <1>4, <2>1, <2>2, EmitAdds
  <2>4. (ring' = Append(ring, ev) /\ losses' = losses) \/ (ring' = ring /\ losses' = losses + 1)
    BY <2>1 DEF Emit
  <2>5. Closes(t, f)
    BY <1>1, <1>4, <2>2, <2>4 DEF Closes
  <2> QED  BY <1>1, <2>3, <2>5
<1> QED  BY <1>3, <1>4

LEMMA FputShape ==
    ASSUME TypeInv, CallsInv, NEW t \in Threads, Fput(t)
    PROVE  TypeInv' /\ Release(t)
<1> DEFINE s == thr[t].sock
           key == file_to_pid_fd[s]
<1>1. /\ thr[t].at = "fput" /\ s \in Socks /\ key \in Fds \cup {NONE}
      /\ thr[t].op \in {"close", "drop"}
  BY DEF Fput, CallsInv, CallOf, Closing, Released, TypeInv
<1>2. UNCHANGED <<fdtab, fresh, cookies, addr_args, io_args, close_args, conn, scope>>
  BY DEF Fput, kernelVars, argVars
<1>3. /\ thr' \in [Threads -> ThreadRecs] /\ Only(t)
      /\ \/ thr[t].op = "drop" /\ Home(t)
         \/ /\ thr[t].op = "close" /\ thr'[t].at = "ret_close" /\ Same(t)
            /\ thr'[t].elem = thr[t].elem
  <2>1. CASE thr[t].op = "close"
    <3>1. "ret_close" \in Places
      BY DEF Places, Closing, Released
    <3>2. Goto(t, "ret_close")
      BY <2>1 DEF Fput
    <3> QED  BY <2>1, <3>1, <3>2, GotoMoves
  <2>2. CASE thr[t].op # "close"
    <3>1. Return(t)
      BY <2>2 DEF Fput
    <3> QED  BY <1>1, <2>2, <3>1, ReturnHome
  <2> QED  BY <2>1, <2>2
<1>4. CASE key = NONE
  <2>1. UNCHANGED <<file_to_pid_fd, pid_fd_to_sock, conn_info_map, ring, losses>>
    BY <1>4 DEF Fput, fileVars, ringVars
  <2>2. TypeInv'
    BY <1>2, <1>3, <2>1 DEF TypeInv
  <2>3. Release(t)
    BY <1>1, <1>2, <1>3, <1>4, <2>1 DEF Release
  <2> QED  BY <2>2, <2>3
<1>5. CASE key # NONE
  <2>1. key \in Fds /\ process_close(t, key) /\ ForgetFile(s, key)
    BY <1>1, <1>5 DEF Fput
  <2>2. /\ Closes(t, key)
        /\ conn_info_map' \in [Fds -> Elems \cup {NONE}] /\ ring' \in Seq(Events) /\ losses' \in Nat
    BY <2>1, ProcessCloseShape
  <2>3. /\ file_to_pid_fd' \in [Socks -> Fds \cup {NONE}]
        /\ pid_fd_to_sock' \in [Fds -> Socks \cup {NONE}]
    BY <2>1 DEF ForgetFile, TypeInv
  <2>4. TypeInv'
    BY <1>2, <1>3, <2>2, <2>3 DEF TypeInv
  <2>5. Release(t)
    BY <1>1, <1>2, <1>3, <2>1, <2>2 DEF Release
  <2> QED  BY <2>4, <2>5
<1> QED  BY <1>4, <1>5

LEMMA RetCloseShape ==
    ASSUME TypeInv, CallsInv, NEW t \in Threads, RetClose(t)
    PROVE  TypeInv' /\ Exit(t)
<1> DEFINE f == thr[t].fd
<1>1. thr[t].at = "ret_close" /\ f \in Fds /\ thr[t] \in ThreadRecs
  BY DEF RetClose, CallsInv, CallOf, Closing, Released, TypeInv
<1>2. UNCHANGED <<fdtab, fresh, cookies, file_to_pid_fd, pid_fd_to_sock, addr_args, io_args, conn,
                  scope>>
  BY DEF RetClose, kernelVars, fileVars
<1>3. close_args' = [close_args EXCEPT ![f] = FALSE] /\ close_args' \in [Fds -> BOOLEAN]
  BY DEF RetClose, TypeInv
<1>4. /\ thr' \in [Threads -> ThreadRecs] /\ Only(t)
      /\ \/ file_to_pid_fd[thr[t].sock] = NONE /\ Home(t)
         \/ /\ file_to_pid_fd[thr[t].sock] # NONE /\ thr'[t].at = "fput" /\ thr'[t].op = "drop"
            /\ thr'[t].fd = thr[t].fd /\ thr'[t].sock = thr[t].sock /\ thr'[t].elem = thr[t].elem
  <2>1. CASE file_to_pid_fd[thr[t].sock] = NONE
    <3>1. Return(t)
      BY <2>1 DEF RetClose
    <3> QED  BY <2>1, <3>1, ReturnHome
  <2>2. CASE file_to_pid_fd[thr[t].sock] # NONE
    <3> DEFINE r == [thr[t] EXCEPT !.at = "fput", !.op = "drop"]
    <3>1. /\ r \in ThreadRecs /\ r.at = "fput" /\ r.op = "drop" /\ r.fd = thr[t].fd
          /\ r.sock = thr[t].sock /\ r.elem = thr[t].elem
      BY <1>1 DEF ThreadRecs, Places, Closing, Released
    <3>2. thr' = [thr EXCEPT ![t].at = "fput", ![t].op = "drop"]
      BY <2>2 DEF RetClose
    <3>3. thr' = [thr EXCEPT ![t] = r]
      BY <1>1, <3>2 DEF TypeInv
    <3> HIDE DEF r
    <3> QED  BY <2>2, <3>1, <3>3, ThreadMoves
  <2> QED  BY <2>1, <2>2
<1>5. /\ Closes(t, f) \/ UNCHANGED <<conn_info_map, ring, losses>>
      /\ conn_info_map' \in [Fds -> Elems \cup {NONE}] /\ ring' \in Seq(Events) /\ losses' \in Nat
  <2>1. CASE close_args[f]
    <3>1. process_close(t, f)
      BY <2>1 DEF RetClose
    <3> QED  BY <1>1, <3>1, ProcessCloseShape
  <2>2. CASE ~close_args[f]
    <3>1. UNCHANGED <<conn_info_map, ringVars>>
      BY <2>2 DEF RetClose
    <3> QED  BY <3>1 DEF ringVars, TypeInv
  <2> QED  BY <2>1, <2>2
<1>6. TypeInv'
  BY <1>2, <1>3, <1>4, <1>5 DEF TypeInv
<1>7. Exit(t)
  BY <1>1, <1>2, <1>3, <1>4, <1>5 DEF Exit
<1> QED  BY <1>6, <1>7

\* Every action is one of these steps, and types are kept.
LEMMA NextSteps ==
    ASSUME TypeInv, CallsInv, HeldInv, SlotInv, OpenInv, Next
    PROVE  TypeInv' /\ \E t \in Threads : Step(t)
<1>1. SUFFICES ASSUME NEW t \in Threads,
                      \/ OpenStep(t)
                      \/ ReportStep(t)
                      \/ \E f \in Fds : EnterStep(t, f) \/ EnterCloseStep(t, f)
                      \/ RetStep(t)
                      \/ DataStep(t)
                      \/ CloseStep(t)
               PROVE  TypeInv' /\ Step(t)
  BY DEF Next
<1>2. CASE OpenStep(t)
  <2>1. CASE \E f \in Fds, s \in Socks : Socket(t, f, s)
    BY <2>1, SocketShape DEF Step
  <2>2. CASE \E f \in Fds : EnterConnect(t, f)
    BY <2>2, EnterConnectShape DEF Step
  <2>3. CASE TcpConnect(t)
    BY <2>3, TcpConnectShape DEF Step
  <2>4. ASSUME NEW ops, NEW key \in Fds \cup {ListenFd}, NEW function \in {"client", "server"},
               RetAddr(t, ops, key, function),
               function = IF thr[t].op = "connect" THEN "client" ELSE "server",
               thr[t].op = "connect" => key = thr[t].fd
        PROVE  TypeInv' /\ Step(t)
    BY <2>4, RetAddrShape DEF Step
  <2>5. CASE RetConnect(t)
    <3>1. thr[t].op = "connect" /\ thr[t].fd \in Fds
      BY <2>5 DEF RetConnect, RetAddr, CallsInv, CallOf, Using
    <3> QED  BY <2>4, <2>5, <3>1 DEF RetConnect
  <2>6. CASE \E op \in {"accept", "accept4"} : EnterAccept(t, op)
    BY <2>6, EnterAcceptShape DEF Step, Accepts
  <2>7. CASE \E f \in Fds, s \in Socks : Accepted(t, f, s)
    BY <2>7, AcceptedShape DEF Step
  <2>8. CASE AcceptFails(t)
    BY <2>8, AcceptFailsShape DEF Step
  <2>9. CASE RetAccept(t)
    <3>1. thr[t].op # "connect"
      BY <2>9, SMT DEF RetAccept, RetAddr
    <3> QED  BY <2>4, <2>9, <3>1 DEF RetAccept
  <2>10. CASE RetAccept4(t)
    <3>1. thr[t].op # "connect"
      BY <2>10, SMT DEF RetAccept4, RetAddr
    <3> QED  BY <2>4, <2>10, <3>1 DEF RetAccept4
  <2> QED  BY <1>2, <2>1, <2>2, <2>3, <2>5, <2>6, <2>7, <2>8, <2>9, <2>10 DEF OpenStep
<1>3. CASE ReportStep(t)
  BY <1>3, OpenReserveShape, OpenSubmitShape, OpenMarkShape DEF ReportStep, Step
<1>4. CASE \E f \in Fds : EnterStep(t, f)
  <2>1. PICK f \in Fds : EnterStep(t, f)
    BY <1>4
  <2>2. ASSUME NEW op \in IoCalls, NEW ops, EnterIO(t, f, op, ops)
        PROVE  TypeInv' /\ Step(t)
    BY <2>2, EnterIOShape DEF Step
  <2>3. CASE Peek(t, f)
    BY <2>3, PeekShape DEF Step
  <2>4. CASE ~Peek(t, f)
    <3>1. PICK op \in IoCalls : \E ops \in {ReadCalls, WriteCalls} : EnterIO(t, f, op, ops)
      BY <2>1, <2>4
      DEF EnterStep, EnterSendto, EnterWrite, EnterWritev, EnterSendmsg, EnterRecvfrom, EnterRead,
          EnterReadv, EnterRecvmsg, IoCalls, ReadCalls, WriteCalls
    <3> QED  BY <2>2, <3>1
  <2> QED  BY <2>3, <2>4
<1>5. CASE \E f \in Fds : EnterCloseStep(t, f)
  BY <1>5, EnterCloseShape, DropShape DEF EnterCloseStep, Step
<1>6. CASE RetStep(t)
  <2>1. (\E op \in IoCalls : RetInit(t, op)) \/ (\E op \in IoCalls : Ret(t, op))
    BY <1>6
    DEF RetStep, RetSendtoInit, RetSendto, RetWriteInit, RetWrite, RetWritevInit, RetWritev,
        RetSendmsgInit, RetSendmsg, RetRecvfromInit, RetRecvfrom, RetReadInit, RetRead,
        RetReadvInit, RetReadv, RetRecvmsgInit, RetRecvmsg, IoCalls, ReadCalls, WriteCalls
  <2> QED  BY <2>1, RetInitShape, RetShape DEF Step
<1>7. CASE DataStep(t)
  <2>1. CASE \E c \in scope.carries \cup {NONE} : Transfer(t, c)
    <3>1. scope.carries \subseteq Contents
      BY SocketAssumption DEF TypeInv
    <3> QED  BY <2>1, <3>1, TransferShape DEF Step
  <2> QED  BY <1>7, <2>1, InitTlsShape, InitHelloShape, DataDetectShape, DataProtoShape,
              DataEmitShape DEF DataStep, Step
<1>8. CASE CloseStep(t)
  BY <1>8, KernelCloseShape, FputShape, RetCloseShape DEF CloseStep, Step
<1> QED  BY <1>1, <1>2, <1>3, <1>4, <1>5, <1>6, <1>7, <1>8

-----------------------------------------------------------------------------
\* The inductive invariant

LEMMA SocketInit == Init => SocketInv
<1> SUFFICES ASSUME Init PROVE SocketInv
  OBVIOUS
<1>0. NONE \notin Threads \cup Fds \cup Socks \cup Elems
  BY SocketAssumption
<1>1. /\ \A t \in Threads : thr[t] = Idle
      /\ \A f \in Fds : fdtab[f] = NONE /\ conn_info_map[f] = NONE /\ pid_fd_to_sock[f] = NONE
      /\ \A f \in Fds : ~addr_args[f] /\ ~close_args[f]
      /\ \A d \in {"in", "out"}, f \in Fds : io_args[d][f] = NONE
      /\ \A e \in Elems : conn[e] = Unused
      /\ ring = <<>>
  BY SMT DEF Init
<1>2. TypeInv
  <2>1. Unused \in ConnRecs
    BY SMT DEF Unused, ConnRecs, Protocols
  <2>2. thr \in [Threads -> ThreadRecs] /\ conn \in [Elems -> ConnRecs]
    BY <2>1, IdleRec DEF Init
  <2>3. ring \in Seq(Events)
    BY SMT DEF Init
  <2> QED  BY <2>2, <2>3 DEF Init, TypeInv
<1>3. /\ \A t \in Threads : thr[t].at = "user" /\ thr[t].op = "none" /\ thr[t].fd = NONE /\ thr[t].elem = NONE
      /\ \A t \in Threads : thr[t].at \notin Using \cup Closing
      /\ \A t \in Threads : thr[t].at \notin Holding \cup Opening \cup Processing \cup Released
  BY <1>1, IdleRec DEF Using, Holding, Opening, Processing, Closing, Released
<1>4. CallsInv
  BY <1>3 DEF CallsInv, CallOf, Closing
<1>5. HeldInv
  BY <1>0, <1>1, <1>3 DEF HeldInv
<1>6. LeftInv
  BY <1>1, <1>3 DEF LeftInv
<1>7. ArgsInv
  BY <1>1 DEF ArgsInv
<1>8. DOMAIN ring = {}
  BY <1>1, SMT
<1>9. \A e \in Elems : ~conn[e].is_open
  BY <1>1, SMT DEF Unused
<1>10. SlotInv
  BY <1>3 DEF SlotInv
<1>11. OpenInv
  BY <1>3, <1>8, <1>9 DEF OpenInv
<1>12. FilterInv
  BY <1>3, <1>8, <1>9 DEF FilterInv, Processing
<1> QED  BY <1>2, <1>4, <1>5, <1>6, <1>7, <1>10, <1>11, <1>12 DEF SocketInv

LEMMA SocketStep ==
    ASSUME SocketInv, [Next]_vars
    PROVE  SocketInv'
<1>1. CASE Next
  <2>1. TypeInv'
    BY <1>1, NextSteps DEF SocketInv
  <2>2. PICK t \in Threads : Step(t)
    BY <1>1, NextSteps DEF SocketInv
  <2>3. CallsInv' /\ HeldInv'
    BY <2>1, <2>2, CallsStep, HeldStep DEF SocketInv
  <2>4. LeftInv' /\ ArgsInv'
    BY <2>1, <2>2, LeftStep, ArgsStep DEF SocketInv
  <2>5. SlotInv' /\ OpenInv' /\ FilterInv'
    BY <2>1, <2>2, SlotStep, OpenStepKeeps, FilterStep DEF SocketInv
  <2> QED  BY <2>1, <2>3, <2>4, <2>5 DEF SocketInv
<1>2. CASE UNCHANGED vars
  <2> USE <1>2 DEF vars, kernelVars, argVars, fileVars, connVars, ringVars
  <2>1. TypeInv'
    BY DEF SocketInv, TypeInv
  <2>2. CallsInv' /\ HeldInv'
    BY DEF SocketInv, CallsInv, CallOf, HeldInv
  <2>3. LeftInv' /\ ArgsInv'
    <3>1. /\ \A t \in Threads, f \in Fds : AddrBy(t, f) => AddrBy(t, f)'
          /\ \A t \in Threads, f \in Fds : CloseBy(t, f) => CloseBy(t, f)'
          /\ \A t \in Threads, d \in {"in", "out"}, f \in Fds : IoBy(t, d, f) => IoBy(t, d, f)'
      BY DEF AddrBy, CloseBy, IoBy, Dir
    <3>2. ArgsInv'
      BY <3>1 DEF SocketInv, ArgsInv
    <3> QED  BY <3>2 DEF SocketInv, LeftInv
  <2>4. SlotInv' /\ OpenInv'
    BY ZenonT(30) DEF SocketInv, SlotInv, OpenInv, OpenSent, Settled
  <2>5. FilterInv'
    BY DEF SocketInv, FilterInv, Passes
  <2> QED  BY <2>1, <2>2, <2>3, <2>4, <2>5 DEF SocketInv
<1> QED  BY <1>1, <1>2

\* However the threads' calls and probes interleave, and whatever is lost, the
\* maps, the connections and the records stay as the probes expect them.
THEOREM SocketInvariant == Spec => []SocketInv
BY SocketInit, SocketStep, PTL DEF Spec

\* The data and the close of a connection follow its open record, although the
\* record is filled while other threads' probes run on the same connection.
THEOREM SocketReportedBeforeUsed == Spec => []ReportedBeforeUsed
<1>1. SocketInv => ReportedBeforeUsed
  BY DEF SocketInv, OpenInv, ReportedBeforeUsed, Sent
<1> QED  BY <1>1, SocketInvariant, PTL

\* A closed descriptor that no call is on leaves nothing in the maps, whichever
\* of the two close probes runs first and whoever takes the descriptor next.
THEOREM SocketNothingLeftBehind == Spec => []NothingLeftBehind
<1>1. ASSUME SocketInv PROVE NothingLeftBehind
  <2> SUFFICES ASSUME NEW f \in Fds, fdtab[f] = NONE, InCall(f) = {}
               PROVE  /\ conn_info_map[f] = NONE
                      /\ pid_fd_to_sock[f] = NONE
                      /\ ~addr_args[f] /\ ~close_args[f]
                      /\ io_args["in"][f] = NONE /\ io_args["out"][f] = NONE
    BY DEF NothingLeftBehind
  <2>1. \A t \in Threads : thr[t].fd = f => thr[t].at = "user"
    BY DEF InCall
  <2>2. \A t \in Threads : thr[t].fd = f => thr[t].at \notin Released /\ thr[t].at \notin Closing
    BY <2>1, <1>1, Apart
  <2>3. \A t \in Threads : thr[t].fd = f => thr[t].at \notin Using /\ thr[t].at \notin {"tcp_connect", "ret_addr"}
    BY <2>1, Apart
  <2>4. conn_info_map[f] = NONE /\ pid_fd_to_sock[f] = NONE
    BY <1>1, <2>2 DEF SocketInv, LeftInv
  <2>5. ~addr_args[f] /\ ~close_args[f]
    BY <1>1, <2>2, <2>3 DEF SocketInv, ArgsInv, AddrBy, CloseBy
  <2>6. io_args["in"][f] = NONE /\ io_args["out"][f] = NONE
    BY <1>1, <2>3 DEF SocketInv, ArgsInv, IoBy
  <2> QED  BY <2>4, <2>5, <2>6
<1> QED  BY <1>1, SocketInvariant, PTL

\* What the settings exclude is not reported, although the filters are applied
\* when the record is already reserved and a connection may be reported again.
THEOREM SocketFiltersHold == Spec => []FiltersHold
<1>1. ASSUME SocketInv PROVE FiltersHold
  <2>1. ASSUME NEW i \in DOMAIN ring, ring[i].state = "sent", ring[i].kind \in {"open", "data", "close"}
        PROVE  /\ scope.strategy # "ignore"
               /\ scope.direction = "ingress" => ring[i].function = "server"
               /\ scope.direction \in {"egress", "egress_internal", "egress_external"} =>
                    ring[i].function = "client"
               /\ scope.loopback => ~is_local_ip(scope.remote)
    <3>1. Passes(ring[i].function)
      BY <1>1, <2>1 DEF SocketInv, FilterInv
    <3>2. ring[i].function \in {"client", "server"}
      <4>1. ring[i] \in Events
        BY <1>1, <2>1, SMT DEF SocketInv, TypeInv
      <4> QED  BY <4>1 DEF Events
    <3> QED  BY <3>1, <3>2, SMT DEF Passes, IgnoredAtOpen
  <2> QED  BY <1>1, <2>1 DEF SocketInv, FilterInv, FiltersHold
<1> QED  BY <1>1, SocketInvariant, PTL

-----------------------------------------------------------------------------
\* One thread opens and closes

LEMMA OneInit == Init => SocketOne
<1> SUFFICES ASSUME Init PROVE SocketOne
  OBVIOUS
<1>1. /\ \A t \in Threads : thr[t].at = "user" /\ thr[t].op = "none"
      /\ \A f \in Fds : fdtab[f] = NONE /\ conn_info_map[f] = NONE
      /\ \A e \in Elems : ~conn[e].ignore
  BY SMT DEF Init, Idle, Unused
<1>2. ring = <<>> /\ DOMAIN ring = {}
  BY SMT DEF Init
<1>3. \A t \in Threads : thr[t].at \notin Using \cup Holding \cup Opening \cup Released
  BY <1>1 DEF Using, Holding, Opening, Processing, Released
<1>4. OpenerInv
  BY <1>1 DEF OpenerInv, Accepts
<1>5. OwnInv
  BY <1>1, <1>2, <1>3 DEF OwnInv, FreedInv, CookieInv, AcceptInv, KnownInv
<1>6. ClosedInv
  BY <1>2 DEF ClosedInv
<1>7. OnceInv
  <2>1. SentInv /\ LiveInv
    BY <1>2 DEF SentInv, LiveInv, OpenSent
  <2>2. IgnoreInv /\ ClientInv /\ WillInv
    BY <1>1, <1>3 DEF IgnoreInv, ClientInv, WillInv
  <2> QED  BY <2>1, <2>2 DEF OnceInv
<1> QED  BY <1>4, <1>5, <1>6, <1>7 DEF SocketOne, OneInv

LEMMA OneStep ==
    ASSUME SocketInv, SocketInv', SocketOne, [Next]_vars
    PROVE  SocketOne'
<1>1. CASE Next
  <2>1. PICK t \in Threads : Step(t)
    BY <1>1, NextSteps DEF SocketInv
  <2>2. OpenerInv'
    BY <2>1, OpenerStep DEF SocketInv, SocketOne
  <2>3. ASSUME OneOpener PROVE OwnInv' /\ ClosedInv' /\ OnceInv'
    <3>1. /\ TypeInv /\ TypeInv' /\ CallsInv /\ HeldInv /\ LeftInv /\ SlotInv /\ OpenInv
          /\ FreedInv /\ CookieInv /\ AcceptInv /\ KnownInv /\ OpenerInv
      BY <2>3 DEF SocketInv, SocketOne, OneInv, OwnInv
    <3>2. FreedInv' /\ CookieInv'
      BY <2>1, <2>3, <3>1, FreedStep, CookieStep
    <3>3. AcceptInv' /\ KnownInv'
      BY <2>1, <2>3, <3>1, AcceptStep, KnownStep
    <3>4. ClosedInv'
      BY <2>1, <2>3, <3>1, ClosedStep DEF SocketOne, OneInv
    <3>5. OnceInv'
      BY <2>1, <2>3, <3>1, <3>4, OnceStep DEF SocketOne, OneInv
    <3> QED  BY <3>2, <3>3, <3>4, <3>5 DEF OwnInv
  <2>4. OneOpener' => OneOpener
    BY <2>1, StepFrame DEF OneOpener
  <2> QED  BY <2>2, <2>3, <2>4 DEF SocketOne, OneInv
<1>2. CASE UNCHANGED vars
  <2> USE <1>2 DEF vars, kernelVars, argVars, fileVars, connVars, ringVars
  <2>1. OpenerInv' /\ (OneOpener' => OneOpener)
    BY DEF SocketOne, OpenerInv, Opener, OneOpener
  <2>2. OwnInv => OwnInv'
    BY DEF OwnInv, FreedInv, CookieInv, AcceptInv, KnownInv, Behind
  <2>3. ClosedInv => ClosedInv'
    BY DEF ClosedInv
  <2>4. SentInv => SentInv'
    BY DEF SentInv
  <2>5. IgnoreInv /\ ClientInv => IgnoreInv' /\ ClientInv'
    BY DEF IgnoreInv, ClientInv, IgnoredAtOpen
  <2>6. WillInv => WillInv'
    BY DEF WillInv, WillOpen, IgnoredAtOpen
  <2>7. LiveInv => LiveInv'
    <3>1. \A c \in Socks : OpenSent(c)' => OpenSent(c)
      BY DEF OpenSent
    <3>2. \A c \in Socks : Sent("close", c)' = Sent("close", c)
      BY DEF Sent
    <3>3. \A c \in Socks, f \in Fds : Behind(f, c) => Behind(f, c)'
      BY DEF Behind
    <3>4. \A e : WillOpen(e) => WillOpen(e)'
      BY DEF WillOpen
    <3>5. \A c \in Socks, f \in Fds : Live(c, f) => Live(c, f)'
      BY <3>3, <3>4 DEF Live, IgnoredAtOpen
    <3> QED  BY <3>1, <3>2, <3>5 DEF LiveInv
  <2>8. OnceInv => OnceInv'
    BY <2>4, <2>5, <2>6, <2>7 DEF OnceInv
  <2> QED  BY <2>1, <2>2, <2>3, <2>8 DEF SocketOne, OneInv
<1> QED  BY <1>1, <1>2

\* While one thread alone opens and closes descriptors, the cookie of every
\* connection and of every record is that of the socket behind its descriptor.
THEOREM SocketOneInvariant == Spec => []SocketOne
BY OneInit, OneStep, SocketInvariant, PTL DEF Spec

\* The bytes of a socket are reported under its own cookie, although connect may
\* replace the connection on a descriptor while another thread's probe holds it.
THEOREM SocketDataBelongs == Spec => []DataBelongs
<1>1. SocketOne => DataBelongs
  BY DEF SocketOne, OneInv, OwnInv, CookieInv, DataBelongs
<1> QED  BY <1>1, SocketOneInvariant, PTL

\* Nothing of a connection follows the record that closes it and, when nothing is
\* lost, a reported socket that is gone was closed by exactly one record, although
\* both the release of the file and the exit of close may report it.
THEOREM SocketCloseIsFinal == Spec => []CloseIsFinal
<1>1. ASSUME SocketInv, SocketOne PROVE CloseIsFinal
  <2> SUFFICES ASSUME OneOpener
               PROVE  /\ \A i, j \in DOMAIN ring :
                           ring[i].kind = "close" /\ j > i /\ ring[j].state = "sent" =>
                             ring[j].cookie # ring[i].cookie
                      /\ losses = 0 =>
                           \A c \in Socks :
                             /\ Sent("open", c) # {}
                             /\ \A f \in Fds : fdtab[f] # c
                             /\ \A t \in Threads : thr[t].sock # c
                             => \E i \in DOMAIN ring : Sent("close", c) = {i}
    BY DEF CloseIsFinal
  <2>1. ClosedInv /\ OnceInv
    BY <1>1 DEF SocketOne, OneInv
  <2>2. ASSUME losses = 0, NEW c \in Socks, Sent("open", c) # {}, \A f \in Fds : fdtab[f] # c,
               \A t \in Threads : thr[t].sock # c
        PROVE  \E i \in DOMAIN ring : Sent("close", c) = {i}
    <3>1. OpenSent(c)
      BY <2>2 DEF Sent, OpenSent
    <3>2. scope.strategy # "ignore"
      BY <1>1, <3>1 DEF OpenSent, SocketInv, FilterInv, Passes
    <3>3. \A f \in Fds : ~Live(c, f)
      BY <2>2 DEF Live, Behind
    <3> QED  BY <2>1, <2>2, <3>1, <3>2, <3>3 DEF OnceInv, LiveInv
  <2> QED  BY <2>1, <2>2 DEF ClosedInv
<1> QED  BY <1>1, SocketInvariant, SocketOneInvariant, PTL

=============================================================================
