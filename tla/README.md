# TLA+ verification of qtap

qtap watches the traffic of a host: eBPF probes report processes, sockets and
data to a Go program, which reassembles connections, parses protocols and
reports what it sees. This directory holds TLA+ models of its parts, the
configurations with which TLC checks them, and proofs that TLAPS checks. Every
definition is translated from the source; `PROJECT.json` (`map`) names the
lines, `hazards` says what could go wrong where and which property is about it.

## The system

| part | state | operations | hard part |
| --- | --- | --- | --- |
| kernel socket probes (`bpf/tap/socket.bpf.c`, `sock_pid_fd.bpf.c`) | `conn_info_map`, argument maps per call, ring buffer | probes at entry and exit of connect, accept, close, read, write ... | probes of several CPUs interleave; a full ring buffer loses events; descriptors are used again |
| kernel TLS probes (`bpf/tap/openssl`, `nodetls`, `gotls`, `javassl`) | maps by TLS object and by thread | entry and exit of library calls | which descriptor plaintext belongs to |
| kernel redirector (`bpf/tap/redirector.bpf.c`) | LRU maps by cookie and by source port | hooks on connect, established connections, getsockopt | ports are used again, entries are evicted |
| process probes and manager (`bpf/tap/process.bpf.c`, `pkg/process`) | map from pid, waiters, the kernel's copy of what is decided | `addProc`, `removeProc`, `Await`, `SetConfig`, `SetTlsOk` | pids are used again, observers' goroutines, missed notifications |
| connection manager (`pkg/connection`) | map from cookie to `Connection`; per connection a queue, a protocol, a hold, a stream | `HandleEvent`, the handlers, `Close` | the forwarder's goroutines also call `HandleEvent`; cookies come back |
| event queue (`pkg/synq/queue.go`) | list by priority, a one-place notification channel, two flags | `Push`, `Pop`, `PopN`, `Next`, `Close`, `Drain` | wake-ups, flags outside the mutex |
| streams (`pkg/stream/protocols`) | per protocol: pipes, buffers, sessions, pending commands | `Process`, `Close` | the HTTP/1 parser's goroutines and blocking pipes; matching answers with requests |
| plugins (`pkg/plugins`) | per transaction: a command queue, a worker, body buffers | callbacks, `Teardown` | full queue, cancellation, plugins that buffer and plugins that do not |
| services (`pkg/services`) | registries, reporter, stores | `Get`, `Close`, `report` | creation on demand, timers against `Close` |
| egress forwarder (`pkg/egress`) | listeners, certificate store | accept, dial, copy both ways | its done event against the socket's close event; certificates signed again in place |
| TLS probe manager (`pkg/ebpf/tls`) | attachments by pid, scans by container, Java sessions | process started, replaced, stopped | calls for a pid overlap in any order |
| DNS, containers, configuration, devtools, certificate injection | caches and listeners | updates and look-ups | expiry against renewal |

An event travels: probe -> ring buffer -> reader goroutine ->
`Manager.HandleEvent` -> the connection's queue -> the connection's `watch`
goroutine -> handler -> stream -> plugin connection -> stores. The forwarder,
when a socket is redirected to it, adds events of its own from three more
goroutines, its handler and a copy loop for each direction, and *holds* the
connection until its done event. The Java TLS engine adds plaintext and
protocols from the goroutine that reads its ring buffer.

## Modules

| module | models | based on |
| --- | --- | --- |
| `PriorityList` | the linked list of the queue: insertion, removal | `pkg/synq/queue.go` |
| `SynqQueue` | the queue with every step between locks, channel operations and flags | `pkg/synq/queue.go` |
| `PriorityBag` | abstract: a bag from which the oldest item of the best priority is taken | what the queue promises |
| `ConnManager` | map, connections, reader, forwarder, TLS engine and `watch` | `pkg/connection`, events of `pkg/ebpf/socket`, `pkg/egress` and `pkg/ebpf/tls/javassl` |
| `ConnDomain` | `SetDomain` and `Domain`, one access per step | `pkg/connection/connection.go` |
| `Http1Stream` | stream, sessions, parser, pipes | `pkg/stream/protocols/http1` |
| `Http2Stream` | stream, sessions, gRPC | `pkg/stream/protocols/http2` |
| `CommandStream` | the streams that match answers with commands | `pkg/stream/protocols/{redis,mysql,kafka}` |
| `LinkedBuffer`, `PluginConnection` | body buffers; queue, worker, `Teardown` | `pkg/synq/linked_buffer.go`, `pkg/plugins/connection.go` |
| `Reporter` | timer goroutine, `report`, `Close` | `pkg/services/reporter` |
| `SingleFlight`, `ServiceRegistry`, `ContainerScans` | one creation for many callers, and its two users | `pkg/synq/singleflight.go`, `pkg/services/registry.go`, `pkg/ebpf/tls/manager.go` |
| `TlsManager` | attachment of probes, keyed coordinator | `pkg/ebpf/tls` |
| `TTLCache` | a key of the cache with expirations | `pkg/synq/ttlcache.go`, `pkg/dns` |
| `CertStore` | `GetCert`, `AddDomain` | `pkg/egress/cert.go` |
| `ProbeFilters` | what settings and addresses decide | `bpf/tap/settings.bpf.c`, `net.bpf.h`, `socket.bpf.c` |
| `SocketProbes` | the probes on system calls | `bpf/tap/socket.bpf.c`, `sock_pid_fd.bpf.c` |
| `TlsProbes` | the probes on TLS libraries, above `SocketProbes` | `bpf/tap/openssl.bpf.c`, `nodetls`, `gotls`, `javassl` |
| `ProbeBuffers` | cutting of data into records, capture of hellos | `bpf/tap/socket.bpf.c`, `protocol.bpf.c` |
| `ProcessTracking` | probes, ring buffer, manager, observers, waiters | `bpf/tap/process.bpf.c`, `pkg/process` |
| `Redirector` | hooks and maps, and the forwarder's accept | `bpf/tap/redirector.bpf.c`, `pkg/egress/forwarder.go` |
| `JavaEngine` | probes on `SSLEngine`, correlation of sessions with sockets | `bpf/tap/javassl.bpf.c`, `pkg/ebpf/tls/javassl` |
| `SocketSteps` | the kinds of steps of `SocketProbes` and its invariants, for the proofs | |
| `*Proofs` | theorems and their lemmas | |
| `MC*` | instances for TLC | |

How they fit together. `SynqQueue` and `ConnManager` insert with the operators
of `PriorityList`; `ConnManager` uses the queue with its critical sections as
single steps, which `PromiseSpec` justifies. `TlsProbes` extends `SocketProbes`
with the library calls around the system calls, and `SocketProbes` and
`Redirector` decide with `ProbeFilters`. `ServiceRegistry` and
`ContainerScans` put their function into `SingleFlight`. `PluginConnection`
keeps bodies in `LinkedBuffer`, and relies on its callers for the order of
callbacks and `Teardown`, which `NoCallbackAfterTeardown` of `Http1Stream`
shows for HTTP/1. `Http1Stream` starts where `ConnManager` hands a data event
to the stream; the panic of its `Close` without a session is in `ConnManager`.

`MCAgent` and `MCParts` check parts that share no state. A behaviour of theirs
is one of one part, named by the variable `agentPart` or `part`, while the
others keep their initial state: the run checks all of them and multiplies no
state spaces. Fairness is asked of the part that runs.

### Queue

The items are in `items`; `mu` is the mutex, `notify` the one-place channel,
`closed` and `draining` the flags, `cancelled` the context. Producers run
`Push`; consumers `Next`, `Pop` or `PopN`; others `Drain` and `Close`. A call
that takes the mutex and one that waits on the channel are separate steps, as
are the flag of `Drain`, which is set outside the mutex, and the check of it in
`Push`. `Drain`'s timeout may fire at any time.

### Connection manager

`connections` is the map, and each connection has its queue, hold, protocol,
stream and place in `watch` (`wpc`). `HandleEvent` is two steps, look-up and
push, so that a connection can be closed in between. `processOpenEvent` is the
reader's alone: check, creation and store. `watch` runs one handler per step,
but for the stream's `Process`, which is entered in one step and returns in
another or never, and `Connection.Close`, whose parts (removal from the map,
drain, queue, stream, services) are steps, since other goroutines see them one
by one. `Sources` are the goroutines that call `HandleEvent`: the socket reader,
the TLS engine's reader, and for each redirected socket the forwarder's handler
and its two copy loops. A
panic in the HTTP/1 stream's `Close` takes `watch` back to its loop, which
then finds the queue closed. Process discovery is abstracted: it never changes
what happens to events.

### Domain and reporter

A Go string is two words and none of the accesses to a connection's domain is
locked, so each access to `domainIsIP` and each word of `domain` is a step.
Hosts are names, addresses, empty or invalid; `parseHostString` keeps the first
two. `SetDomain` is called by `watch` and by the goroutine that parses HTTP/1
requests; `Domain` by `watch`, the reporter, the plugins' workers and the
injectors of the stores, of which one caller stands for all that only ask. The
two words of an answer are read in one step; since they are stored apart, in
either order, an answer may still mix two hosts. The reporter's timer goroutine and the closing goroutine both run the
steps of `report`; the close event may come at any time before `Close`, also
while a report is being built.

### Streams

*HTTP/1.* A data event is what the parser finds in it: a head (of the kinds it
tells apart), a piece of a body, or its end. A pipe holds at most the write in
progress. Sessions are numbered; `rq`, `rs` and `ondone` are the places of the
goroutines of each. What stands in a body's place is read as body.

*HTTP/2.* A step is a frame of a stream, which client or server send as the
protocol allows; a header block in several frames is one step. `sessions` is
the map of the code and `plugs` records what each plugin connection was told.
A scope names the one stream that is used in a way the code does not expect,
so that the property can say that the others do not notice.

*Redis, MySQL, Kafka.* A step is a packet. A packet is reduced to what the
parser tells apart, which for MySQL is its first byte and whether it is shorter
than nine bytes. A history pairs every answer with the command it was
matched with, and the property compares it with what the server answered.

### Plugin connection

The parsers of the two directions enqueue commands, the worker runs each
through the stack, and `Teardown` closes the queue, waits and destroys. Every
plugin may continue, ask for buffering, or stop, at every callback. A byte of a
body is a number of its own, so that what a plugin sees can be compared with
what was sent.

### Kernel probes

A probe runs to its end on its CPU while others' run on theirs, so it is cut
where it reads or writes what another probe may use. `ring` is the ring buffer
in the order of the reservations, which may fail. The kernel's descriptors,
files and cookies are described as far as the probes see them; `__fput` comes
before or after the exit probe of close, and another thread may be given the
descriptor, and use and close it, before either has run. In `TlsProbes` a
library call makes system calls on its own connection or none, and the address
of a freed object is used again. `ProbeBuffers` has the real sizes: the limits
of the loops and the masks are what it is about. In `ProcessTracking` a pid has
one process after the other; `Redirector` has sockets, ports and LRU maps with
any victim.

### TLS probe manager

The calls for a pid overlap in any order. Each takes a token of the
coordinator and runs its functions under `Execute`, which waits for the one in
flight and gives way to a newer token. `JavaEngine` has the probes, the ring
buffer of each kind, and the handlers that match plaintext and sockets by the
prefix of a record.

## Runs

| run | shows |
| --- | --- |
| `queue` | `SynqQueue` implements `PriorityBag` (`PromiseSpec`); until the first `Drain` no wake-up is lost (`NoLostWakeup`) and `Next` returns when there is an item (`NextUnblocks`) |
| `conn_lifecycle` | one cookie, opened again: the hold is respected, no connection is orphaned, a connection whose close is accepted and that nothing holds is closed, unless its stream keeps `watch` for good (`ClosesEventually`), and its services with it |
| `conn_kinds` | two sockets and every kind of event: what was queued before the close event is handled before it |
| `http1` | no callback after `Teardown`; `Close` returns; writes return in ordinary traffic |
| `socket_probes` | nothing is reported of a connection before its open event (`ReportedBeforeUsed`), the filters hold and nothing stays in the maps; where one thread opens and closes, the close event is the last and comes once (`CloseIsFinal`) |
| `tls_probes` | data is reported for the connection whose call moved it (`DataBelongs`), the descriptor remembered for a TLS object is the one it is bound to, and no ciphertext is reported beside the plaintext |
| `agent` | reporter: parts in order and final. Attachment: one function at a time, the newest call's probes are the ones attached, calls return. Registry: `Close` closes what was handed out. Scans: none beyond the maximum. Plugin connection: everything enqueued is run unless cancelled, a plugin that buffers sees every byte, `Teardown` returns. Certificates cover the domain they were returned for. Cache: a fresh entry stays |
| `parts` | domain: an answer that is a name stays. Buffers: records cover the data and nothing else, hellos are whole. Processes: what ran is known once all is quiet, observers are told. Redirector: the forwarder is told the destination asked for. Java: plaintext goes to its connection. Commands: answers match, plugin connections are released. HTTP/2: `ExchangesAsSent` |
| `http1_keep_alive` | violated: the flush swallows the next exchange |
| `tls_freed` | violated: where the return register is not that of the first argument, `SSL_free` leaves its entry |
| `process_meta` | violated: changes of a process that ran before qtap do not reach the kernel |
| `attach_left` | violated: probes whose attachment was overtaken stay open after `ProcessStopped` |

A violated run states what a comment in the source says; `findings` in
`PROJECT.json` quotes it. Every property that holds has a mutant of the code's
model under which it fails.

### Behaviours that the properties except

Some conditions in the properties that hold mark behaviours of the code that
are worth knowing, and so does what the properties leave unsaid.

* Queue: a `Drain` that runs beside `Next` may take its notification. In qtap
  both run on `watch`.
* Connections: what is queued behind the close event is discarded, although
  `connection.go:376` says that it is processed, because the goroutine that
  drains is the one that takes events. A done event that comes before the open
  event is dropped and its connection stays held. The panic of an HTTP/1 stream
  without data leaves the services open.
* Domain: with overlapping calls an address may replace a name
  (`connection.go:459`), contrary to the comment at `connection.go:415`.
* HTTP/1: a 100 Continue that is parsed before `expectingContinue` is stored
  releases nobody, and the write of the body blocks until `Close`. After 101
  nobody reads the response pipe, and a message that cannot be parsed ends its
  reader. The upgrade of an unparsable request makes `Close` wait for the
  goroutine it runs on.
* HTTP/2: data frames are taken by the state of the session, not by direction,
  so what the client sends after the response has begun becomes response data,
  and its end ends the response. A 1xx response is taken for the final one. A
  stream that was skipped or reset and still has frames gets a new session, in
  which headers become a request. A header block in several frames ends the
  stream unless gRPC was seen, as does a connection seen from the server's side
  or from its middle on. Sessions of late frames stay until `Close`.
* MySQL: commands without an answer other than COM_QUIT shift the matching, as
  does the loss of the oldest command at the limit; an empty result set with a
  short terminator and a switch of the authentication method are taken for
  something else. `Close` leaves the plugin connection of the result set it
  interrupts. Redis: the same for commands with no answer or more than one.
  Kafka: a correlation id that is used again replaces the first request.
* Reporter: when a timer's report is being saved, `Close` sends no final one.
* Attachment: a pid that is used again may meet a token of the old process
  (`keyed_coordinator.go:37`); an overtaken attachment is not closed.
* Cache: an operation that crosses the collection of its key is undone, or
  leaves an entry that is never collected.
* Certificates: a domain that two handshakes add at once takes two places.
* Processes: a waiter that is not in its `select` yet is passed over
  (`manager.go:290`); a `SetMeta` that was overtaken is not
  corrected, and one for a process that has exited deletes the entry of a later
  process with its pid (`ebpf.go:169`).
* Java: a descriptor that is correlated by records unwrapped after its close
  mutes the next connection on it.
* Probes: when a descriptor is handed to another thread before the probes of its
  close have run, they find the new connection (`sock_pid_fd.bpf.c:130`): the
  close of the old one is not reported, the new one is reported closed while it
  is open, or its data is reported for the old one. `CloseIsFinal` and
  `DataBelongs` are about programs in which one thread opens and closes
  (`OneOpener`). A lost close event is not sent again. A hello of 2048 bytes or
  more may be captured short, because the mask is not one of low bits; one that
  is spread over a vector is read from the first piece on, whatever its length.

### Bounds

* Queue: a producer, two consumers and a drainer, three items of two
  priorities in batches of up to two: enough for equal and different priorities
  to meet on both sides of an insertion, and for one notification to serve two
  waiters. `Push` holds the mutex from its first step to its last, so a second
  producer would add nothing.
* Connections: one redirected cookie opened twice, or a redirected and an
  upstream cookie with every kind of event. Two connections of one cookie are
  what it takes for one to disturb the other's entry; the number of events
  (five, or three of all kinds) lets the backlog, close and done meet in every
  order, with a stream that has seen data, has seen none, or never returns.
* HTTP/1: all sequences of three events, longer ones with bodies in both
  directions, and two sessions. A third session would repeat the second.
* HTTP/2: two streams, so that one can disturb the other, a data frame of each
  side on each (two were checked once, with the same result), and every way of
  use that the code treats differently.
* Commands: four commands with a limit of two pending, so that the limit is
  passed and answers follow.
* Socket probes: two threads, a descriptor with up to two sockets, one lost
  record; seven mixes of calls with up to four on a thread, in one of which both
  threads open and close. TLS probes: a thread
  with two descriptors and two objects, one mix for each library. The sockets
  and map elements are symmetric.
* Buffers: sizes at each side of every limit, alone and in vectors of three.
* Processes: a pid with up to three objects; five budgets of forks, execs,
  threads, changes, losses and waiters.
* Redirector: three sockets, two ports and maps of two entries: a port can be
  used again, and an entry evicted, while the first connection is open.
* Java: two connections on one descriptor or on two, with three records.
* Attachment: three calls on two processes of a pid. Registry and scans: four
  goroutines. Plugin connection: a queue of two, a buffer of three bytes, two
  plugins, bodies that fit, fill, overflow and exceed the buffer.
  Certificates: four handshakes, two good domains and a bad one, two names in a
  certificate. Cache: three operations of every kind beside the collector.
  Reporter: a first report, a pending tick and two more.

Deadlock is not checked where the system may stop: when a bound is reached, a
connection is closed, or everybody has returned. What must go on is stated as
liveness.

### Fairness

Weak fairness is assumed of every step that a goroutine can take by itself: a
Go goroutine that is runnable runs. In `ConnManager` this leaves out the steps
in which `watch` is inside the stream's `Process` or `Close` (`InStream`): the
HTTP/1 stream may wait for the reader of a pipe (`parser.go:141`), so that
whether these return is the subject of `http1`, and `ClosesEventually` excepts a
`watch` that stays there. Nothing is assumed of what comes from
outside: opens, data, closes, timers, processes. `Drain`'s timeout is fair,
because it is a timer that is running. In `MCAgent` fairness is asked of the
steps of the calls of the TLS manager and of the worker and `Teardown` of a
plugin connection: scans, factories and plugins are taken to return.

## Proofs

The theorems hold for every value of the constants that satisfies the named
assumptions of the modules (`QueueAssumption`, `ManagerAssumption`,
`RdrAssumption`, `FlightAssumption`, `ScansAssumption`, `CertAssumption`,
`ReporterAssumption`, `AttachAssumption`, `SocketAssumption`, `ProcAssumption`,
`PluginAssumption`, `DomainAssumption`, `CmdAssumption`). Each is proved from an inductive invariant, with one step for each action.

* `PriorityListProofs`: insertion and removal keep a list ordered, add or
  remove one element, and place an item behind all of its priority.
* `SynqQueueProofs`: `QueueTypeCorrect`, `QueueOrder`, `QueueConservation`,
  `QueueDrained`, `QueueWakeup`, and the refinement `QueueImplementsBag`. The
  invariant ties the program counters to the mutex (only its holder is in a
  critical section), the list to the histories (what was pushed is delivered,
  discarded or queued, each once, in order), and, for `QueueDrained`, says that
  whoever has passed the check of `draining` holds the mutex. `QueueWakeup`
  needs in addition that a signal is owed from the moment a `Push` gives up the
  mutex.
* `ConnManagerProofs`: `ManagerTypeCorrect`, `ManagerHold`,
  `ManagerBacklog`, `ManagerNoOrphan`, `ManagerOwnEntry`, `ManagerCloseOnce` and
  `ManagerServicesClosed`. `IInv` has five parts: types; the map (entries point
  to connections of their cookie, a connection that waits for events is entered,
  and the reader's check of a cookie stays true until it stores); what is
  closed; the hold (a connection is released only by its done event); and the
  queue (ordered, and the close event behind the backlog). The map's part is the
  one that needs strengthening: that no two connections of a cookie live at once
  follows only together with where the reader and every `watch` stand. The
  services need that `watch` ends behind them, or behind the panic of a stream
  that saw no data.
* `SocketProbesProofs`: see below.
* `TlsManagerProofs`: `AttachInvariant`, `AttachSerialized`,
  `AttachNewestAttached`, for any number of calls on a pid. The invariant says
  for each call which token it holds and how far it has come, who is in flight
  and which newer call is responsible when it was overtaken, what is stored and
  what is open. A call that acts out of date makes both theorems' premise false
  for good. The module's last part is about the domain of a connection:
  `DomainAnswerStays`, an action property. While no two calls have overlapped,
  only the one that runs may be between its stores; once a name was returned it
  is stored whole and is not flagged as an IP, and every path that would store
  another host is left before its first store.
* `ProcessTrackingProofs`: `ProcessEveryoneTold` and `ProcessKnownWhenQuiet`.
  The first needs that an object is marked as exited exactly when its stop was
  told or a goroutine is about to tell it, that a waiter that is in no list is
  in that of a goroutine about to notify it, and that `exit_code_map` has a code
  only of the process that is there. The second has two halves. What the manager
  knows: for a process that was seen to call execve, the records of its pid that
  are still in the ring buffer decide what the manager will know, and when there
  are none it knows it already (`RingInv`); a record handled, or a step of the
  kernel that adds one, moves along that line. What the kernel's map has: every
  stored process is there or somebody is about to put it there, as long as no
  `SetMeta` was overtaken (`MetaInv`), and an object is stored from `Store` until
  its exit is handled (`KeepInv`).
* `CommandStreamProofs`: `CmdInvariant`, `CmdPluginsReleased` and
  `CmdAnswersMatch`, for the three protocols at once. A command is owed an
  answer, is being answered or is done, and its plugin connection is open
  exactly while the queue, the map of correlation ids or the result set that is
  being read holds it. For the matching: what is pending is what is on the wire
  and what is owed, in the same order (Redis, MySQL), or under its id (Kafka);
  and the phase of a result set, with the columns it still expects, describes
  the packets that are left of it (`SetIsWhole` and the lemmas after it, for
  both forms of the protocol), so that it ends with the last one.
* `AgentProofs`, the smaller parts:
  * redirector: `RdrDestinationKept`, `RdrTerminatedIsOk`, `RdrSourceIsOwner`,
    `RdrNoLoop`. The keys of two maps name an address and a port, not a socket.
    The invariant says that sockets whose port is not free have different ports
    (`PortInv`), so that the entries of such a socket are its own or are gone
    (`LruInv`).
  * registry: `RegistryOneService`, `RegistryOwnError`,
    `RegistryHandedOutIsClosed`. A goroutine that runs the function is the one
    in the map of `SingleFlight`; nothing is registered while it creates; every
    result without an error is the registered service.
  * scans: `ScansAreBounded`. The same fact about `SingleFlight`, and a count:
    the scans are the attempts, the one that runs and those that panicked.
  * certificates: `CertStoreCovers`, `CertStoreBounded`. What is signed is among
    the names of the template, and the counter is the number of names signed in
    the current certificate, also when a name that cannot be signed has stayed
    in its template.
  * reporter: `ReporterInOrder`. Only the holder of the lock is between reading
    the count and storing it, and the count is the number of reports saved.
  * plugin connections: `PluginEverythingRan`. What was accepted is what was run
    followed by what is queued, in this order; only `Teardown` closes the queue,
    and a worker that ends without a timeout leaves it closed and empty.
  * cache: `CacheFreshStays`, an action property. The collector deletes an entry
    only after it found the expiration passed; whatever renews the entry in
    between has crossed it.

### The socket probes

`SocketProbes` has 48 actions and 16 variables, and each of its invariants is
about what several probes do to one descriptor. `SocketSteps` therefore names 13
kinds of steps (a call arrives at a descriptor, goes on, leaves, waits in
accept; a descriptor is installed; a connection is inserted; its open record is
reserved, submitted, the connection marked; a close begins, the descriptor is
freed, the file released, the exit probe run), each stated by what it does to
the variables that an invariant reads. `SocketProbesProofs` shows that every kind
keeps every invariant, then that every action is one of the kinds (`NextSteps`),
and draws the conclusions. There are two layers.

* `SocketInv` holds for every program: types, where each thread stands
  (`CallsInv`), that a connection is under one descriptor and whoever holds it
  works there (`HeldInv`), that for everything left in a map somebody is there to
  remove it (`LeftInv`, `ArgsInv`), that a reserved record is one thread's
  (`SlotInv`), that a connection marked open was reported (`OpenInv`) and what
  the settings let pass (`FilterInv`). `SocketReportedBeforeUsed`,
  `SocketNothingLeftBehind` and `SocketFiltersHold` follow. The subtle part of
  `OpenInv`: two probes may report the same connection, and the second store of
  the cookie must be of the same cookie (`Settled`).
* `SocketOne` holds where one thread opens and closes descriptors (`OneOpener`):
  the cookie of a connection is that of the socket behind its descriptor
  (`OwnInv`), what was reported closed is gone (`ClosedInv`), and, when no record
  is lost, a socket that was reported was closed once or its connection is still
  in the map and open, or about to be (`OnceInv`). `SocketDataBelongs` and
  `SocketCloseIsFinal` follow. Without `OneOpener` both are false (see above),
  which TLC shows in a few seconds. The last part needs that a connection that a
  second `connect` replaces is a client's, so that the one that replaces it is
  opened in its place.

Both layers were checked with TLC before they were proved, on the mixes of the
run and on mixes in which two threads connect the same socket.
`SocketDataBelongs` is about the system calls alone; with the TLS libraries
above them (`TlsProbes`) the property is model-checked.

### Only model-checked

* Liveness (`NextUnblocks`, `ClosesEventually`, `CloseReturns`,
  `OrdinaryWriteReturns`, `CallsReturn`, `TeardownReturns`), which is beyond the
  prover.
* `SeesBuffered`, `RecordsCover` and `HelloWhole`: what a loop over slices or
  pieces computes needs induction over data, and `ProbeBuffers` uses bit masks.
* `NoCallbackAfterTeardown`, `FlushedIsExtra` and `ExchangesAsSent`, which
  compare what plugins saw of an HTTP stream with a whole exchange.
* `RememberedIsBound`, `NoCiphertext`, `PlaintextDelivered` and
  `CorrelatedIsCurrent`: within the prover's reach, and not proved.

## Assumptions about what is outside

* Kernel: a program uses its descriptors correctly (it does not close one that
  another thread uses); an element that a probe deleted from a map is not
  recycled while another probe holds it; `connect` holds the lock of its socket;
  a source port is given away when both ends of its connection are closed; no
  entry of `map_socks` is evicted before its connection is established.
* Java: records that differ have different prefixes of 16 bytes and fit in one
  event, and connections have sessions of their own where a property says so.
* Streams: both directions arrive in order and an answer after its command.
  HTTP/2 frames arrive whole, and the preface in the first event of its
  direction.

## What is not modelled

Formatting, logging, metrics, tags and labels, byte-level parsing and
compression are abstracted to their outcome; malformed messages are modelled for
HTTP/1 only. Memory effects are modelled where fields are shared without a lock
(`ConnDomain`); other unlocked reads, such as that of a response's header by the
worker while `HandleTrailers` changes it, are not. `PROJECT.json`
(`components`) lists every part. Those that have no module:

* generated code: the kernel's type definitions (`vmlinux.h` of each
  architecture, which are nearly all of the lines of C under `src/`), libbpf's
  helpers and the loaders of bpf2go. They have no behaviour to model, and the
  share of the source's lines that `map` names is small because of them: of the
  roughly 8,300 lines of C that are written by hand more than half are mapped,
  and the rest are declarations, logging and the parts named here.
* the certificate probes and the Java agent bridge, which have no state;
* plugins, event and object stores, container monitors, configuration
  providers, certificate injection, devtools, heartbeat, status, telemetry and
  the command line: I/O towards something that decides what happens, without
  state shared between goroutines beyond a map under a lock;
* the parsers of binaries and of TLS messages: byte-level formats.

Left out of parts that are modelled: the deployment of plugin stacks from a
configuration, the replacement of service factories, `Close` of the TLS manager
at the end of the program, the forwarder's TLS handshakes, and protocol
detection, which is modelled by its outcome.
