---------------------------- MODULE ConnManager -----------------------------
(***************************************************************************)
(* connection.Manager and connection.Connection (pkg/connection).          *)
(*                                                                         *)
(* Manager.HandleEvent is called by the goroutine that reads the socket    *)
(* ring buffer (Reader), by the one that reads the records of Java's TLS   *)
(* engine (Engine, pkg/ebpf/tls/javassl/engine.go), and by the goroutines  *)
(* of the egress forwarder that claim a redirected socket: the handler of  *)
(* the connection (Main) and its two copy loops (Tee).  A call loads the   *)
(* Connection from the map and, in a later step, pushes the event to the   *)
(* Connection's queue.  Each Connection has one goroutine, watch, which    *)
(* takes the events in the order of the queue and runs their handlers,     *)
(* Connection.Close included.  The stream's Process and Close need not     *)
(* return: a call of Process is two steps, of which only the first is fair.*)
(*                                                                         *)
(* The queue is synq.Queue (module SynqQueue) with its critical sections   *)
(* as single steps.  A Connection is numbered by the order of creation.    *)
(***************************************************************************)
EXTENDS PriorityList, FiniteSets

CONSTANTS
    Cookies,       \* socket cookies, the keys of the connection map
    Redirected,    \* cookies of sockets redirected to the egress forwarder
    Reader,        \* the goroutine that reads the ring buffer
    ReaderEvents,  \* events the ring buffer may carry besides open
    Engine,        \* the goroutine that reads the records of the TLS engine
    EngineEvents,  \* events it may write
    MainEvents,    \* events the forwarder's handler may write before done
    Lowest,        \* math.MaxInt, the priority of an event without one
    AuditDNS,      \* config.Tap.AuditIncludeDNS
    MaxConns,      \* bound: Connections created in a behaviour
    MaxEvents      \* bound: events handled in a behaviour

Protocols == {"unknown", "http1", "dns", "other"}
HandlerTypes == {"RAW", "REDIRECTED", "FORWARDING"}

\* The events with a priority, and what the handlers look at.
Event ==
    [kind : {"Protocol"}, arg : Protocols]
      \cup [kind : {"HandlerType"}, arg : HandlerTypes]
      \cup [kind : {"Error", "TLSClientHello", "TLSServerHello", "Hostname",
                    "OriginalDestination", "Data", "Close", "Done"}, arg : {""}]

Ev(kind) == [kind |-> kind, arg |-> ""]

ASSUME ManagerAssumption ==
    /\ Redirected \subseteq Cookies
    /\ ReaderEvents \subseteq Event /\ MainEvents \subseteq Event /\ EngineEvents \subseteq Event
    /\ \A e \in ReaderEvents \cup MainEvents : e.kind # "Done"
    /\ \A e \in MainEvents : e.kind # "Close"
    /\ \A e \in EngineEvents : e.kind \in {"Protocol", "Data"}
    /\ Engine # Reader
    /\ Lowest \in Int /\ Lowest > 10
    /\ AuditDNS \in BOOLEAN
    /\ MaxConns \in Nat /\ MaxEvents \in Nat

Main(k) == <<"main", k>>
Directions == {"ingress", "egress"}
Tee(k, dir) == <<dir, k>>
Sources ==
    {Reader, Engine} \cup {Main(k) : k \in Redirected}
      \cup {Tee(k, "ingress") : k \in Redirected} \cup {Tee(k, "egress") : k \in Redirected}

Instances == 1 .. MaxConns
None == 0

VARIABLES
    connections,  \* the map from cookie to Connection
    made,         \* number of Connections created
    key,          \* cookie of each Connection
    items,        \* its event queue
    draining,     \* the queue's draining flag
    closed,       \* the queue's closed flag
    pushed,       \* number of events accepted by the queue
    held,         \* Connection.held
    closeEvent,   \* Connection.CloseEvent is set
    handler,      \* Connection.HandlerType
    protocol,     \* Connection.Protocol
    stream,       \* Connection.streamProcessor: "nil", "fresh" (no data yet),
                  \* "busy" (watch is in its Process), "live" or "closed"
    skip,         \* Connection.skipStreamProcessing
    process,      \* Connection.process is known
    reporter,     \* the reporter service: "off", "on" or "closed"
    wpc,          \* where watch is
    call,         \* the HandleEvent call each source is in
    sent,         \* number of HandleEvent calls
    finished,     \* cookies whose handler has written its done event
    began,        \* history: pushed when Connection.Close began
    lost,         \* history: events discarded by the queue's Close
    released      \* history: a done event has been processed

mapvars == <<connections, made, key>>
queuevars == <<items, draining, closed, pushed>>
connvars == <<held, closeEvent, handler, protocol, stream, skip>>
svcvars == <<process, reporter>>
srcvars == <<call, sent, finished>>
histvars == <<began, lost, released>>
vars == <<mapvars, queuevars, connvars, svcvars, wpc, srcvars, histvars>>

\* A source inside HandleEvent, and outside.
InCall(at, i, k, e) == [at |-> at, conn |-> i, key |-> k, ev |-> e]
Idle == InCall("idle", None, "", Ev(""))

Init ==
    /\ connections = [k \in Cookies |-> None]
    /\ made = 0
    /\ key = [i \in Instances |-> ""]
    /\ items = [i \in Instances |-> <<>>]
    /\ draining = [i \in Instances |-> FALSE]
    /\ closed = [i \in Instances |-> FALSE]
    /\ pushed = [i \in Instances |-> 0]
    /\ held = [i \in Instances |-> FALSE]
    /\ closeEvent = [i \in Instances |-> FALSE]
    /\ handler = [i \in Instances |-> "RAW"]
    /\ protocol = [i \in Instances |-> "unknown"]
    /\ stream = [i \in Instances |-> "nil"]
    /\ skip = [i \in Instances |-> FALSE]
    /\ process = [i \in Instances |-> FALSE]
    /\ reporter = [i \in Instances |-> "off"]
    /\ wpc = [i \in Instances |-> "none"]
    /\ call = [s \in Sources |-> Idle]
    /\ sent = 0
    /\ finished = {}
    /\ began = [i \in Instances |-> 0]
    /\ lost = [i \in Instances |-> {}]
    /\ released = [i \in Instances |-> FALSE]

-----------------------------------------------------------------------------
\* HandleEvent

\* Mutant: the close event has the priority of the protocol event.
ClosePriorityOne(kind) ==
    CASE kind \in {"Hostname", "OriginalDestination"} -> 3
      [] kind = "Data" -> 5
      [] kind = "Done" -> Lowest
      [] OTHER -> 1

\* QueuePriority() of each event; DoneEvent has none.
QueuePriority(kind) ==
    CASE kind \in {"Protocol", "Error", "HandlerType", "TLSClientHello",
                   "TLSServerHello"} -> 1
      [] kind \in {"Hostname", "OriginalDestination"} -> 3
      [] kind = "Data" -> 5
      [] kind = "Close" -> 10
      [] OTHER -> Lowest

\* Mutant: the reader does not look whether the cookie is already known.
OpenUnchecked(k) ==
    /\ call[Reader].at = "idle"
    /\ made < MaxConns
    /\ call' = [call EXCEPT ![Reader] = InCall("await", None, k, Ev(""))]
    /\ UNCHANGED <<mapvars, queuevars, connvars, svcvars, wpc, sent, finished, histvars>>

\* processOpenEvent returns at once when the cookie is known; otherwise it
\* waits for the process manager to find the process.
OpenEvent(k) ==
    /\ call[Reader].at = "idle"
    /\ made < MaxConns
    /\ connections[k] = None
    /\ call' = [call EXCEPT ![Reader] = InCall("await", None, k, Ev(""))]
    /\ UNCHANGED <<mapvars, queuevars, connvars, svcvars, wpc, sent, finished, histvars>>

\* Await returns the process, or 50 ms are over; the new Connection is stored.
NewConnection(found) ==
    LET k == call[Reader].key
        i == made + 1
    IN  /\ call[Reader].at = "await"
        /\ made' = i
        /\ key' = [key EXCEPT ![i] = k]
        /\ connections' = [connections EXCEPT ![k] = i]
        /\ held' = [held EXCEPT ![i] = k \in Redirected]
        /\ handler' = [handler EXCEPT ![i] = IF k \in Redirected THEN "REDIRECTED" ELSE "RAW"]
        /\ process' = [process EXCEPT ![i] = found]
        /\ call' = [call EXCEPT ![Reader] = InCall("open", i, k, Ev(""))]
        /\ UNCHANGED <<queuevars, closeEvent, protocol, stream, skip, reporter, wpc,
                       sent, finished, histvars>>

\* Connection.Open starts watch.
Open ==
    /\ call[Reader].at = "open"
    /\ wpc' = [wpc EXCEPT ![call[Reader].conn] = "next"]
    /\ call' = [call EXCEPT ![Reader].at = "report"]
    /\ UNCHANGED <<mapvars, queuevars, connvars, svcvars, sent, finished, histvars>>

ShouldReport(i) == handler[i] # "FORWARDING" /\ (protocol[i] = "dns" => AuditDNS)

\* The last lines of processOpenEvent: setupReporters when shouldReport says so.
SetupReporters ==
    LET i == call[Reader].conn
    IN  /\ call[Reader].at = "report"
        /\ reporter' = [reporter EXCEPT ![i] = IF ShouldReport(i) THEN "on" ELSE "off"]
        /\ call' = [call EXCEPT ![Reader] = Idle]
        /\ UNCHANGED <<mapvars, queuevars, connvars, process, wpc, sent, finished, histvars>>

\* HandleEvent of any other event: load the Connection, and look for its
\* process again if that is not known.  Without a Connection the event is
\* dropped.
HandleEvent(s, k, e) ==
    LET i == connections[k]
    IN  /\ call[s].at = "idle"
        /\ sent < MaxEvents
        /\ sent' = sent + 1
        /\ \/ /\ i # None
              /\ \E found \in BOOLEAN :
                    process' = [process EXCEPT ![i] = process[i] \/ found]
              /\ call' = [call EXCEPT ![s] = InCall("push", i, k, e)]
           \/ /\ i = None
              /\ UNCHANGED <<process, call>>
        /\ UNCHANGED <<mapvars, queuevars, connvars, reporter, wpc, histvars>>

\* Push refuses the event when the queue drains or is closed.  The event is
\* linked in behind the last one it may not pass; for a done event that is the
\* tail, as append has it.
PushEvent(s) ==
    LET i == call[s].conn
        e == call[s].ev
        item == [id |-> pushed[i] + 1, prio |-> QueuePriority(e.kind), ev |-> e]
    IN  /\ call[s].at = "push"
        /\ \/ /\ draining[i] \/ closed[i]
              /\ UNCHANGED <<items, pushed>>
           \/ /\ ~draining[i] /\ ~closed[i]
              /\ pushed' = [pushed EXCEPT ![i] = @ + 1]
              /\ \E pos \in 1 .. Len(items[i]) + 1 :
                    /\ InsertionPoint(items[i], item.prio, pos)
                    /\ items' = [items EXCEPT ![i] = LinkAt(items[i], pos, item)]
        /\ call' = [call EXCEPT ![s] = Idle]
        /\ UNCHANGED <<mapvars, draining, closed, connvars, svcvars, wpc, sent,
                       finished, histvars>>

ReaderEvent(k, e) == HandleEvent(Reader, k, e) /\ UNCHANGED finished

\* Plaintext of a session that was correlated with the socket, and its protocol.
EngineEvent(k, e) == HandleEvent(Engine, k, e) /\ UNCHANGED finished

\* The events of the forwarder's handler for the socket k; the handler type
\* FORWARDING goes to the upstream socket, which is not redirected.
MainEvent(k, k2, e) ==
    /\ k \notin finished
    /\ IF e = [kind |-> "HandlerType", arg |-> "FORWARDING"] THEN k2 \notin Redirected ELSE k2 = k
    /\ HandleEvent(Main(k), k2, e)
    /\ UNCHANGED finished

\* The deferred WriteDoneEvent ends the handler; the copy loops may still run.
DoneEvent(k) ==
    /\ k \notin finished
    /\ HandleEvent(Main(k), k, Ev("Done"))
    /\ finished' = finished \cup {k}

TeeEvent(k, dir) == HandleEvent(Tee(k, dir), k, Ev("Data")) /\ UNCHANGED finished

-----------------------------------------------------------------------------
\* watch: Next and processEvent

\* The event Next hands to watch.
IsNext(i, kind) ==
    /\ wpc[i] = "next" /\ stream[i] # "busy"
    /\ items[i] # <<>>
    /\ Head(items[i]).ev.kind = kind

\* Next unlinks the head.
Take(i) ==
    /\ items' = [items EXCEPT ![i] = Tail(items[i])]
    /\ UNCHANGED <<mapvars, draining, closed, pushed, srcvars, svcvars>>

Stay == UNCHANGED <<wpc, histvars>>

\* A second event with the protocol already known only marks a TLS upgrade;
\* otherwise the stream factory makes a processor for the protocol, or none.
ProcessProtocolEvent(i) ==
    /\ IsNext(i, "Protocol")
    /\ Take(i) /\ Stay
    /\ LET p == Head(items[i]).ev.arg
       IN  \/ /\ protocol[i] = p /\ p # "unknown"
              /\ UNCHANGED <<protocol, stream>>
           \/ /\ protocol[i] # p \/ p = "unknown"
              /\ protocol' = [protocol EXCEPT ![i] = p]
              /\ \E st \in IF p = "unknown" THEN {"nil"} ELSE {"nil", "fresh"} :
                    stream' = [stream EXCEPT ![i] = st]
    /\ UNCHANGED <<held, closeEvent, handler, skip>>

\* The stream's Process is called with the data ...
ProcessDataEvent(i) ==
    /\ IsNext(i, "Data")
    /\ Take(i) /\ Stay
    /\ stream' = [stream EXCEPT ![i] = IF @ \in {"fresh", "live"} /\ ~skip[i] THEN "busy" ELSE @]
    /\ UNCHANGED <<held, closeEvent, handler, protocol, skip>>

\* ... and returns, if it does: it may wait for a reader of a pipe, see
\* Http1Stream.  Its error may say that it cannot go on.
ProcessReturns(i) ==
    /\ stream[i] = "busy"
    /\ stream' = [stream EXCEPT ![i] = "live"]
    /\ \E unrecoverable \in BOOLEAN : skip' = [skip EXCEPT ![i] = unrecoverable]
    /\ UNCHANGED <<mapvars, queuevars, held, closeEvent, handler, protocol, svcvars,
                   wpc, srcvars, histvars>>

ProcessHandlerTypeEvent(i) ==
    /\ IsNext(i, "HandlerType")
    /\ Take(i) /\ Stay
    /\ handler' = [handler EXCEPT ![i] = Head(items[i]).ev.arg]
    /\ UNCHANGED <<held, closeEvent, protocol, stream, skip>>

\* The handlers that only record a name, an address, a hello message or the
\* failure of the process's TLS handshake (for the name see ConnDomain).
ProcessInfoEvent(i) ==
    /\ \E kind \in {"Hostname", "OriginalDestination", "TLSClientHello",
                    "TLSServerHello", "Error"} : IsNext(i, kind)
    /\ Take(i) /\ Stay
    /\ UNCHANGED connvars

\* Connection.Close is entered.
EnterClose(i) ==
    /\ wpc' = [wpc EXCEPT ![i] = "finalize"]
    /\ began' = [began EXCEPT ![i] = pushed[i]]

\* Mutant: the close event closes a connection that is still claimed.
CloseThoughHeld(i) ==
    /\ IsNext(i, "Close")
    /\ Take(i)
    /\ closeEvent' = [closeEvent EXCEPT ![i] = TRUE]
    /\ EnterClose(i)
    /\ UNCHANGED <<held, handler, protocol, stream, skip, lost, released>>

ProcessCloseEvent(i) ==
    /\ IsNext(i, "Close")
    /\ Take(i)
    /\ closeEvent' = [closeEvent EXCEPT ![i] = TRUE]
    /\ IF held[i] THEN UNCHANGED <<wpc, began>> ELSE EnterClose(i)
    /\ UNCHANGED <<held, handler, protocol, stream, skip, lost, released>>

\* Mutant: the done event only releases the hold.
DoneOnlyReleases(i) ==
    /\ IsNext(i, "Done")
    /\ Take(i)
    /\ held' = [held EXCEPT ![i] = FALSE]
    /\ released' = [released EXCEPT ![i] = TRUE]
    /\ UNCHANGED <<closeEvent, handler, protocol, stream, skip, wpc, began, lost>>

\* The done event releases the hold and closes a connection whose socket has
\* closed already.
ProcessDoneEvent(i) ==
    /\ IsNext(i, "Done")
    /\ Take(i)
    /\ held' = [held EXCEPT ![i] = FALSE]
    /\ released' = [released EXCEPT ![i] = TRUE]
    /\ IF closeEvent[i] THEN EnterClose(i) ELSE UNCHANGED <<wpc, began>>
    /\ UNCHANGED <<closeEvent, handler, protocol, stream, skip, lost>>

-----------------------------------------------------------------------------
\* Connection.Close, on the goroutine of watch

At(i, from, to) == wpc[i] = from /\ wpc' = [wpc EXCEPT ![i] = to]

\* finalizeConnection deletes the map entry of the cookie.
Finalize(i) ==
    /\ At(i, "finalize", "drain")
    /\ connections' = [connections EXCEPT ![key[i]] = None]
    /\ UNCHANGED <<made, key, queuevars, connvars, svcvars, srcvars, histvars>>

\* Drain stops the producers ...
Drain(i) ==
    /\ At(i, "drain", "draining")
    /\ draining' = [draining EXCEPT ![i] = TRUE]
    /\ UNCHANGED <<mapvars, items, closed, pushed, connvars, svcvars, srcvars, histvars>>

\* ... and waits for an empty queue; after three seconds it gives up.
DrainReturn(i) ==
    /\ At(i, "draining", "shut")
    /\ UNCHANGED <<mapvars, queuevars, connvars, svcvars, srcvars, histvars>>

\* The queue's Close throws away what is left.
CloseQueue(i) ==
    /\ At(i, "shut", "stream")
    /\ closed' = [closed EXCEPT ![i] = TRUE]
    /\ items' = [items EXCEPT ![i] = <<>>]
    /\ lost' = [lost EXCEPT ![i] = Range(items[i])]
    /\ UNCHANGED <<mapvars, draining, pushed, connvars, svcvars, srcvars, began, released>>

\* Mutant: closing panics for a connection without a stream as well.
PanicsNil(i) == stream[i] \in {"nil", "fresh"}

\* An HTTP/1 stream that has seen no data has no session: closing it panics,
\* and the recover of processEvent skips the rest of Connection.Close.
Panics(i) == stream[i] = "fresh" /\ protocol[i] = "http1"

CloseStream(i) ==
    /\ \/ Panics(i) /\ At(i, "stream", "next") /\ UNCHANGED stream
       \/ /\ ~Panics(i)
          /\ At(i, "stream", "services")
          /\ stream' = [stream EXCEPT ![i] = IF @ = "nil" THEN @ ELSE "closed"]
    /\ UNCHANGED <<mapvars, queuevars, held, closeEvent, handler, protocol, skip,
                   svcvars, srcvars, histvars>>

\* svcRegistry.Close closes the services that were made, the reporter included.
CloseServices(i) ==
    /\ At(i, "services", "next")
    /\ reporter' = [reporter EXCEPT ![i] = IF @ = "on" THEN "closed" ELSE @]
    /\ UNCHANGED <<mapvars, queuevars, connvars, process, srcvars, histvars>>

\* Next reports that the queue is closed.
WatchReturns(i) ==
    /\ closed[i] /\ items[i] = <<>> /\ stream[i] # "busy"
    /\ At(i, "next", "exit")
    /\ UNCHANGED <<mapvars, queuevars, connvars, svcvars, srcvars, histvars>>

-----------------------------------------------------------------------------

CloseSteps(i) ==
    \/ Finalize(i) \/ Drain(i) \/ DrainReturn(i) \/ CloseQueue(i)
    \/ CloseStream(i) \/ CloseServices(i)

Watch(i) ==
    \/ ProcessProtocolEvent(i) \/ ProcessDataEvent(i) \/ ProcessHandlerTypeEvent(i)
    \/ ProcessInfoEvent(i) \/ ProcessCloseEvent(i) \/ ProcessDoneEvent(i)
    \/ ProcessReturns(i) \/ CloseSteps(i) \/ WatchReturns(i)

ReaderSteps == (\E found \in BOOLEAN : NewConnection(found)) \/ Open \/ SetupReporters

Next ==
    \/ \E k \in Cookies : OpenEvent(k)
    \/ \E k \in Cookies, e \in ReaderEvents : ReaderEvent(k, e)
    \/ \E k \in Redirected, k2 \in Cookies, e \in MainEvents : MainEvent(k, k2, e)
    \/ \E k \in Redirected : DoneEvent(k)
    \/ \E k \in Redirected, dir \in Directions : TeeEvent(k, dir)
    \/ \E k \in Cookies, e \in EngineEvents : EngineEvent(k, e)
    \/ ReaderSteps
    \/ \E s \in Sources : PushEvent(s)
    \/ \E i \in Instances : Watch(i)

Spec == Init /\ [][Next]_vars

\* watch is in the stream's Process or Close.
InStream(i) ==
    \/ stream[i] = "busy"
    \/ wpc[i] = "stream" /\ stream[i] # "nil" /\ ~Panics(i)

\* A goroutine inside HandleEvent or inside an event's handler goes on, unless it
\* is the stream that has to return; no event has to arrive.
Fairness ==
    /\ WF_vars(ReaderSteps)
    /\ \A s \in Sources : WF_vars(PushEvent(s))
    /\ \A i \in Instances : WF_vars(Watch(i) /\ ~InStream(i))

FairSpec == Spec /\ Fairness

-----------------------------------------------------------------------------
\* Properties

Closing == {"finalize", "drain", "draining", "shut", "stream", "services"}

Item == [id : Nat, prio : {1, 3, 5, 10, Lowest}, ev : Event]

Call == [at : {"idle", "await", "open", "report", "push"}, conn : 0 .. MaxConns,
         key : Cookies \cup {""}, ev : Event \cup {Ev("")}]

MapType ==
    /\ made \in 0 .. MaxConns
    /\ connections \in [Cookies -> 0 .. made]
    /\ DOMAIN key = Instances /\ \A i \in 1 .. made : key[i] \in Cookies

QueueType ==
    /\ items \in [Instances -> Seq(Item)]
    /\ draining \in [Instances -> BOOLEAN] /\ closed \in [Instances -> BOOLEAN]
    /\ pushed \in [Instances -> Nat] /\ began \in [Instances -> Nat]
    /\ \A i \in Instances : \A j \in 1 .. Len(items[i]) :
          /\ items[i][j].prio = QueuePriority(items[i][j].ev.kind)
          /\ items[i][j].id <= pushed[i]

ConnType ==
    /\ held \in [Instances -> BOOLEAN] /\ closeEvent \in [Instances -> BOOLEAN]
    /\ handler \in [Instances -> HandlerTypes]
    /\ protocol \in [Instances -> Protocols]
    /\ stream \in [Instances -> {"nil", "fresh", "busy", "live", "closed"}]
    /\ skip \in [Instances -> BOOLEAN] /\ process \in [Instances -> BOOLEAN]
    /\ reporter \in [Instances -> {"off", "on", "closed"}]
    /\ wpc \in [Instances -> {"none", "next", "exit"} \cup Closing]
    /\ released \in [Instances -> BOOLEAN]
    /\ lost \in [Instances -> SUBSET Item]

CallType ==
    /\ finished \subseteq Redirected
    /\ sent \in Nat
    /\ call \in [Sources -> Call]
    /\ \A s \in Sources :
          /\ call[s].at \in {"await", "open", "report"} => s = Reader
          /\ call[s].at = "await" => call[s].key \in Cookies
          /\ call[s].at \in {"open", "report", "push"} => call[s].conn \in 1 .. made
          /\ call[s].at = "push" => call[s].ev \in Event

\* Every variable has its type; a queued event has the priority of its kind and
\* a number the queue has given out (Manager, Connection and Queue structs).
TypeOK == MapType /\ QueueType /\ ConnType /\ CallType

\* A connection redirected to the forwarder is not closed before the forwarder's
\* done event has been processed: held (processCloseEvent, processDoneEvent).
HoldRespected ==
    \A i \in 1 .. made :
        (wpc[i] \in Closing \cup {"exit"} /\ key[i] \in Redirected) => released[i]

\* What the queue throws away at its Close (Connection.Close, lines 376-384) is
\* nothing that was accepted before Connection.Close began, other than further
\* close and done events: everything else was handled before.
BacklogBeforeClose ==
    \A i \in Instances : \A item \in lost[i] :
        item.id > began[i] \/ item.ev.kind \in {"Close", "Done"}

\* As long as watch waits for events, HandleEvent finds the connection under its
\* cookie: no second open event and no other connection's Close orphans it.
NoOrphan ==
    \A i \in 1 .. made :
        (wpc[i] \in {"none", "next"} /\ ~closed[i]) => connections[key[i]] = i

\* A map entry changes hands only through the Close of the connection it holds:
\* finalizeConnection deletes by cookie, yet never the entry of a successor.
OwnEntryOnly ==
    [][\A k \in Cookies :
          connections'[k] # connections[k] =>
              \/ connections[k] = None /\ connections'[k] = made'
              \/ /\ connections'[k] = None
                 /\ wpc[connections[k]] = "finalize" /\ wpc'[connections[k]] = "drain"]_vars

\* Connection.Close is entered at most once, and only by a connection that
\* is still in the map.
CloseOnce ==
    [][\A i \in Instances :
          (wpc'[i] = "finalize" /\ wpc[i] # "finalize") =>
              wpc[i] = "next" /\ ~closed[i] /\ connections[key[i]] = i]_vars

Accepted(i, kind) == \E j \in 1 .. Len(items[i]) : items[i][j].ev.kind = kind

\* Once the queue has taken the close event and nothing holds the connection any
\* more, watch finishes Connection.Close and returns, unless it stays for good in
\* a call of its stream's Process or Close (a write to a pipe, parser.go:141).
ClosesEventually ==
    \A i \in Instances :
        \/ <>[]InStream(i)
        \/ (/\ Accepted(i, "Close") \/ closeEvent[i]
            /\ Accepted(i, "Done") \/ (wpc[i] # "none" /\ ~held[i]))
               ~> wpc[i] = "exit"

\* Connection.Close, lines 391-392: "close all connection services / this will
\* also close the reporter service, sending a final report".  When watch has
\* returned, the reporter is closed; the exception is an HTTP/1 stream that has
\* seen no data, whose Close panics before the services are closed.
ServicesClosed ==
    \A i \in Instances : wpc[i] = "exit" /\ reporter[i] = "on" => stream[i] = "fresh"
=============================================================================
