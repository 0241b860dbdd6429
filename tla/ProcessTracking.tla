--------------------------- MODULE ProcessTracking --------------------------
(***************************************************************************)
(* How qtap learns of processes: the probes on execve, exit_group and the  *)
(* end of a task (bpf/tap/process.bpf.c), the reader of their ring buffer  *)
(* (pkg/process/ebpf.go, reader.go), the manager (manager.go, process.go,  *)
(* filter.go), its observers, the goroutines that wait for a process       *)
(* (Await) and those that change one (SetTlsOk, SetConfig).                *)
(*                                                                         *)
(* Pids are used again.  An image stands for the executable and the        *)
(* strategy that go with it.  Arguments, containers and metrics are left   *)
(* out; Discover reads /proc in one step.                                  *)
(***************************************************************************)
EXTENDS Naturals, Sequences

CONSTANTS
    Pids,
    Images,
    Codes,       \* exit codes other than 0
    Waiters,     \* goroutines that call Await, once each
    NoObj,       \* no object, image or code
    MaxObjs,     \* bound: Process objects
    Budgets      \* bounds: how many calls of execve, forks, threads, calls of
                 \* SetTlsOk or SetConfig, full ring buffers and calls of Await a
                 \* behaviour has: [execs, forks, threads, sets, drops, waits]

ASSUME ProcAssumption == MaxObjs \in Nat /\ NoObj \notin Images \cup (1 .. MaxObjs)

VARIABLES
    live,         \* kernel: signal->live of each pid, 0 when there is no process
    image,        \* kernel: what it runs
    execing,      \* kernel: the image of the execve it is in
    leaving,      \* kernel: what it gave to exit_group
    exit_codes,   \* exit_code_map
    proc_events,  \* the ring buffer
    meta,         \* process_meta_map
    mgr,          \* Manager.Start: "idle", "preload", "running"
    snap,         \* what preloadProcs still has to add
    reader,       \* the goroutine in addProc: [at, obj, exists, data]
    cache,        \* eventSource.cache
    procs,        \* Manager.procs
    obj,          \* the objects: [pid, exe, filter, tls_ok, exited, notifier, locked]
    made,         \* how many objects there are
    filters,      \* the images that the filters match
    config,       \* the goroutine in SetConfig, which holds Manager.mu: [todo, obj, data]
    setter,       \* a goroutine in SetTlsOk: [obj, data]
    waiters,      \* Manager.processWaiters
    await,        \* the goroutines of Await: [at, pid]
    tasks,        \* the goroutines of the manager: [kind, obj, for]
    told,         \* what the observer was last told of each object
    left,         \* what is left of the budget
    lost,         \* a record found no room
    whole,        \* pids that called execve since the probes are attached
    overtaken     \* a process changed between SetMeta's reads and its Put, or SetMeta
                  \* deleted what is known of a later process with the pid

procVars == <<live, image, execing, leaving, exit_codes, proc_events, meta, mgr, snap,
              reader, cache, procs, obj, made, filters, config, setter, waiters, await,
              tasks, told, left, lost, whole, overtaken>>
taskVars == <<live, image, execing, leaving, left, lost, whole>>
probeVars == <<exit_codes, proc_events>>
userVars == <<mgr, snap, reader, cache, procs, obj, made, filters, config, setter,
              waiters, await, tasks, told, overtaken>>

Objs == 1 .. MaxObjs
Unmade == [pid |-> NoObj, exe |-> NoObj, filter |-> FALSE, tls_ok |-> FALSE,
           exited |-> FALSE, notifier |-> FALSE, locked |-> FALSE]
Reading == [at |-> "idle", obj |-> NoObj, exists |-> FALSE, data |-> NoObj]
NotSetting == [obj |-> NoObj, data |-> NoObj]
NoConfig == [todo |-> {}, obj |-> NoObj, data |-> NoObj]

ProcInit ==
    /\ live \in [Pids -> {0, 1}]
    /\ image \in [Pids -> Images]
    /\ execing = [p \in Pids |-> NoObj]
    /\ leaving = [p \in Pids |-> NoObj]
    /\ exit_codes = [p \in Pids |-> NoObj]
    /\ proc_events = <<>>
    /\ meta = [p \in Pids |-> NoObj]
    /\ mgr = "idle"
    /\ snap = {}
    /\ reader = Reading
    /\ cache = [p \in Pids |-> NoObj]
    /\ procs = [p \in Pids |-> NoObj]
    /\ obj = [o \in Objs |-> Unmade]
    /\ made = 0
    /\ filters = {}
    /\ config = NoConfig
    /\ setter = NotSetting
    /\ waiters = {}
    /\ await = [w \in Waiters |-> [at |-> "out", pid |-> NoObj]]
    /\ tasks = {}
    /\ told = [o \in Objs |-> "nothing"]
    /\ left \in Budgets
    /\ lost = FALSE
    /\ whole = {}
    /\ overtaken = FALSE

-----------------------------------------------------------------------------
\* Processes, and the probes on them.

Attached == mgr = "running"
Event(k, p) == [kind |-> k, pid |-> p, code |-> 0, own |-> 0, whole |-> FALSE]
Use(b) == left[b] > 0 /\ left' = [left EXCEPT ![b] = @ - 1]

\* A reservation finds the ring buffer full.
Drop == Use("drops") /\ lost' = TRUE

\* fork has no probe.
Fork(p) ==
    /\ live[p] = 0
    /\ live' = [live EXCEPT ![p] = 1]
    /\ \E m \in Images : image' = [image EXCEPT ![p] = m]
    /\ Use("forks")
    /\ whole' = whole \ {p}
    /\ UNCHANGED <<execing, leaving, lost, probeVars, meta, userVars>>

NewThread(p) ==
    /\ live[p] = 1 /\ execing[p] = NoObj /\ leaving[p] = NoObj
    /\ Use("threads")
    /\ live' = [live EXCEPT ![p] = 2]
    /\ UNCHANGED <<image, execing, leaving, lost, whole, probeVars, meta, userVars>>

\* process_exec_entry, of execve and execveat.
EnterExec(p, m) ==
    /\ live[p] > 0 /\ execing[p] = NoObj /\ leaving[p] = NoObj
    /\ left.execs > 0
    /\ execing' = [execing EXCEPT ![p] = m]
    /\ whole' = IF Attached THEN whole \cup {p} ELSE whole
    /\ \/ /\ Attached
          /\ proc_events' = Append(proc_events, Event("start", p))
          /\ Use("execs")
          /\ UNCHANGED lost
       \/ /\ Attached /\ left.drops > 0
          /\ left' = [left EXCEPT !.execs = @ - 1, !.drops = @ - 1]
          /\ lost' = TRUE
          /\ UNCHANGED proc_events
       \/ ~Attached /\ Use("execs") /\ UNCHANGED <<lost, proc_events>>
    /\ UNCHANGED <<live, image, leaving, exit_codes, meta, userVars>>

\* process_exec_ret, which does not look at the result: a call that fails is
\* reported as well.  One that succeeds ends the other threads.
RetExec(p) ==
    /\ live[p] > 0 /\ execing[p] # NoObj
    /\ \/ /\ image' = [image EXCEPT ![p] = execing[p]]
          /\ live' = [live EXCEPT ![p] = 1]
       \/ UNCHANGED <<image, live>>
    /\ execing' = [execing EXCEPT ![p] = NoObj]
    /\ \/ /\ proc_events' = IF Attached THEN Append(proc_events, Event("end", p)) ELSE proc_events
          /\ UNCHANGED <<left, lost>>
       \/ /\ Attached
          /\ Drop
          /\ UNCHANGED proc_events
    /\ UNCHANGED <<leaving, whole, exit_codes, meta, userVars>>

\* syscall__probe_entry_exit_group
ExitGroup(p, c) ==
    /\ live[p] > 0 /\ execing[p] = NoObj /\ leaving[p] = NoObj
    /\ leaving' = [leaving EXCEPT ![p] = c]
    /\ exit_codes' = IF Attached THEN [exit_codes EXCEPT ![p] = c] ELSE exit_codes
    /\ UNCHANGED <<live, image, execing, left, lost, whole, proc_events, meta, userVars>>

\* Mutant: the end of every thread is reported.
LastThreadAny(p) == TRUE

\* signal->live is 0 once this thread is gone.
LastThread(p) == live[p] - 1 = 0

\* What the report of an exit leaves in exit_code_map.
ExitCodesAfter(p) == [exit_codes EXCEPT ![p] = NoObj]

CodeOf(c) == IF c = NoObj THEN 0 ELSE c

\* tracepoint__sched__process_exit; without room for the record the code stays.
ProcessExit(p) ==
    /\ live[p] > 0
    /\ live' = [live EXCEPT ![p] = @ - 1]
    /\ IF live[p] = 1
         THEN /\ execing' = [execing EXCEPT ![p] = NoObj]
              /\ leaving' = [leaving EXCEPT ![p] = NoObj]
         ELSE UNCHANGED <<execing, leaving>>
    /\ \/ /\ Attached /\ LastThread(p)
          /\ proc_events' = Append(proc_events,
                 [Event("exit", p) EXCEPT !.code = CodeOf(exit_codes[p]),
                                          !.own = CodeOf(leaving[p]), !.whole = p \in whole])
          /\ exit_codes' = ExitCodesAfter(p)
          /\ UNCHANGED <<left, lost>>
       \/ /\ Attached /\ LastThread(p)
          /\ Drop
          /\ UNCHANGED probeVars
       \/ ~(Attached /\ LastThread(p)) /\ UNCHANGED <<left, lost, probeVars>>
    /\ UNCHANGED <<image, whole, meta, userVars>>

-----------------------------------------------------------------------------
\* Manager.Start, and the reader of the ring buffer.

\* What SetMeta writes.
MetaOf(o) == [exe |-> o.exe, filter |-> o.filter, tls_ok |-> o.tls_ok]

\* The Put of SetMeta, after its reads and its test of Exited.
PutMeta(o, data) ==
    /\ meta' = [meta EXCEPT ![obj[o].pid] = data]
    /\ overtaken' = (overtaken \/ obj[o].exited \/ data # MetaOf(obj[o]))

\* AllProcesses
StartManager ==
    /\ mgr = "idle"
    /\ mgr' = "preload"
    /\ snap' = {p \in Pids : live[p] > 0}
    /\ UNCHANGED <<taskVars, probeVars, meta, reader, cache, procs, obj, made, filters, config,
                   setter, waiters, await, tasks, told, overtaken>>

\* preloadProcs: one process, which gets no notifier.
Preload(p) ==
    /\ mgr = "preload" /\ reader.at = "idle"
    /\ p \in snap
    /\ snap' = snap \ {p}
    /\ made < MaxObjs
    /\ made' = made + 1
    /\ obj' = [obj EXCEPT ![made'] = [Unmade EXCEPT !.pid = p, !.locked = TRUE]]
    /\ reader' = [at |-> "discover", obj |-> made', exists |-> FALSE, data |-> NoObj]
    /\ UNCHANGED <<taskVars, probeVars, meta, mgr, cache, procs, filters, config, setter,
                   waiters, await, tasks, told, overtaken>>

\* The tracepoints are attached after /proc has been read.
Attach ==
    /\ mgr = "preload" /\ reader.at = "idle" /\ snap = {}
    /\ mgr' = "running"
    /\ UNCHANGED <<taskVars, probeVars, meta, snap, reader, cache, procs, obj, made, filters,
                   config, setter, waiters, await, tasks, told, overtaken>>

Reads(k) ==
    /\ Attached /\ reader.at = "idle"
    /\ proc_events # <<>> /\ Head(proc_events).kind = k
    /\ proc_events' = Tail(proc_events)

handleExecStartEvent ==
    /\ Reads("start")
    /\ made < MaxObjs
    /\ made' = made + 1
    /\ LET p == Head(proc_events).pid IN
       /\ obj' = [obj EXCEPT ![made'] = [Unmade EXCEPT !.pid = p, !.notifier = TRUE]]
       /\ cache' = [cache EXCEPT ![p] = made']
    /\ UNCHANGED <<taskVars, exit_codes, meta, mgr, snap, reader, procs, filters, config, setter,
                   waiters, await, tasks, told, overtaken>>

\* handleExecEndEvent, up to the lock of the process in addProc.
handleExecEndEvent ==
    /\ Reads("end")
    /\ LET p == Head(proc_events).pid
           o == IF procs[p] = NoObj THEN cache[p] ELSE procs[p] IN
       /\ IF cache[p] = NoObj
            THEN UNCHANGED <<reader, obj>>
            ELSE /\ ~obj[o].locked
                 /\ obj' = [obj EXCEPT ![o].locked = TRUE]
                 /\ reader' = [at |-> "discover", obj |-> o, exists |-> procs[p] # NoObj, data |-> NoObj]
       /\ cache' = [cache EXCEPT ![p] = NoObj]
    /\ UNCHANGED <<taskVars, exit_codes, meta, mgr, snap, procs, made, filters, config, setter,
                   waiters, await, tasks, told, overtaken>>

Discovered(o, p) == [o EXCEPT !.exe = image[p], !.filter = image[p] \in filters]

\* Discover, under the lock of the process.
Discover ==
    /\ reader.at = "discover"
    /\ LET o == reader.obj
           p == obj[o].pid
           now == Discovered(obj[o], p) IN
       \/ /\ live[p] = 0
          /\ obj' = [obj EXCEPT ![o].locked = FALSE]
          /\ reader' = IF mgr = "preload" THEN [reader EXCEPT !.at = "put", !.data = MetaOf(obj[o])]
                                          ELSE Reading
       \/ /\ live[p] > 0
          /\ obj' = [obj EXCEPT ![o] = [now EXCEPT !.locked = obj[o].notifier]]
          /\ reader' = IF obj[o].notifier
                         THEN [reader EXCEPT !.at = "put", !.data = MetaOf(now)]
                         ELSE [reader EXCEPT !.at = "store"]
    /\ UNCHANGED <<taskVars, probeVars, meta, mgr, snap, cache, procs, made, filters, config,
                   setter, waiters, await, tasks, told, overtaken>>

\* The Put of the notifier that Discover calls, or of preloadProcs.
DiscoverPut ==
    /\ reader.at = "put"
    /\ PutMeta(reader.obj, reader.data)
    /\ obj' = IF mgr = "preload" THEN obj ELSE [obj EXCEPT ![reader.obj].locked = FALSE]
    /\ reader' = IF mgr = "preload" THEN Reading ELSE [reader EXCEPT !.at = "store"]
    /\ UNCHANGED <<taskVars, probeVars, mgr, snap, cache, procs, made, filters, config, setter,
                   waiters, await, tasks, told>>

\* Manager.mu
Unlocked == config = NoConfig

NotifyTask(o, woken) == IF woken = {} THEN {} ELSE {[kind |-> "notify", obj |-> o, for |-> woken]}

\* The waiters for a process.
Woken(p) == {w \in waiters : await[w].pid = p}

\* The rest of addProc, under Manager.mu.
Store ==
    /\ reader.at = "store" /\ Unlocked
    /\ LET o == reader.obj
           p == obj[o].pid
           woken == Woken(p) IN
       /\ procs' = [procs EXCEPT ![p] = o]
       /\ waiters' = waiters \ woken
       /\ tasks' = tasks \cup {[kind |-> "start", obj |-> o, for |-> {}]}
                         \cup NotifyTask(o, woken)
       /\ reader' = IF mgr = "preload" THEN [reader EXCEPT !.at = "put", !.data = MetaOf(obj[o])]
                                       ELSE Reading
    /\ UNCHANGED <<taskVars, probeVars, meta, mgr, snap, cache, obj, made, filters, config, setter,
                   await, told, overtaken>>

\* What Close leaves in process_meta_map.
ClosedMeta(o, p) == IF obj[o].notifier THEN NoObj ELSE meta[p]

\* Mutant: the observers are told only of a process whose start they know of.
StopTaskKnown(o) == IF told[o] = "started" THEN {[kind |-> "stop", obj |-> o, for |-> {}]} ELSE {}

\* removeProc tells the observers.
StopTask(o) == {[kind |-> "stop", obj |-> o, for |-> {}]}

\* handleExitEvent, UnregisterProcess and removeProc, under Manager.mu.
handleExitEvent ==
    /\ Reads("exit")
    /\ LET p == Head(proc_events).pid
           o == procs[p] IN
       IF o = NoObj
         THEN UNCHANGED <<meta, procs, obj, tasks>>
         ELSE /\ Unlocked
              /\ obj' = [obj EXCEPT ![o].exited = TRUE]
              /\ meta' = [meta EXCEPT ![p] = ClosedMeta(o, p)]
              /\ procs' = [procs EXCEPT ![p] = NoObj]
              /\ tasks' = tasks \cup StopTask(o)
    /\ UNCHANGED <<taskVars, exit_codes, mgr, snap, reader, cache, made, filters, config, setter,
                   waiters, await, told, overtaken>>

-----------------------------------------------------------------------------
\* Those who change a process that the manager knows.

TellsEventer(o) == obj[o].notifier

\* SetTlsOk, up to the Put of SetMeta.
SetTlsOk(o, v) ==
    /\ setter = NotSetting
    /\ Use("sets")
    /\ o <= made /\ told[o] # "nothing"
    /\ ~obj[o].locked /\ obj[o].tls_ok # v
    /\ LET now == [obj[o] EXCEPT !.tls_ok = v]
           puts == TellsEventer(o) /\ ~now.exited IN
       /\ obj' = [obj EXCEPT ![o] = [now EXCEPT !.locked = puts]]
       /\ setter' = IF puts THEN [obj |-> o, data |-> MetaOf(now)] ELSE NotSetting
       /\ meta' = IF TellsEventer(o) /\ now.exited THEN [meta EXCEPT ![now.pid] = NoObj] ELSE meta
       /\ overtaken' = (overtaken \/ (TellsEventer(o) /\ now.exited /\ meta[now.pid] # NoObj))
    /\ UNCHANGED <<live, image, execing, leaving, lost, whole, probeVars, mgr, snap, reader, cache, procs,
                   made, filters, config, waiters, await, tasks, told>>

SetTlsOkPut ==
    /\ setter # NotSetting
    /\ PutMeta(setter.obj, setter.data)
    /\ obj' = [obj EXCEPT ![setter.obj].locked = FALSE]
    /\ setter' = NotSetting
    /\ UNCHANGED <<taskVars, probeVars, mgr, snap, reader, cache, procs, made, filters, config,
                   waiters, await, tasks, told>>

\* SetConfig with filters that match these images, under Manager.mu; updateFilters
\* leaves a process alone when no filter matches it.
SetConfig(images) ==
    /\ Unlocked /\ Attached
    /\ Use("sets")
    /\ filters' = images
    /\ config' = [NoConfig EXCEPT !.todo = {p \in Pids : procs[p] # NoObj}]
    /\ UNCHANGED <<live, image, execing, leaving, lost, whole, probeVars, meta, mgr, snap, reader, cache,
                   procs, obj, made, setter, waiters, await, tasks, told, overtaken>>

\* One process of updateFilters, without the lock of the process.
UpdateFilter(p) ==
    /\ p \in config.todo /\ config.obj = NoObj
    /\ LET o == procs[p]
           now == [obj[o] EXCEPT !.filter = TRUE]
           rest == [NoConfig EXCEPT !.todo = config.todo \ {p}] IN
       IF obj[o].exe \in filters
         THEN /\ obj' = [obj EXCEPT ![o] = now]
              /\ config' = IF now.notifier THEN [rest EXCEPT !.obj = o, !.data = MetaOf(now)] ELSE rest
         ELSE config' = rest /\ UNCHANGED obj
    /\ UNCHANGED <<taskVars, probeVars, meta, mgr, snap, reader, cache, procs, made, filters, setter,
                   waiters, await, tasks, told, overtaken>>

UpdateFilterPut ==
    /\ config.obj # NoObj
    /\ PutMeta(config.obj, config.data)
    /\ config' = [NoConfig EXCEPT !.todo = config.todo]
    /\ UNCHANGED <<taskVars, probeVars, mgr, snap, reader, cache, procs, obj, made, filters, setter,
                   waiters, await, tasks, told>>

-----------------------------------------------------------------------------
\* Those who wait for a process, and the observers.

Await(w, p) ==
    /\ await[w].at = "out" /\ Unlocked
    /\ Use("waits")
    /\ await' = [await EXCEPT ![w] = [at |-> IF procs[p] # NoObj THEN "got" ELSE "registered", pid |-> p]]
    /\ waiters' = IF procs[p] # NoObj THEN waiters ELSE waiters \cup {w}
    /\ UNCHANGED <<live, image, execing, leaving, lost, whole, probeVars, meta, mgr, snap, reader, cache, procs, obj, made, filters,
                   config, setter, tasks, told, overtaken>>

\* The select of Await; a waiter that was passed over reaches it too late.
AwaitSelect(w) ==
    /\ await[w].at \in {"registered", "missed"}
    /\ await' = [await EXCEPT ![w].at = IF @ = "registered" THEN "select" ELSE "forgotten"]
    /\ UNCHANGED <<taskVars, probeVars, meta, mgr, snap, reader, cache, procs, obj, made, filters,
                   config, setter, waiters, tasks, told, overtaken>>

\* The context ends; the channel stays in processWaiters.
AwaitTimeout(w) ==
    /\ await[w].at \in {"select", "forgotten"}
    /\ await' = [await EXCEPT ![w].at = "timeout"]
    /\ UNCHANGED <<taskVars, probeVars, meta, mgr, snap, reader, cache, procs, obj, made, filters,
                   config, setter, waiters, tasks, told, overtaken>>

\* What a notification makes of a waiter: one that is not in its select yet is
\* passed over.
Notified(at) == CASE at = "select" -> "got" [] at = "registered" -> "missed" [] OTHER -> at

\* The goroutine that notifies.
NotifyWaiters(t) ==
    /\ t.kind = "notify"
    /\ await' = [w \in Waiters |-> IF w \in t.for THEN [await[w] EXCEPT !.at = Notified(@)]
                                                 ELSE await[w]]
    /\ tasks' = tasks \ {t}
    /\ UNCHANGED <<taskVars, probeVars, meta, mgr, snap, reader, cache, procs, obj, made, filters,
                   config, setter, waiters, told, overtaken>>

\* initProcObservers, up to its tests of Exited.
InitObserver(t) ==
    /\ t.kind = "start"
    /\ tasks' = (tasks \ {t}) \cup (IF obj[t.obj].exited THEN {} ELSE {[t EXCEPT !.kind = "started"]})
    /\ UNCHANGED <<taskVars, probeVars, meta, mgr, snap, reader, cache, procs, obj, made, filters,
                   config, setter, waiters, await, told, overtaken>>

\* ProcessStarted, ProcessReplaced or ProcessStopped of an observer.
TellObserver(t) ==
    /\ t.kind \in {"started", "stop"}
    /\ tasks' = tasks \ {t}
    /\ told' = [told EXCEPT ![t.obj] =
                  IF t.kind = "stop" THEN "stopped"
                  ELSE IF @ \in {"stopped", "late"} THEN "late" ELSE "started"]
    /\ UNCHANGED <<taskVars, probeVars, meta, mgr, snap, reader, cache, procs, obj, made, filters,
                   config, setter, waiters, await, overtaken>>

ProcNext ==
    \/ \E p \in Pids : Fork(p) \/ NewThread(p) \/ RetExec(p) \/ ProcessExit(p)
    \/ \E p \in Pids, m \in Images : EnterExec(p, m)
    \/ \E p \in Pids, c \in Codes : ExitGroup(p, c)
    \/ StartManager \/ Attach \/ \E p \in Pids : Preload(p)
    \/ handleExecStartEvent \/ handleExecEndEvent \/ handleExitEvent
    \/ Discover \/ DiscoverPut \/ Store
    \/ SetTlsOkPut \/ \E o \in Objs, v \in BOOLEAN : SetTlsOk(o, v)
    \/ \E s \in SUBSET Images : SetConfig(s)
    \/ UpdateFilterPut \/ \E p \in Pids : UpdateFilter(p)
    \/ \E w \in Waiters : AwaitSelect(w) \/ AwaitTimeout(w) \/ \E p \in Pids : Await(w, p)
    \/ \E t \in tasks : NotifyWaiters(t) \/ InitObserver(t) \/ TellObserver(t)

ProcSpec == ProcInit /\ [][ProcNext]_procVars

-----------------------------------------------------------------------------
\* Nothing is under way in qtap.
ProcQuiet ==
    /\ Attached /\ proc_events = <<>> /\ reader = Reading
    /\ config = NoConfig /\ setter = NotSetting

\* Once every record is handled, and none was lost, the manager knows a process
\* that called execve since the probes are attached exactly while it runs, and
\* with the image it runs: across failed calls, calls of a thread that is not
\* the leader, quick exits and pids that are used again.  When no SetMeta was
\* overtaken by a change of its process, the kernel has what the manager knows of
\* each process with a notifier, and nothing of a pid that is not known and was
\* not there when qtap started.  (One for a process that has exited deletes the
\* entry of its pid, also when that is a later process's: ebpf.go:169.)
KnownWhenQuiet ==
    /\ ProcQuiet /\ ~lost =>
         \A p \in whole :
           /\ live[p] = 0 => procs[p] = NoObj
           /\ live[p] > 0 /\ execing[p] = NoObj =>
                procs[p] # NoObj /\ obj[procs[p]].exe = image[p]
    /\ ProcQuiet /\ ~overtaken =>
         \A p \in Pids :
           /\ procs[p] # NoObj =>
                (obj[procs[p]].notifier => meta[p] = MetaOf(obj[procs[p]]))
           /\ procs[p] = NoObj /\ (\A o \in 1 .. made : obj[o].pid = p => obj[o].notifier) =>
                meta[p] = NoObj

\* An observer that was told of a process is told when it stops, and no process
\* that still runs is reported to it as stopped.  A goroutine that waits in the
\* select of Await for a process that was stored since is about to be notified
\* (whoever has registered and is not in its select yet is passed over, and waits
\* until its context ends).  An exit is reported with the code that the process gave
\* to exit_group itself, or with 0: never with that of an earlier process.
EveryoneTold ==
    /\ \A o \in 1 .. made :
         /\ told[o] = "stopped" => obj[o].exited
         /\ tasks = {} /\ obj[o].exited => told[o] \in {"stopped", "late"}
    /\ \A w \in Waiters :
         await[w].at = "select" /\ w \notin waiters =>
           \E t \in tasks : t.kind = "notify" /\ w \in t.for
    /\ ~lost =>
         \A i \in DOMAIN proc_events :
           LET e == proc_events[i] IN e.kind = "exit" /\ e.whole => e.code = e.own

\* The kernel has what the manager knows of every process: "notifier is called
\* when parts of the process change that are required to be updated by the
\* eventer".
MetaCurrent ==
    ProcQuiet /\ ~lost /\ ~overtaken =>
      \A p \in Pids : procs[p] # NoObj => meta[p] = MetaOf(obj[procs[p]])

=============================================================================
