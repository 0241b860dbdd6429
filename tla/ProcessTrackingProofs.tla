----------------------- MODULE ProcessTrackingProofs -----------------------
(***************************************************************************)
(* What holds of the tracking of processes for any numbers of pids,        *)
(* images, objects and waiters, and any budgets: ProcessTracking.          *)
(***************************************************************************)
EXTENDS ProcessTracking, Integers, TLAPS

-----------------------------------------------------------------------------
\* Types

MaybeObj == Objs \cup {NoObj}
Metas == [exe : Images \cup {NoObj}, filter : BOOLEAN, tls_ok : BOOLEAN]
ProcessObjects ==
    [pid : Pids \cup {NoObj}, exe : Images \cup {NoObj}, filter : BOOLEAN, tls_ok : BOOLEAN,
     exited : BOOLEAN, notifier : BOOLEAN, locked : BOOLEAN]
ProcRecords ==
    [kind : {"start", "end", "exit"}, pid : Pids, code : Codes \cup {0}, own : Codes \cup {0},
     whole : BOOLEAN]
Tasks == [kind : {"start", "started", "stop", "notify"}, obj : Objs, for : SUBSET Waiters]
Readers ==
    [at : {"idle", "discover", "put", "store"}, obj : MaybeObj, exists : BOOLEAN,
     data : Metas \cup {NoObj}]

KernelType ==
    /\ live \in [Pids -> Nat] /\ image \in [Pids -> Images]
    /\ execing \in [Pids -> Images \cup {NoObj}]
    /\ leaving \in [Pids -> Codes \cup {NoObj}]
    /\ exit_codes \in [Pids -> Codes \cup {NoObj}]
    /\ proc_events \in Seq(ProcRecords)
    /\ whole \subseteq Pids

ManagerType ==
    /\ mgr \in {"idle", "preload", "running"} /\ snap \subseteq Pids
    /\ reader \in Readers
    /\ cache \in [Pids -> MaybeObj] /\ procs \in [Pids -> MaybeObj]
    /\ made \in Nat /\ made <= MaxObjs
    /\ filters \subseteq Images

ObjectType == obj \in [Objs -> ProcessObjects]

MetaType ==
    /\ meta \in [Pids -> Metas \cup {NoObj}]
    /\ config \in [todo : SUBSET Pids, obj : MaybeObj, data : Metas \cup {NoObj}]
    /\ setter \in [obj : MaybeObj, data : Metas \cup {NoObj}]

ObserverType ==
    /\ waiters \subseteq Waiters
    /\ await \in [Waiters -> [at : {"out", "registered", "select", "missed", "forgotten", "got", "timeout"},
                              pid : Pids \cup {NoObj}]]
    /\ tasks \subseteq Tasks
    /\ told \in [Objs -> {"nothing", "started", "stopped", "late"}]

\* What is made, and what refers to it: an object keeps its pid, and those
\* that are not made yet are as they were.
ObjInv ==
    /\ \A o \in 1 .. made : obj[o].pid \in Pids
    /\ \A o \in Objs : o > made => obj[o] = Unmade /\ told[o] = "nothing"
    /\ reader.at # "idle" => reader.obj \in 1 .. made
    /\ \A p \in Pids : cache[p] # NoObj => cache[p] \in 1 .. made /\ obj[cache[p]].pid = p
    /\ \A p \in Pids : procs[p] # NoObj => procs[p] \in 1 .. made /\ obj[procs[p]].pid = p
    /\ \A t \in tasks : t.obj \in 1 .. made
    /\ setter.obj # NoObj => setter.obj \in 1 .. made
    /\ config.obj # NoObj => config.obj \in 1 .. made
    /\ \A p \in config.todo : procs[p] # NoObj

TypeInv == KernelType /\ ManagerType /\ ObjectType /\ MetaType /\ ObserverType

\* The steps by who takes them.
KernelStep ==
    \/ \E p \in Pids : Fork(p) \/ NewThread(p) \/ RetExec(p) \/ ProcessExit(p)
    \/ \E p \in Pids, m \in Images : EnterExec(p, m)
    \/ \E p \in Pids, c \in Codes : ExitGroup(p, c)
StartStep == StartManager \/ Attach \/ \E p \in Pids : Preload(p)
ReaderStep ==
    handleExecStartEvent \/ handleExecEndEvent \/ handleExitEvent \/ Discover \/ DiscoverPut \/ Store
ChangeStep ==
    \/ SetTlsOkPut \/ \E o \in Objs, v \in BOOLEAN : SetTlsOk(o, v)
    \/ \E s \in SUBSET Images : SetConfig(s)
    \/ UpdateFilterPut \/ \E p \in Pids : UpdateFilter(p)
ObserverStep ==
    \/ \E w \in Waiters : AwaitSelect(w) \/ AwaitTimeout(w) \/ \E p \in Pids : Await(w, p)
    \/ \E t \in tasks : NotifyWaiters(t) \/ InitObserver(t) \/ TellObserver(t)

LEMMA StepKinds ==
    ProcNext <=> KernelStep \/ StartStep \/ ReaderStep \/ ChangeStep \/ ObserverStep
BY Zenon DEF ProcNext, KernelStep, StartStep, ReaderStep, ChangeStep, ObserverStep

LEMMA KernelFrame ==
    ASSUME KernelStep PROVE UNCHANGED <<meta, userVars>>
BY Zenon DEF KernelStep, Fork, NewThread, RetExec, ProcessExit, EnterExec, ExitGroup

LEMMA OthersFrame ==
    ASSUME StartStep \/ ReaderStep \/ ChangeStep \/ ObserverStep
    PROVE  UNCHANGED <<live, image, execing, leaving, lost, whole>>
BY Zenon DEF StartStep, ReaderStep, ChangeStep, ObserverStep, StartManager, Attach, Preload,
       handleExecStartEvent, handleExecEndEvent, handleExitEvent, Discover, DiscoverPut, Store,
       SetTlsOkPut, SetTlsOk, SetConfig, UpdateFilterPut, UpdateFilter, AwaitSelect, AwaitTimeout,
       Await, NotifyWaiters, InitObserver, TellObserver, taskVars

-----------------------------------------------------------------------------
\* Records at the two ends of the ring buffer.

LEMMA AppendIs ==
    ASSUME NEW S, NEW s \in Seq(S), NEW e \in S
    PROVE  /\ Append(s, e) \in Seq(S)
           /\ Len(s) \in Nat /\ Len(Append(s, e)) = Len(s) + 1
           /\ DOMAIN s = 1 .. Len(s) /\ DOMAIN Append(s, e) = 1 .. (Len(s) + 1)
           /\ \A i \in 1 .. Len(s) : Append(s, e)[i] = s[i]
           /\ Append(s, e)[Len(s) + 1] = e
BY SMT

LEMMA TailIs ==
    ASSUME NEW S, NEW s \in Seq(S), s # <<>>
    PROVE  /\ Tail(s) \in Seq(S)
           /\ Len(s) \in Nat /\ Len(s) > 0 /\ Len(Tail(s)) = Len(s) - 1
           /\ DOMAIN s = 1 .. Len(s) /\ DOMAIN Tail(s) = 1 .. (Len(s) - 1)
           /\ \A i \in 1 .. (Len(s) - 1) : Tail(s)[i] = s[i + 1]
           /\ Head(s) = s[1] /\ s[1] \in S
BY SMT

LEMMA EventType == \A k \in {"start", "end", "exit"}, p \in Pids : Event(k, p) \in ProcRecords
BY DEF Event, ProcRecords

LEMMA RingTail ==
    ASSUME KernelType, NEW k, Reads(k)
    PROVE  proc_events' \in Seq(ProcRecords) /\ Head(proc_events) \in ProcRecords
BY TailIs DEF KernelType, Reads

LEMMA RingAppend ==
    ASSUME KernelType, NEW e \in ProcRecords
    PROVE  /\ Append(proc_events, e) \in Seq(ProcRecords)
           /\ Len(Append(proc_events, e)) = Len(proc_events) + 1 /\ Len(proc_events) \in Nat
           /\ DOMAIN proc_events = 1 .. Len(proc_events)
           /\ DOMAIN Append(proc_events, e) = 1 .. (Len(proc_events) + 1)
           /\ \A i \in 1 .. Len(proc_events) : Append(proc_events, e)[i] = proc_events[i]
           /\ Append(proc_events, e)[Len(proc_events) + 1] = e
<1>1. proc_events \in Seq(ProcRecords)
  BY DEF KernelType
<1> QED  BY <1>1, SMT

\* The record of an exit.
ExitRecord(p, code, own, w) == [Event("exit", p) EXCEPT !.code = code, !.own = own, !.whole = w]

LEMMA ExitRecordType ==
    ASSUME NEW p \in Pids, NEW code \in Codes \cup {0}, NEW own \in Codes \cup {0}, NEW w \in BOOLEAN
    PROVE  /\ ExitRecord(p, code, own, w) \in ProcRecords
           /\ ExitRecord(p, code, own, w).kind = "exit" /\ ExitRecord(p, code, own, w).pid = p
           /\ ExitRecord(p, code, own, w).code = code /\ ExitRecord(p, code, own, w).own = own
           /\ ExitRecord(p, code, own, w).whole = w
BY Zenon DEF ExitRecord, Event, ProcRecords

LEMMA ExitRecordOf ==
    ASSUME KernelType, NEW p \in Pids
    PROVE  /\ CodeOf(exit_codes[p]) \in Codes \cup {0} /\ CodeOf(leaving[p]) \in Codes \cup {0}
           /\ (p \in whole) \in BOOLEAN
           /\ ExitRecord(p, CodeOf(exit_codes[p]), CodeOf(leaving[p]), p \in whole) \in ProcRecords
<1>1. CodeOf(exit_codes[p]) \in Codes \cup {0} /\ CodeOf(leaving[p]) \in Codes \cup {0}
  BY DEF KernelType, CodeOf
<1>2. (p \in whole) \in BOOLEAN
  OBVIOUS
<1> QED  BY <1>1, <1>2, ExitRecordType, Zenon

LEMMA KernelTypeStep ==
    ASSUME KernelType, ProcNext
    PROVE  KernelType'
<1>1. ASSUME KernelStep PROVE KernelType'
  <2>0. /\ live \in [Pids -> Nat] /\ image \in [Pids -> Images]
        /\ execing \in [Pids -> Images \cup {NoObj}]
        /\ leaving \in [Pids -> Codes \cup {NoObj}]
        /\ exit_codes \in [Pids -> Codes \cup {NoObj}]
        /\ proc_events \in Seq(ProcRecords) /\ whole \subseteq Pids
    BY DEF KernelType
  <2>1. ASSUME NEW p \in Pids, Fork(p) PROVE KernelType'
    BY <2>0, <2>1 DEF KernelType, Fork, probeVars
  <2>2. ASSUME NEW p \in Pids, NewThread(p) PROVE KernelType'
    BY <2>0, <2>2 DEF KernelType, NewThread, probeVars
  <2>3. ASSUME NEW p \in Pids, NEW m \in Images, EnterExec(p, m) PROVE KernelType'
    <3>1. proc_events' \in Seq(ProcRecords)
      <4>1. Append(proc_events, Event("start", p)) \in Seq(ProcRecords)
        BY EventType, RingAppend, Zenon
      <4> QED  BY <2>0, <2>3, <4>1, Zenon DEF EnterExec
    <3> QED  BY <2>0, <2>3, <3>1 DEF KernelType, EnterExec
  <2>4. ASSUME NEW p \in Pids, RetExec(p) PROVE KernelType'
    <3>1. proc_events' \in Seq(ProcRecords)
      <4>1. Append(proc_events, Event("end", p)) \in Seq(ProcRecords)
        BY EventType, RingAppend, Zenon
      <4> QED  BY <2>0, <2>4, <4>1, Zenon DEF RetExec
    <3>2. execing[p] \in Images
      BY <2>0, <2>4 DEF RetExec
    <3>3. live' \in [Pids -> Nat] /\ image' \in [Pids -> Images]
      <4>1. /\ [live EXCEPT ![p] = 1] \in [Pids -> Nat]
            /\ [image EXCEPT ![p] = execing[p]] \in [Pids -> Images]
        BY <2>0, <3>2
      <4> QED  BY <2>0, <2>4, <4>1, Zenon DEF RetExec
    <3> QED  BY <2>0, <2>4, <3>1, <3>3, Zenon DEF KernelType, RetExec
  <2>5. ASSUME NEW p \in Pids, NEW c \in Codes, ExitGroup(p, c) PROVE KernelType'
    BY <2>0, <2>5 DEF KernelType, ExitGroup
  <2>6. ASSUME NEW p \in Pids, ProcessExit(p) PROVE KernelType'
    <3> DEFINE e == ExitRecord(p, CodeOf(exit_codes[p]), CodeOf(leaving[p]), p \in whole)
    <3>1. proc_events' = Append(proc_events, e) \/ proc_events' = proc_events
      BY <2>6, Zenon DEF ProcessExit, probeVars, ExitRecord
    <3>2. proc_events' \in Seq(ProcRecords)
      BY <2>0, <3>1, ExitRecordOf, RingAppend, Zenon
    <3>3. exit_codes' \in [Pids -> Codes \cup {NoObj}]
      BY <2>0, <2>6 DEF ProcessExit, probeVars, ExitCodesAfter
    <3>4. live' \in [Pids -> Nat]
      BY <2>0, <2>6 DEF ProcessExit
    <3>5. execing' \in [Pids -> Images \cup {NoObj}] /\ leaving' \in [Pids -> Codes \cup {NoObj}]
      BY <2>0, <2>6, Zenon DEF ProcessExit
    <3> QED  BY <2>0, <2>6, <3>2, <3>3, <3>4, <3>5 DEF KernelType, ProcessExit
  <2> QED  BY <1>1, <2>1, <2>2, <2>3, <2>4, <2>5, <2>6 DEF KernelStep
<1>2. ASSUME StartStep \/ ChangeStep \/ ObserverStep PROVE KernelType'
  <2>1. UNCHANGED probeVars
    BY <1>2, Zenon DEF StartStep, ChangeStep, ObserverStep, StartManager, Attach, Preload, SetTlsOkPut,
           SetTlsOk, SetConfig, UpdateFilterPut, UpdateFilter, AwaitSelect, AwaitTimeout, Await,
           NotifyWaiters, InitObserver, TellObserver
  <2> QED  BY <1>2, <2>1, OthersFrame DEF KernelType, probeVars
<1>3. ASSUME ReaderStep PROVE KernelType'
  <2>1. UNCHANGED exit_codes /\ proc_events' \in Seq(ProcRecords)
    <3>1. CASE handleExecStartEvent
      BY <3>1, RingTail DEF handleExecStartEvent
    <3>2. CASE handleExecEndEvent
      BY <3>2, RingTail DEF handleExecEndEvent
    <3>3. CASE handleExitEvent
      BY <3>3, RingTail DEF handleExitEvent
    <3>4. CASE Discover \/ DiscoverPut \/ Store
      BY <3>4, Zenon DEF KernelType, Discover, DiscoverPut, Store, probeVars
    <3> QED  BY <1>3, <3>1, <3>2, <3>3, <3>4 DEF ReaderStep
  <2> QED  BY <1>3, <2>1, OthersFrame DEF KernelType
<1> QED  BY <1>1, <1>2, <1>3, StepKinds

-----------------------------------------------------------------------------
\* The manager's state keeps its types.

LEMMA MetaOfType == ASSUME NEW r \in ProcessObjects PROVE MetaOf(r) \in Metas
BY DEF MetaOf, ProcessObjects, Metas

LEMMA ObjectsMade == made \in Nat /\ made < MaxObjs => made + 1 \in Objs
BY ProcAssumption DEF Objs

LEMMA DiscoveredType ==
    ASSUME NEW r \in ProcessObjects, NEW m \in Images, NEW f \in BOOLEAN, NEW l \in BOOLEAN
    PROVE  [[r EXCEPT !.exe = m, !.filter = f] EXCEPT !.locked = l] \in ProcessObjects
BY Zenon DEF ProcessObjects

LEMMA ObjectTypeStep ==
    ASSUME KernelType, ManagerType, ObjectType, MetaType, ObjInv, ProcNext
    PROVE  ObjectType'
<1>0. /\ obj \in [Objs -> ProcessObjects] /\ made \in Nat /\ made <= MaxObjs /\ 1 .. made \subseteq Objs
      /\ procs \in [Pids -> MaybeObj] /\ cache \in [Pids -> MaybeObj]
  BY ProcAssumption DEF ObjectType, ManagerType, Objs
<1>a. ASSUME NEW o \in Objs, NEW r \in ProcessObjects, obj' = [obj EXCEPT ![o] = r] PROVE ObjectType'
  BY <1>0, <1>a DEF ObjectType
<1>b. ASSUME NEW o \in Objs
      PROVE  /\ [obj[o] EXCEPT !.locked = TRUE] \in ProcessObjects
             /\ [obj[o] EXCEPT !.locked = FALSE] \in ProcessObjects
             /\ [obj[o] EXCEPT !.exited = TRUE] \in ProcessObjects
             /\ [obj[o] EXCEPT !.filter = TRUE] \in ProcessObjects
  BY <1>0, <1>b, Zenon DEF ProcessObjects
<1>c. ASSUME NEW p \in Pids
      PROVE  /\ [Unmade EXCEPT !.pid = p, !.locked = TRUE] \in ProcessObjects
             /\ [Unmade EXCEPT !.pid = p, !.notifier = TRUE] \in ProcessObjects
  BY <1>c, Zenon DEF Unmade, ProcessObjects
<1>1. CASE UNCHANGED obj
  BY <1>1 DEF ObjectType
<1>2. ASSUME NEW p \in Pids, Preload(p) PROVE ObjectType'
  BY <1>0, <1>2, <1>a, <1>c, ObjectsMade, Zenon DEF Preload
<1>3. CASE handleExecStartEvent
  <2>1. Head(proc_events).pid \in Pids
    BY <1>3, RingTail DEF handleExecStartEvent, ProcRecords
  <2> QED  BY <1>0, <1>3, <1>a, <1>c, <2>1, ObjectsMade, Zenon DEF handleExecStartEvent
<1>4. CASE handleExecEndEvent
  <2> DEFINE p == Head(proc_events).pid
             o == IF procs[p] = NoObj THEN cache[p] ELSE procs[p]
  <2>1. p \in Pids
    BY <1>4, RingTail DEF handleExecEndEvent, ProcRecords
  <2>2. cache[p] # NoObj => o \in Objs
    BY <1>0, <2>1 DEF MaybeObj
  <2>3. cache[p] # NoObj => obj' = [obj EXCEPT ![o].locked = TRUE]
    BY <1>4, Zenon DEF handleExecEndEvent
  <2>4. cache[p] = NoObj => obj' = obj
    BY <1>4, Zenon DEF handleExecEndEvent
  <2> QED  BY <1>1, <1>a, <1>b, <2>2, <2>3, <2>4, Zenon
<1>5. CASE handleExitEvent
  <2> DEFINE p == Head(proc_events).pid
  <2>1. p \in Pids
    BY <1>5, RingTail DEF handleExitEvent, ProcRecords
  <2>2. procs[p] # NoObj => procs[p] \in Objs
    BY <1>0, <2>1 DEF MaybeObj
  <2>3. (procs[p] # NoObj /\ obj' = [obj EXCEPT ![procs[p]].exited = TRUE]) \/ obj' = obj
    BY <1>5, Zenon DEF handleExitEvent
  <2> QED  BY <1>1, <1>a, <1>b, <2>2, <2>3, Zenon
<1>6. CASE Discover
  <2> DEFINE o == reader.obj
             p == obj[o].pid
             now == Discovered(obj[o], p)
  <2>1. o \in Objs /\ p \in Pids
    BY <1>0, <1>6 DEF Discover, ObjInv
  <2>2. [now EXCEPT !.locked = obj[o].notifier] \in ProcessObjects
    <3>1. obj[o] \in ProcessObjects /\ image[p] \in Images
      BY <1>0, <2>1 DEF KernelType
    <3>2. (image[p] \in filters) \in BOOLEAN /\ obj[o].notifier \in BOOLEAN
      BY <3>1 DEF ProcessObjects
    <3> QED  BY <3>1, <3>2, DiscoveredType, Zenon DEF Discovered
  <2>3. \/ obj' = [obj EXCEPT ![o].locked = FALSE]
        \/ obj' = [obj EXCEPT ![o] = [now EXCEPT !.locked = obj[o].notifier]]
    BY <1>6, Zenon DEF Discover
  <2> QED  BY <1>a, <1>b, <2>1, <2>2, <2>3, Zenon
<1>7. CASE DiscoverPut
  <2>1. reader.obj \in Objs
    BY <1>0, <1>7 DEF DiscoverPut, ObjInv
  <2>2. obj' = obj \/ obj' = [obj EXCEPT ![reader.obj].locked = FALSE]
    BY <1>7, Zenon DEF DiscoverPut
  <2> QED  BY <1>1, <1>a, <1>b, <2>1, <2>2, Zenon
<1>8. ASSUME NEW o \in Objs, NEW v \in BOOLEAN, SetTlsOk(o, v) PROVE ObjectType'
  <2> DEFINE now == [obj[o] EXCEPT !.tls_ok = v]
             puts == TellsEventer(o) /\ ~now.exited
  <2>1. puts \in BOOLEAN
    BY Zenon
  <2>2. \A b \in BOOLEAN : [now EXCEPT !.locked = b] \in ProcessObjects
    BY <1>0, Zenon DEF ProcessObjects
  <2>3. obj' = [obj EXCEPT ![o] = [now EXCEPT !.locked = puts]]
    BY <1>8, Zenon DEF SetTlsOk
  <2> HIDE DEF now, puts
  <2> QED  BY <1>a, <2>1, <2>2, <2>3, Zenon
<1>9. CASE SetTlsOkPut
  <2>1. setter.obj \in MaybeObj
    BY DEF MetaType
  <2>2. setter.obj = NoObj => obj' = obj
    BY <1>0, <1>9, ProcAssumption DEF SetTlsOkPut, Objs
  <2>3. obj' = [obj EXCEPT ![setter.obj].locked = FALSE]
    BY <1>9, Zenon DEF SetTlsOkPut
  <2> QED  BY <1>1, <1>a, <1>b, <2>1, <2>2, <2>3, Zenon DEF MaybeObj
<1>10. ASSUME NEW p \in Pids, UpdateFilter(p) PROVE ObjectType'
  <2>1. procs[p] \in Objs
    BY <1>0, <1>10 DEF UpdateFilter, ObjInv, MaybeObj
  <2>2. obj' = obj \/ obj' = [obj EXCEPT ![procs[p]] = [obj[procs[p]] EXCEPT !.filter = TRUE]]
    BY <1>10, Zenon DEF UpdateFilter
  <2> QED  BY <1>1, <1>a, <1>b, <2>1, <2>2, Zenon
<1>11. ASSUME KernelStep \/ ObserverStep PROVE UNCHANGED obj
  BY <1>11, KernelFrame, Zenon DEF ObserverStep, AwaitSelect, AwaitTimeout, Await, NotifyWaiters,
       InitObserver, TellObserver, userVars
<1>12. ASSUME StartManager \/ Attach \/ Store \/ UpdateFilterPut \/ \E s \in SUBSET Images : SetConfig(s)
       PROVE  UNCHANGED obj
  BY <1>12, Zenon DEF StartManager, Attach, Store, UpdateFilterPut, SetConfig
<1> QED  BY <1>1, <1>2, <1>3, <1>4, <1>5, <1>6, <1>7, <1>8, <1>9, <1>10, <1>11, <1>12, StepKinds
         DEF StartStep, ReaderStep, ChangeStep

\* What a step does to the objects that are made: they keep their pid and
\* notifier, and stay exited.
ObjKept(o) ==
    /\ obj'[o].pid = obj[o].pid /\ obj'[o].notifier = obj[o].notifier
    /\ obj[o].exited => obj'[o].exited

\* A step that makes no object; one that makes the next, for a pid.
NoneMade == made' = made /\ \A o \in Objs : ObjKept(o)
OneMade(p, r) ==
    /\ made < MaxObjs /\ made' = made + 1 /\ obj' = [obj EXCEPT ![made + 1] = r]
    /\ r.pid = p /\ ~r.exited

LEMMA ObjFrame ==
    ASSUME KernelType, ManagerType, ObjectType, MetaType, ObjInv, ProcNext
    PROVE  \/ NoneMade /\ (\A o \in Objs : o > made => obj'[o] = obj[o])
           \/ \E p \in Pids : Preload(p) /\ OneMade(p, [Unmade EXCEPT !.pid = p, !.locked = TRUE])
           \/ \E p \in Pids : /\ handleExecStartEvent /\ p = Head(proc_events).pid
                              /\ OneMade(p, [Unmade EXCEPT !.pid = p, !.notifier = TRUE])
<1> DEFINE Goal == NoneMade /\ (\A o \in Objs : o > made => obj'[o] = obj[o])
<1>0. /\ obj \in [Objs -> ProcessObjects] /\ made \in Nat /\ made <= MaxObjs /\ 1 .. made \subseteq Objs
      /\ procs \in [Pids -> MaybeObj] /\ cache \in [Pids -> MaybeObj]
  BY ProcAssumption DEF ObjectType, ManagerType, Objs
<1>a. ASSUME NEW o \in 1 .. made, NEW r, made' = made, obj' = [obj EXCEPT ![o] = r],
             r.pid = obj[o].pid, r.notifier = obj[o].notifier, obj[o].exited => r.exited
      PROVE  Goal
  <2>1. o \in Objs /\ \A x \in Objs : x > made => x # o
    BY <1>0
  <2>2. \A x \in Objs : obj'[x] = IF x = o THEN r ELSE obj[x]
    BY <1>0, <1>a, <2>1
  <2> QED  BY <1>a, <2>1, <2>2, Zenon DEF NoneMade, ObjKept
<1>b. ASSUME NEW o \in 1 .. made
      PROVE  LET keeps(r) == /\ r.pid = obj[o].pid /\ r.notifier = obj[o].notifier
                             /\ obj[o].exited => r.exited
             IN  /\ keeps([obj[o] EXCEPT !.locked = TRUE]) /\ keeps([obj[o] EXCEPT !.locked = FALSE])
                 /\ keeps([obj[o] EXCEPT !.exited = TRUE]) /\ keeps([obj[o] EXCEPT !.filter = TRUE])
  BY <1>0, <1>b DEF ProcessObjects
<1>1. ASSUME UNCHANGED <<made, obj>> PROVE Goal
  BY <1>1, Zenon DEF NoneMade, ObjKept
<1>2. ASSUME NEW p \in Pids, Preload(p) PROVE OneMade(p, [Unmade EXCEPT !.pid = p, !.locked = TRUE])
  BY <1>2 DEF Preload, OneMade, Unmade
<1>3. ASSUME handleExecStartEvent
      PROVE  \E p \in Pids : /\ p = Head(proc_events).pid
                             /\ OneMade(p, [Unmade EXCEPT !.pid = p, !.notifier = TRUE])
  <2>1. Head(proc_events).pid \in Pids
    BY <1>3, RingTail DEF handleExecStartEvent, ProcRecords
  <2> QED  BY <1>3, <2>1, Zenon DEF handleExecStartEvent, OneMade, Unmade
<1>4. ASSUME handleExecEndEvent PROVE Goal
  <2> DEFINE p == Head(proc_events).pid
             o == IF procs[p] = NoObj THEN cache[p] ELSE procs[p]
  <2>1. p \in Pids
    BY <1>4, RingTail DEF handleExecEndEvent, ProcRecords
  <2>2. cache[p] # NoObj => o \in 1 .. made
    BY <2>1 DEF ObjInv
  <2>3. cache[p] # NoObj => obj' = [obj EXCEPT ![o].locked = TRUE]
    BY <1>4, Zenon DEF handleExecEndEvent
  <2>4. made' = made /\ (cache[p] = NoObj => obj' = obj)
    BY <1>4, Zenon DEF handleExecEndEvent
  <2> HIDE DEF o, p, Goal
  <2> QED  BY <1>1, <1>a, <1>b, <2>2, <2>3, <2>4, Zenon
<1>5. ASSUME handleExitEvent PROVE Goal
  <2> DEFINE p == Head(proc_events).pid
  <2>1. p \in Pids
    BY <1>5, RingTail DEF handleExitEvent, ProcRecords
  <2>2. procs[p] # NoObj => procs[p] \in 1 .. made
    BY <2>1 DEF ObjInv
  <2>3. made' = made /\ ((procs[p] # NoObj /\ obj' = [obj EXCEPT ![procs[p]].exited = TRUE]) \/ obj' = obj)
    BY <1>5, Zenon DEF handleExitEvent
  <2> HIDE DEF p, Goal
  <2> QED  BY <1>1, <1>a, <1>b, <2>2, <2>3, Zenon
<1>6. ASSUME Discover PROVE Goal
  <2> DEFINE o == reader.obj
             p == obj[o].pid
             now == Discovered(obj[o], p)
  <2>1. o \in 1 .. made /\ made' = made /\ obj[o] \in ProcessObjects
    BY <1>0, <1>6 DEF Discover, ObjInv
  <2>2. LET r == [now EXCEPT !.locked = obj[o].notifier] IN
        r.pid = obj[o].pid /\ r.notifier = obj[o].notifier /\ (obj[o].exited => r.exited)
    BY <2>1 DEF Discovered, ProcessObjects
  <2>3. \/ obj' = [obj EXCEPT ![o].locked = FALSE]
        \/ obj' = [obj EXCEPT ![o] = [now EXCEPT !.locked = obj[o].notifier]]
    BY <1>6, Zenon DEF Discover
  <2> HIDE DEF o, p, now, Goal
  <2> QED  BY <1>a, <1>b, <2>1, <2>2, <2>3, Zenon
<1>7. ASSUME DiscoverPut PROVE Goal
  <2>1. reader.obj \in 1 .. made
    BY <1>0, <1>7 DEF DiscoverPut, ObjInv
  <2>2. made' = made /\ (obj' = obj \/ obj' = [obj EXCEPT ![reader.obj].locked = FALSE])
    BY <1>7, Zenon DEF DiscoverPut
  <2> HIDE DEF Goal
  <2> QED  BY <1>1, <1>a, <1>b, <2>1, <2>2, Zenon
<1>8. ASSUME NEW o \in Objs, NEW v \in BOOLEAN, SetTlsOk(o, v) PROVE Goal
  <2> DEFINE now == [obj[o] EXCEPT !.tls_ok = v]
             puts == TellsEventer(o) /\ ~now.exited
  <2>1. o \in 1 .. made /\ made' = made /\ obj[o] \in ProcessObjects
    BY <1>0, <1>8 DEF SetTlsOk, Objs
  <2>2. \A b \in BOOLEAN : LET r == [now EXCEPT !.locked = b] IN
          r.pid = obj[o].pid /\ r.notifier = obj[o].notifier /\ (obj[o].exited => r.exited)
    BY <2>1 DEF ProcessObjects
  <2>3. obj' = [obj EXCEPT ![o] = [now EXCEPT !.locked = puts]] /\ puts \in BOOLEAN
    BY <1>8, Zenon DEF SetTlsOk
  <2> HIDE DEF now, puts, Goal
  <2> QED  BY <1>a, <2>1, <2>2, <2>3, Zenon
<1>9. ASSUME SetTlsOkPut PROVE Goal
  <2>1. setter.obj = NoObj => obj' = obj
    BY <1>0, <1>9, ProcAssumption DEF SetTlsOkPut, Objs
  <2>2. made' = made /\ obj' = [obj EXCEPT ![setter.obj].locked = FALSE]
    BY <1>9, Zenon DEF SetTlsOkPut
  <2> HIDE DEF Goal
  <2> QED  BY <1>1, <1>a, <1>b, <2>1, <2>2, Zenon DEF ObjInv
<1>10. ASSUME NEW p \in Pids, UpdateFilter(p) PROVE Goal
  <2>1. procs[p] \in 1 .. made
    BY <1>0, <1>10 DEF UpdateFilter, ObjInv
  <2>2. made' = made /\ (obj' = obj \/ obj' = [obj EXCEPT ![procs[p]] = [obj[procs[p]] EXCEPT !.filter = TRUE]])
    BY <1>10, Zenon DEF UpdateFilter
  <2> HIDE DEF Goal
  <2> QED  BY <1>1, <1>a, <1>b, <2>1, <2>2, Zenon
<1>11. ASSUME KernelStep \/ ObserverStep PROVE UNCHANGED <<made, obj>>
  BY <1>11, KernelFrame, Zenon DEF ObserverStep, AwaitSelect, AwaitTimeout, Await, NotifyWaiters,
       InitObserver, TellObserver, userVars
<1>12. ASSUME StartManager \/ Attach \/ Store \/ UpdateFilterPut \/ \E s \in SUBSET Images : SetConfig(s)
       PROVE  UNCHANGED <<made, obj>>
  BY <1>12, Zenon DEF StartManager, Attach, Store, UpdateFilterPut, SetConfig
<1> HIDE DEF Goal
<1>13. Goal \/ (\E p \in Pids : Preload(p)) \/ handleExecStartEvent
  BY <1>1, <1>4, <1>5, <1>6, <1>7, <1>8, <1>9, <1>10, <1>11, <1>12, StepKinds, Zenon
         DEF StartStep, ReaderStep, ChangeStep
<1> QED  BY <1>2, <1>3, <1>13, Zenon DEF Goal

LEMMA MadeIn ==
    ASSUME ManagerType PROVE /\ made \in Nat /\ 1 .. made \subseteq Objs /\ NoObj \notin Objs
                             /\ made < MaxObjs => made + 1 \in Objs /\ made + 1 <= MaxObjs
BY ProcAssumption DEF ManagerType, Objs

LEMMA ReaderSet ==
    /\ \A o \in MaybeObj, b \in BOOLEAN :
         [at |-> "discover", obj |-> o, exists |-> b, data |-> NoObj] \in Readers
    /\ \A r \in Readers, d \in Metas \cup {NoObj} : [r EXCEPT !.at = "put", !.data = d] \in Readers
    /\ \A r \in Readers : [r EXCEPT !.at = "store"] \in Readers
    /\ Reading \in Readers
BY Zenon DEF Readers, Reading, MaybeObj

LEMMA ReaderKept ==
    ASSUME NEW r \in Readers, NEW d
    PROVE  /\ [r EXCEPT !.at = "put", !.data = d].obj = r.obj
           /\ [r EXCEPT !.at = "put", !.data = d].data = d
           /\ [r EXCEPT !.at = "put", !.data = d].at = "put"
           /\ [r EXCEPT !.at = "store"].obj = r.obj
           /\ [r EXCEPT !.at = "store"].at = "store"
           /\ Reading.at = "idle"
BY DEF Readers, Reading

LEMMA SlotSet ==
    ASSUME NEW f \in [Pids -> MaybeObj], NEW p, NEW o \in MaybeObj
    PROVE  [f EXCEPT ![p] = o] \in [Pids -> MaybeObj]
BY Zenon

LEMMA ManagerTypeStep ==
    ASSUME KernelType, ManagerType, ObjectType, MetaType, ObserverType, ObjInv, ProcNext
    PROVE  ManagerType'
<1>0. /\ reader \in Readers /\ cache \in [Pids -> MaybeObj] /\ procs \in [Pids -> MaybeObj]
      /\ obj \in [Objs -> ProcessObjects] /\ 1 .. made \subseteq Objs
  BY MadeIn DEF ManagerType, ObjectType
<1>1. made' \in Nat /\ made' <= MaxObjs
  <2>1. made' = made \/ (made < MaxObjs /\ made' = made + 1)
    BY ObjFrame, Zenon DEF NoneMade, OneMade
  <2> QED  BY <2>1, MadeIn DEF ManagerType
<1>2. mgr' \in {"idle", "preload", "running"} /\ snap' \subseteq Pids /\ filters' \subseteq Images
  BY KernelFrame, StepKinds, Zenon
     DEF ManagerType, StartStep, ReaderStep, ChangeStep, ObserverStep, StartManager, Attach, Preload,
       handleExecStartEvent, handleExecEndEvent, handleExitEvent, Discover, DiscoverPut, Store,
       SetTlsOkPut, SetTlsOk, SetConfig, UpdateFilterPut, UpdateFilter, AwaitSelect, AwaitTimeout,
       Await, NotifyWaiters, InitObserver, TellObserver, userVars
<1>3. cache' \in [Pids -> MaybeObj]
  <2>1. ASSUME handleExecStartEvent PROVE cache' \in [Pids -> MaybeObj]
    BY <1>0, <2>1, MadeIn, SlotSet DEF handleExecStartEvent, MaybeObj
  <2>2. ASSUME handleExecEndEvent PROVE cache' \in [Pids -> MaybeObj]
    BY <1>0, <2>2, SlotSet DEF handleExecEndEvent, MaybeObj
  <2> QED  BY <1>0, <2>1, <2>2, KernelFrame, StepKinds, ZenonT(30)
         DEF StartStep, ReaderStep, ChangeStep, ObserverStep, StartManager, Attach, Preload,
           handleExitEvent, Discover, DiscoverPut, Store,
           SetTlsOkPut, SetTlsOk, SetConfig, UpdateFilterPut, UpdateFilter, AwaitSelect, AwaitTimeout,
           Await, NotifyWaiters, InitObserver, TellObserver, userVars
<1>4. procs' \in [Pids -> MaybeObj]
  <2>1. ASSUME Store PROVE procs' \in [Pids -> MaybeObj]
    BY <1>0, <2>1, SlotSet DEF Store, MaybeObj, ObjInv
  <2>2. ASSUME handleExitEvent PROVE procs' \in [Pids -> MaybeObj]
    BY <1>0, <2>2, SlotSet DEF handleExitEvent, MaybeObj
  <2> QED  BY <1>0, <2>1, <2>2, KernelFrame, StepKinds, Zenon
         DEF StartStep, ReaderStep, ChangeStep, ObserverStep, StartManager, Attach, Preload,
           handleExecStartEvent, handleExecEndEvent, Discover, DiscoverPut,
           SetTlsOkPut, SetTlsOk, SetConfig, UpdateFilterPut, UpdateFilter, AwaitSelect, AwaitTimeout,
           Await, NotifyWaiters, InitObserver, TellObserver, userVars
<1>5. reader' \in Readers
  <2>1. ASSUME NEW p \in Pids, Preload(p) PROVE reader' \in Readers
    BY <2>1, ReaderSet, MadeIn, Zenon DEF Preload, MaybeObj
  <2>2. ASSUME handleExecEndEvent PROVE reader' \in Readers
    <3> DEFINE p == Head(proc_events).pid
               o == IF procs[p] = NoObj THEN cache[p] ELSE procs[p]
    <3>1. p \in Pids
      BY <2>2, RingTail DEF handleExecEndEvent, ProcRecords
    <3>2. o \in MaybeObj /\ (procs[p] # NoObj) \in BOOLEAN
      BY <1>0, <3>1
    <3> QED  BY <1>0, <2>2, <3>2, ReaderSet, Zenon DEF handleExecEndEvent
  <2>3. ASSUME Discover PROVE reader' \in Readers
    <3> DEFINE o == reader.obj
               p == obj[o].pid
               now == Discovered(obj[o], p)
    <3>1. o \in Objs /\ o \in 1 .. made
      BY <1>0, <2>3 DEF Discover, ObjInv
    <3>2. obj[o] \in ProcessObjects /\ image[p] \in Images /\ (image[p] \in filters) \in BOOLEAN
      BY <1>0, <3>1 DEF KernelType, ObjInv
    <3>3. now \in ProcessObjects
      BY <3>2, Zenon DEF Discovered, ProcessObjects
    <3>4. MetaOf(obj[o]) \in Metas \cup {NoObj} /\ MetaOf(now) \in Metas \cup {NoObj}
      BY <3>2, <3>3, MetaOfType
    <3>5. \/ reader' = Reading \/ reader' = [reader EXCEPT !.at = "store"]
          \/ reader' = [reader EXCEPT !.at = "put", !.data = MetaOf(obj[o])]
          \/ reader' = [reader EXCEPT !.at = "put", !.data = MetaOf(now)]
      BY <2>3, Zenon DEF Discover
    <3> HIDE DEF o, p, now
    <3> QED  BY <1>0, <3>4, <3>5, ReaderSet, ZenonT(30)
  <2>4. ASSUME DiscoverPut PROVE reader' \in Readers
    BY <1>0, <2>4, ReaderSet, Zenon DEF DiscoverPut
  <2>5. ASSUME Store PROVE reader' \in Readers
    <3>1. MetaOf(obj[reader.obj]) \in Metas
      BY <1>0, <2>5, MetaOfType DEF Store, ObjInv
    <3> QED  BY <1>0, <2>5, <3>1, ReaderSet, Zenon DEF Store
  <2> QED  BY <1>0, <2>1, <2>2, <2>3, <2>4, <2>5, KernelFrame, StepKinds, ZenonT(30)
         DEF StartStep, ReaderStep, ChangeStep, ObserverStep, StartManager, Attach,
           handleExecStartEvent, handleExitEvent,
           SetTlsOkPut, SetTlsOk, SetConfig, UpdateFilterPut, UpdateFilter, AwaitSelect, AwaitTimeout,
           Await, NotifyWaiters, InitObserver, TellObserver, userVars
<1> QED  BY <1>1, <1>2, <1>3, <1>4, <1>5 DEF ManagerType

LEMMA MetaTypeStep ==
    ASSUME KernelType, ManagerType, ObjectType, MetaType, ObserverType, ObjInv, ProcNext
    PROVE  MetaType'
<1>0. /\ reader \in Readers /\ procs \in [Pids -> MaybeObj] /\ NoObj \notin Objs
      /\ obj \in [Objs -> ProcessObjects] /\ 1 .. made \subseteq Objs
      /\ meta \in [Pids -> Metas \cup {NoObj}]
      /\ config \in [todo : SUBSET Pids, obj : MaybeObj, data : Metas \cup {NoObj}]
      /\ setter \in [obj : MaybeObj, data : Metas \cup {NoObj}]
  BY MadeIn DEF ManagerType, ObjectType, MetaType
<1>1. meta' \in [Pids -> Metas \cup {NoObj}]
  <2>a. ASSUME NEW p, NEW d \in Metas \cup {NoObj}, meta' = [meta EXCEPT ![p] = d]
        PROVE  meta' \in [Pids -> Metas \cup {NoObj}]
    BY <1>0, <2>a, Zenon
  <2>1. ASSUME DiscoverPut PROVE meta' \in [Pids -> Metas \cup {NoObj}]
    <3>1. reader.data \in Metas \cup {NoObj}
      BY <1>0 DEF Readers
    <3> QED  BY <2>a, <2>1, <3>1, Zenon DEF DiscoverPut, PutMeta
  <2>2. ASSUME SetTlsOkPut PROVE meta' \in [Pids -> Metas \cup {NoObj}]
    <3>1. setter.data \in Metas \cup {NoObj}
      BY <1>0
    <3> QED  BY <2>a, <2>2, <3>1, Zenon DEF SetTlsOkPut, PutMeta
  <2>3. ASSUME UpdateFilterPut PROVE meta' \in [Pids -> Metas \cup {NoObj}]
    <3>1. config.data \in Metas \cup {NoObj}
      BY <1>0
    <3> QED  BY <2>a, <2>3, <3>1, Zenon DEF UpdateFilterPut, PutMeta
  <2>4. ASSUME NEW o \in Objs, NEW v \in BOOLEAN, SetTlsOk(o, v) PROVE meta' \in [Pids -> Metas \cup {NoObj}]
    <3>1. NoObj \in Metas \cup {NoObj}
      OBVIOUS
    <3> QED  BY <1>0, <2>a, <2>4, <3>1, Zenon DEF SetTlsOk
  <2>5. ASSUME handleExitEvent PROVE meta' \in [Pids -> Metas \cup {NoObj}]
    <3> DEFINE p == Head(proc_events).pid
    <3>1. p \in Pids
      BY <2>5, RingTail DEF handleExitEvent, ProcRecords
    <3>2. ClosedMeta(procs[p], p) \in Metas \cup {NoObj}
      BY <1>0, <3>1 DEF ClosedMeta
    <3> QED  BY <1>0, <2>a, <2>5, <3>2, Zenon DEF handleExitEvent
  <2> QED  BY <1>0, <2>1, <2>2, <2>3, <2>4, <2>5, KernelFrame, StepKinds, ZenonT(30)
         DEF StartStep, ReaderStep, ChangeStep, ObserverStep, StartManager, Attach, Preload,
           handleExecStartEvent, handleExecEndEvent, Discover, Store,
           SetConfig, UpdateFilter, AwaitSelect, AwaitTimeout,
           Await, NotifyWaiters, InitObserver, TellObserver
<1>2. config' \in [todo : SUBSET Pids, obj : MaybeObj, data : Metas \cup {NoObj}]
  <2>1. ASSUME NEW s \in SUBSET Images, SetConfig(s)
        PROVE  config' \in [todo : SUBSET Pids, obj : MaybeObj, data : Metas \cup {NoObj}]
    BY <2>1 DEF SetConfig, NoConfig, MaybeObj
  <2>2. ASSUME UpdateFilterPut PROVE config' \in [todo : SUBSET Pids, obj : MaybeObj, data : Metas \cup {NoObj}]
    BY <1>0, <2>2 DEF UpdateFilterPut, NoConfig, MaybeObj
  <2>3. ASSUME NEW p \in Pids, UpdateFilter(p)
        PROVE  config' \in [todo : SUBSET Pids, obj : MaybeObj, data : Metas \cup {NoObj}]
    <3> DEFINE o == procs[p]
               now == [obj[o] EXCEPT !.filter = TRUE]
               rest == [NoConfig EXCEPT !.todo = config.todo \ {p}]
    <3>1. o \in Objs /\ obj[o] \in ProcessObjects
      BY <1>0, <2>3 DEF UpdateFilter, ObjInv
    <3>2. now \in ProcessObjects
      BY <3>1, Zenon DEF ProcessObjects
    <3>3. MetaOf(now) \in Metas
      BY <3>2, MetaOfType
    <3>4. rest = [todo |-> config.todo \ {p}, obj |-> NoObj, data |-> NoObj]
      BY DEF NoConfig
    <3>5. config' = rest \/ config' = [rest EXCEPT !.obj = o, !.data = MetaOf(now)]
      BY <2>3, Zenon DEF UpdateFilter
    <3> HIDE DEF o, now, rest
    <3>6. \/ config' = [todo |-> config.todo \ {p}, obj |-> NoObj, data |-> NoObj]
          \/ config' = [todo |-> config.todo \ {p}, obj |-> o, data |-> MetaOf(now)]
      BY <3>4, <3>5, Zenon
    <3>7. config.todo \ {p} \in SUBSET Pids /\ o \in MaybeObj /\ NoObj \in MaybeObj
      BY <1>0, <3>1 DEF MaybeObj
    <3> QED  BY <3>3, <3>6, <3>7
  <2> QED  BY <1>0, <2>1, <2>2, <2>3, KernelFrame, StepKinds, Zenon
         DEF StartStep, ReaderStep, ChangeStep, ObserverStep, StartManager, Attach, Preload,
           handleExecStartEvent, handleExecEndEvent, handleExitEvent, Discover, DiscoverPut, Store,
           SetTlsOkPut, SetTlsOk, AwaitSelect, AwaitTimeout,
           Await, NotifyWaiters, InitObserver, TellObserver, userVars
<1>3. setter' \in [obj : MaybeObj, data : Metas \cup {NoObj}]
  <2>1. NotSetting \in [obj : MaybeObj, data : Metas \cup {NoObj}]
    BY DEF NotSetting, MaybeObj
  <2>2. ASSUME NEW o \in Objs, NEW v \in BOOLEAN, SetTlsOk(o, v)
        PROVE  setter' \in [obj : MaybeObj, data : Metas \cup {NoObj}]
    <3> DEFINE now == [obj[o] EXCEPT !.tls_ok = v]
    <3>1. now \in ProcessObjects
      BY <1>0 DEF ProcessObjects
    <3>2. [obj |-> o, data |-> MetaOf(now)] \in [obj : MaybeObj, data : Metas \cup {NoObj}]
      BY <3>1, MetaOfType DEF MaybeObj
    <3> QED  BY <2>1, <2>2, <3>2, Zenon DEF SetTlsOk
  <2> QED  BY <1>0, <2>1, <2>2, KernelFrame, StepKinds, ZenonT(30)
         DEF StartStep, ReaderStep, ChangeStep, ObserverStep, StartManager, Attach, Preload,
           handleExecStartEvent, handleExecEndEvent, handleExitEvent, Discover, DiscoverPut, Store,
           SetTlsOkPut, SetConfig, UpdateFilterPut, UpdateFilter, AwaitSelect, AwaitTimeout,
           Await, NotifyWaiters, InitObserver, TellObserver, userVars
<1> QED  BY <1>1, <1>2, <1>3 DEF MetaType

LEMMA ObserverTypeStep ==
    ASSUME KernelType, ManagerType, ObjectType, MetaType, ObserverType, ObjInv, ProcNext
    PROVE  ObserverType'
<1> DEFINE Ats == {"out", "registered", "select", "missed", "forgotten", "got", "timeout"}
           Awaits == [at : Ats, pid : Pids \cup {NoObj}]
<1>0. /\ waiters \subseteq Waiters /\ await \in [Waiters -> Awaits] /\ tasks \subseteq Tasks
      /\ told \in [Objs -> {"nothing", "started", "stopped", "late"}] /\ 1 .. made \subseteq Objs
  BY MadeIn DEF ObserverType
<1>1. ASSUME NEW w \in Waiters, NEW p \in Pids, Await(w, p)
      PROVE  waiters' \subseteq Waiters /\ await' \in [Waiters -> Awaits] /\ UNCHANGED <<tasks, told>>
  BY <1>0, <1>1 DEF Await
<1>2. ASSUME NEW w \in Waiters, AwaitSelect(w) \/ AwaitTimeout(w)
      PROVE  await' \in [Waiters -> Awaits] /\ UNCHANGED <<waiters, tasks, told>>
  <2>1. \A a \in Awaits, x \in Ats : [a EXCEPT !.at = x] \in Awaits
    OBVIOUS
  <2>2. ASSUME AwaitSelect(w) PROVE await' \in [Waiters -> Awaits] /\ UNCHANGED <<waiters, tasks, told>>
    <3> DEFINE x == IF await[w].at = "registered" THEN "select" ELSE "forgotten"
    <3>1. x \in Ats
      OBVIOUS
    <3>2. await' = [await EXCEPT ![w] = [await[w] EXCEPT !.at = x]] /\ UNCHANGED <<waiters, tasks, told>>
      BY <2>2, Zenon DEF AwaitSelect
    <3> HIDE DEF Awaits, Ats, x
    <3> QED  BY <1>0, <2>1, <3>1, <3>2
  <2>3. ASSUME AwaitTimeout(w) PROVE await' \in [Waiters -> Awaits] /\ UNCHANGED <<waiters, tasks, told>>
    BY <1>0, <2>1, <2>3, ZenonT(30) DEF AwaitTimeout
  <2> QED  BY <1>2, <2>2, <2>3, Zenon
<1>3. ASSUME NEW t \in tasks, NotifyWaiters(t)
      PROVE  await' \in [Waiters -> Awaits] /\ tasks' \subseteq Tasks /\ UNCHANGED <<waiters, told>>
  <2>1. \A x \in Ats : Notified(x) \in Ats
    BY DEF Notified
  <2>2. \A w \in Waiters : [await[w] EXCEPT !.at = Notified(@)] \in Awaits
    BY <1>0, <2>1
  <2> QED  BY <1>0, <1>3, <2>2 DEF NotifyWaiters
<1>4. ASSUME NEW t \in tasks, InitObserver(t)
      PROVE  tasks' \subseteq Tasks /\ UNCHANGED <<waiters, await, told>>
  <2>1. [t EXCEPT !.kind = "started"] \in Tasks
    BY <1>0 DEF Tasks
  <2> QED  BY <1>0, <1>4, <2>1 DEF InitObserver
<1>5. ASSUME NEW t \in tasks, TellObserver(t)
      PROVE  /\ told' \in [Objs -> {"nothing", "started", "stopped", "late"}]
             /\ tasks' \subseteq Tasks /\ UNCHANGED <<waiters, await>>
  BY <1>0, <1>5 DEF TellObserver, Tasks
<1>6. ASSUME Store
      PROVE  waiters' \subseteq Waiters /\ tasks' \subseteq Tasks /\ UNCHANGED <<await, told>>
  <2>1. reader.obj \in Objs
    BY <1>0, <1>6 DEF Store, ObjInv
  <2>2. \A p \in Pids \cup {NoObj} : NotifyTask(reader.obj, Woken(p)) \subseteq Tasks
    BY <1>0, <2>1 DEF NotifyTask, Woken, Tasks
  <2>3. obj[reader.obj].pid \in Pids
    BY <1>6 DEF Store, ObjInv
  <2>4. [kind |-> "start", obj |-> reader.obj, for |-> {}] \in Tasks
    BY <2>1 DEF Tasks
  <2> QED  BY <1>0, <1>6, <2>2, <2>3, <2>4, Zenon DEF Store
<1>7. ASSUME handleExitEvent PROVE tasks' \subseteq Tasks /\ UNCHANGED <<waiters, await, told>>
  <2> DEFINE p == Head(proc_events).pid
  <2>1. p \in Pids
    BY <1>7, RingTail DEF handleExitEvent, ProcRecords
  <2>2. procs[p] # NoObj => StopTask(procs[p]) \subseteq Tasks
    BY <1>0, <2>1 DEF StopTask, Tasks, ObjInv
  <2> QED  BY <1>0, <1>7, <2>2 DEF handleExitEvent
<1>8. ASSUME ~(\E w \in Waiters : AwaitSelect(w) \/ AwaitTimeout(w) \/ \E p \in Pids : Await(w, p)),
             ~(\E t \in tasks : NotifyWaiters(t) \/ InitObserver(t) \/ TellObserver(t)),
             ~Store, ~handleExitEvent
      PROVE  UNCHANGED <<waiters, await, tasks, told>>
  BY <1>8, KernelFrame, StepKinds, Zenon
         DEF StartStep, ReaderStep, ChangeStep, ObserverStep, StartManager, Attach, Preload,
           handleExecStartEvent, handleExecEndEvent, Discover, DiscoverPut,
           SetTlsOkPut, SetTlsOk, SetConfig, UpdateFilterPut, UpdateFilter, userVars
<1> HIDE DEF Ats, Awaits
<1>9. /\ waiters' \subseteq Waiters /\ await' \in [Waiters -> Awaits] /\ tasks' \subseteq Tasks
      /\ told' \in [Objs -> {"nothing", "started", "stopped", "late"}]
  BY <1>0, <1>1, <1>2, <1>3, <1>4, <1>5, <1>6, <1>7, <1>8, Zenon
<1> QED  BY <1>9 DEF ObserverType, Ats, Awaits

\* The objects made so far stay made.
LEMMA StaysMade ==
    ASSUME ManagerType, ObjectType, NoneMade \/ \E p \in Pids : \E r : OneMade(p, r)
    PROVE  \A o \in 1 .. made : o \in 1 .. made' /\ obj'[o].pid = obj[o].pid
<1>1. 1 .. made \subseteq Objs /\ made \in Nat /\ obj \in [Objs -> ProcessObjects]
      /\ (made < MaxObjs => made + 1 \in Objs)
  BY MadeIn DEF ObjectType
<1>2. ASSUME NoneMade PROVE \A o \in 1 .. made : o \in 1 .. made' /\ obj'[o].pid = obj[o].pid
  BY <1>1, <1>2, Zenon DEF NoneMade, ObjKept
<1>3. ASSUME NEW p, NEW r, OneMade(p, r)
      PROVE  \A o \in 1 .. made : o \in 1 .. made' /\ obj'[o].pid = obj[o].pid
  BY <1>1, <1>3 DEF OneMade
<1> QED  BY <1>2, <1>3, Zenon

LEMMA MadeStep ==
    ASSUME KernelType, ManagerType, ObjectType, MetaType, ObjInv, ProcNext
    PROVE  NoneMade \/ \E p \in Pids : \E r : OneMade(p, r)
BY ObjFrame, Zenon

\* What the manager's maps, and the goroutines, may come to refer to.
LEMMA RefStep ==
    ASSUME KernelType, ManagerType, ObjectType, MetaType, ObserverType, ObjInv, ProcNext
    PROVE  /\ \A p \in Pids : \/ cache'[p] \in {cache[p], NoObj}
                              \/ /\ handleExecStartEvent /\ p = Head(proc_events).pid
                                 /\ cache'[p] = made'
           /\ \A p \in Pids : \/ procs'[p] = procs[p]
                              \/ /\ handleExitEvent /\ procs'[p] = NoObj /\ procs[p] # NoObj
                                 /\ Unlocked /\ config' = config
                              \/ Store /\ procs'[p] = reader.obj /\ obj[reader.obj].pid = p
           /\ \/ reader'.at = "idle"
              \/ reader'.obj = reader.obj /\ reader.at # "idle"
              \/ reader.at = "idle" /\ made' = made + 1 /\ reader'.obj = made'
              \/ /\ reader.at = "idle" /\ handleExecEndEvent
                 /\ reader'.obj \in 1 .. made
<1>0. /\ cache \in [Pids -> MaybeObj] /\ procs \in [Pids -> MaybeObj] /\ reader \in Readers
  BY DEF ManagerType
<1>1. ASSUME NEW p \in Pids
      PROVE  \/ cache'[p] \in {cache[p], NoObj}
             \/ handleExecStartEvent /\ p = Head(proc_events).pid /\ cache'[p] = made'
  <2>1. ASSUME handleExecStartEvent
        PROVE  cache'[p] = cache[p] \/ (p = Head(proc_events).pid /\ cache'[p] = made')
    BY <1>0, <2>1 DEF handleExecStartEvent
  <2>2. ASSUME handleExecEndEvent PROVE cache'[p] \in {cache[p], NoObj}
    BY <1>0, <2>2 DEF handleExecEndEvent
  <2>3. handleExecStartEvent \/ handleExecEndEvent \/ cache' = cache
    BY KernelFrame, StepKinds, Zenon
         DEF StartStep, ReaderStep, ChangeStep, ObserverStep, StartManager, Attach, Preload,
           handleExitEvent, Discover, DiscoverPut, Store,
           SetTlsOkPut, SetTlsOk, SetConfig, UpdateFilterPut, UpdateFilter, AwaitSelect, AwaitTimeout,
           Await, NotifyWaiters, InitObserver, TellObserver, userVars
  <2> QED  BY <2>1, <2>2, <2>3, Zenon
<1>2. ASSUME NEW p \in Pids
      PROVE  \/ procs'[p] = procs[p]
             \/ /\ handleExitEvent /\ procs'[p] = NoObj /\ procs[p] # NoObj
                /\ Unlocked /\ config' = config
             \/ Store /\ procs'[p] = reader.obj /\ obj[reader.obj].pid = p
  <2>1. ASSUME Store PROVE procs'[p] = procs[p] \/ (procs'[p] = reader.obj /\ obj[reader.obj].pid = p)
    BY <1>0, <2>1 DEF Store
  <2>2. ASSUME handleExitEvent
        PROVE  \/ procs'[p] = procs[p]
               \/ procs'[p] = NoObj /\ procs[p] # NoObj /\ Unlocked /\ config' = config
    BY <1>0, <2>2 DEF handleExitEvent
  <2>3. Store \/ handleExitEvent \/ procs' = procs
    BY KernelFrame, StepKinds, ZenonT(30)
         DEF StartStep, ReaderStep, ChangeStep, ObserverStep, StartManager, Attach, Preload,
           handleExecStartEvent, handleExecEndEvent, Discover, DiscoverPut,
           SetTlsOkPut, SetTlsOk, SetConfig, UpdateFilterPut, UpdateFilter, AwaitSelect, AwaitTimeout,
           Await, NotifyWaiters, InitObserver, TellObserver, userVars
  <2> QED  BY <2>1, <2>2, <2>3, Zenon
<1> DEFINE Goal == \/ reader'.at = "idle"
                   \/ reader'.obj = reader.obj /\ reader.at # "idle"
                   \/ reader.at = "idle" /\ made' = made + 1 /\ reader'.obj = made'
                   \/ /\ reader.at = "idle" /\ handleExecEndEvent
                      /\ reader'.obj \in 1 .. made
<1>3. ASSUME NEW p \in Pids, Preload(p) PROVE Goal
  BY <1>3 DEF Preload
<1>4. ASSUME handleExecEndEvent PROVE Goal
  <2> DEFINE p == Head(proc_events).pid
             o == IF procs[p] = NoObj THEN cache[p] ELSE procs[p]
  <2>1. p \in Pids /\ reader.at = "idle"
    BY <1>4, RingTail DEF handleExecEndEvent, ProcRecords, Reads
  <2>2. \/ reader' = reader
        \/ cache[p] # NoObj /\ reader' = [at |-> "discover", obj |-> o, exists |-> procs[p] # NoObj, data |-> NoObj]
    BY <1>4, Zenon DEF handleExecEndEvent
  <2>3. cache[p] # NoObj => o \in 1 .. made
    BY <2>1 DEF ObjInv
  <2> HIDE DEF o, p
  <2> QED  BY <1>4, <2>1, <2>2, <2>3
<1>5. ASSUME Discover PROVE Goal
  <2> DEFINE d == MetaOf(Discovered(obj[reader.obj], obj[reader.obj].pid))
  <2>1. \/ reader' = Reading \/ reader' = [reader EXCEPT !.at = "store"]
        \/ reader' = [reader EXCEPT !.at = "put", !.data = MetaOf(obj[reader.obj])]
        \/ reader' = [reader EXCEPT !.at = "put", !.data = d]
    BY <1>5, Zenon DEF Discover
  <2>2. reader.at # "idle"
    BY <1>5 DEF Discover
  <2>a. ASSUME NEW e, reader' = [reader EXCEPT !.at = "put", !.data = e] PROVE reader'.obj = reader.obj
    BY <1>0, <2>a, ReaderKept, Zenon
  <2>b. ASSUME reader' = [reader EXCEPT !.at = "store"] PROVE reader'.obj = reader.obj
    BY <1>0, <2>b, ReaderKept, Zenon
  <2>c. ASSUME reader' = Reading PROVE reader'.at = "idle"
    BY <1>0, <2>c, ReaderKept, Zenon
  <2>3. reader'.at = "idle" \/ reader'.obj = reader.obj
    BY <2>1, <2>a, <2>b, <2>c, Zenon
  <2> QED  BY <2>2, <2>3, Zenon
<1>6. ASSUME DiscoverPut PROVE Goal
  BY <1>0, <1>6 DEF DiscoverPut, Reading, Readers
<1>7. ASSUME Store PROVE Goal
  BY <1>0, <1>7 DEF Store, Reading, Readers
<1>8. ASSUME reader' = reader PROVE Goal
  BY <1>8
<1> HIDE DEF Goal
<1>9. Goal
  BY <1>3, <1>4, <1>5, <1>6, <1>7, <1>8, KernelFrame, StepKinds, Zenon
         DEF StartStep, ReaderStep, ChangeStep, ObserverStep, StartManager, Attach,
           handleExecStartEvent, handleExitEvent,
           SetTlsOkPut, SetTlsOk, SetConfig, UpdateFilterPut, UpdateFilter, AwaitSelect, AwaitTimeout,
           Await, NotifyWaiters, InitObserver, TellObserver, userVars
<1> QED  BY <1>1, <1>2, <1>9, Zenon DEF Goal

LEMMA ObjInvStep ==
    ASSUME KernelType, ManagerType, ObjectType, MetaType, ObserverType, ObjInv, ProcNext
    PROVE  ObjInv'
<1>0. /\ 1 .. made \subseteq Objs /\ made \in Nat /\ obj \in [Objs -> ProcessObjects] /\ NoObj \notin Objs
      /\ (made < MaxObjs => made + 1 \in Objs) /\ told \in [Objs -> {"nothing", "started", "stopped", "late"}]
  BY MadeIn DEF ObjectType, ObserverType
<1>a. \A o \in 1 .. made : o \in 1 .. made' /\ obj'[o].pid = obj[o].pid
  BY MadeStep, StaysMade, Zenon
<1>b. ASSUME NEW p \in Pids, NEW r, OneMade(p, r)
      PROVE  made' = made + 1 /\ made' \in 1 .. made' /\ 1 .. made' = 1 .. made \cup {made'} /\ obj'[made'].pid = p
  BY <1>0, <1>b DEF OneMade
<1>1. \A o \in 1 .. made' : obj'[o].pid \in Pids
  <2>1. ASSUME NoneMade PROVE \A o \in 1 .. made' : obj'[o].pid \in Pids
    BY <1>a, <2>1, Zenon DEF NoneMade, ObjInv
  <2>2. ASSUME NEW p \in Pids, NEW r, OneMade(p, r) PROVE \A o \in 1 .. made' : obj'[o].pid \in Pids
    <3>1. 1 .. made' = 1 .. made \cup {made'} /\ obj'[made'].pid = p
      BY <1>b, <2>2, Zenon
    <3> QED  BY <1>a, <3>1, Zenon DEF ObjInv
  <2> QED  BY <2>1, <2>2, MadeStep, Zenon
<1>2. \A o \in Objs : o > made' => obj'[o] = Unmade /\ told'[o] = "nothing"
  <2>1. \A o \in Objs : o > made => told'[o] = "nothing"
    <3>1. ASSUME NEW t \in tasks, TellObserver(t) PROVE \A o \in Objs : o > made => told'[o] = told[o]
      BY <1>0, <3>1 DEF TellObserver, ObjInv
    <3>2. (\E t \in tasks : TellObserver(t)) \/ told' = told
      BY KernelFrame, StepKinds, Zenon
         DEF StartStep, ReaderStep, ChangeStep, ObserverStep, StartManager, Attach, Preload,
           handleExecStartEvent, handleExecEndEvent, handleExitEvent, Discover, DiscoverPut, Store,
           SetTlsOkPut, SetTlsOk, SetConfig, UpdateFilterPut, UpdateFilter, AwaitSelect, AwaitTimeout,
           Await, NotifyWaiters, InitObserver, userVars
    <3> QED  BY <3>1, <3>2, Zenon DEF ObjInv
  <2>2. \A o \in Objs : o > made' => o > made /\ obj'[o] = obj[o]
    <3>1. ASSUME NoneMade, \A o \in Objs : o > made => obj'[o] = obj[o]
          PROVE  \A o \in Objs : o > made' => o > made /\ obj'[o] = obj[o]
      BY <3>1, Zenon DEF NoneMade
    <3>2. ASSUME NEW p \in Pids, NEW r, OneMade(p, r)
          PROVE  \A o \in Objs : o > made' => o > made /\ obj'[o] = obj[o]
      BY <1>0, <3>2 DEF OneMade, Objs
    <3> QED  BY <3>1, <3>2, ObjFrame, Zenon
  <2> QED  BY <2>1, <2>2, Zenon DEF ObjInv
<1>3. reader'.at # "idle" => reader'.obj \in 1 .. made'
  <2>1. made' = made + 1 => made' \in 1 .. made'
    BY <1>0
  <2>2. reader.at # "idle" => reader.obj \in 1 .. made
    BY DEF ObjInv
  <2> QED  BY <1>a, <2>1, <2>2, RefStep, Zenon
<1>4. \A p \in Pids : cache'[p] # NoObj => cache'[p] \in 1 .. made' /\ obj'[cache'[p]].pid = p
  <2>1. ASSUME NEW p \in Pids, handleExecStartEvent, p = Head(proc_events).pid
        PROVE  made' \in 1 .. made' /\ obj'[made'].pid = p
    BY <1>0, <2>1 DEF handleExecStartEvent, Unmade
  <2>2. \A p \in Pids : cache[p] # NoObj => cache[p] \in 1 .. made /\ obj[cache[p]].pid = p
    BY DEF ObjInv
  <2>3. \A p \in Pids : \/ cache'[p] = cache[p] \/ cache'[p] = NoObj
                        \/ handleExecStartEvent /\ p = Head(proc_events).pid /\ cache'[p] = made'
    BY RefStep, Zenon
  <2> QED  BY <1>a, <2>1, <2>2, <2>3, Zenon
<1>5. \A p \in Pids : procs'[p] # NoObj => procs'[p] \in 1 .. made' /\ obj'[procs'[p]].pid = p
  <2>1. \A p \in Pids : procs[p] # NoObj => procs[p] \in 1 .. made /\ obj[procs[p]].pid = p
    BY DEF ObjInv
  <2>2. Store => reader.obj \in 1 .. made
    BY DEF ObjInv, Store
  <2>3. \A p \in Pids : \/ procs'[p] = procs[p] \/ procs'[p] = NoObj
                        \/ Store /\ procs'[p] = reader.obj /\ obj[reader.obj].pid = p
    BY RefStep, Zenon
  <2> QED  BY <1>a, <2>1, <2>2, <2>3, Zenon
<1>6. \A t \in tasks' : t.obj \in 1 .. made'
  <2>0. \A t \in tasks : t.obj \in 1 .. made
    BY DEF ObjInv
  <2>1. ASSUME Store PROVE \A t \in tasks' : t.obj \in 1 .. made
    BY <2>0, <2>1 DEF Store, ObjInv, NotifyTask
  <2>2. ASSUME handleExitEvent PROVE \A t \in tasks' : t.obj \in 1 .. made
    <3> DEFINE p == Head(proc_events).pid
    <3>1. p \in Pids
      BY <2>2, RingTail DEF handleExitEvent, ProcRecords
    <3>2. procs[p] # NoObj => procs[p] \in 1 .. made
      BY <3>1 DEF ObjInv
    <3> QED  BY <2>0, <2>2, <3>2 DEF handleExitEvent, StopTask
  <2>3. ASSUME NEW t \in tasks, InitObserver(t) PROVE \A u \in tasks' : u.obj \in 1 .. made
    <3>1. t \in Tasks /\ t.obj \in 1 .. made
      BY <2>0 DEF ObserverType
    <3> QED  BY <2>0, <2>3, <3>1 DEF InitObserver, Tasks
  <2>4. ASSUME NEW t \in tasks, NotifyWaiters(t) \/ TellObserver(t) PROVE tasks' \subseteq tasks
    BY <2>4, Zenon DEF NotifyWaiters, TellObserver
  <2>5. \/ Store \/ handleExitEvent \/ \E t \in tasks : InitObserver(t) \/ NotifyWaiters(t) \/ TellObserver(t)
        \/ tasks' = tasks
    BY KernelFrame, StepKinds, Zenon
         DEF StartStep, ReaderStep, ChangeStep, ObserverStep, StartManager, Attach, Preload,
           handleExecStartEvent, handleExecEndEvent, Discover, DiscoverPut,
           SetTlsOkPut, SetTlsOk, SetConfig, UpdateFilterPut, UpdateFilter, AwaitSelect, AwaitTimeout,
           Await, userVars
  <2>6. \A t \in tasks' : t.obj \in 1 .. made
    BY <2>0, <2>1, <2>2, <2>3, <2>4, <2>5, Zenon
  <2> QED  BY <1>a, <2>6, Zenon
<1>7. setter'.obj # NoObj => setter'.obj \in 1 .. made'
  <2>1. ASSUME NEW o \in Objs, NEW v \in BOOLEAN, SetTlsOk(o, v) PROVE setter'.obj # NoObj => setter'.obj \in 1 .. made
    BY <1>0, <2>1 DEF SetTlsOk, NotSetting, Objs
  <2>2. ASSUME SetTlsOkPut PROVE setter'.obj = NoObj
    BY <2>2 DEF SetTlsOkPut, NotSetting
  <2>3. (\E o \in Objs, v \in BOOLEAN : SetTlsOk(o, v)) \/ SetTlsOkPut \/ setter' = setter
    BY KernelFrame, StepKinds, Zenon
         DEF StartStep, ReaderStep, ChangeStep, ObserverStep, StartManager, Attach, Preload,
           handleExecStartEvent, handleExecEndEvent, handleExitEvent, Discover, DiscoverPut, Store,
           SetConfig, UpdateFilterPut, UpdateFilter, AwaitSelect, AwaitTimeout,
           Await, NotifyWaiters, InitObserver, TellObserver, userVars
  <2> QED  BY <1>a, <2>1, <2>2, <2>3, ZenonT(30) DEF ObjInv
<1>8. /\ config'.obj # NoObj => config'.obj \in 1 .. made'
      /\ \A p \in config'.todo : procs'[p] # NoObj
  <2>a. config.todo \subseteq Pids /\ (Unlocked => config.todo = {}) /\ procs \in [Pids -> MaybeObj]
    BY DEF MetaType, Unlocked, NoConfig, ManagerType
  <2>1. ASSUME NEW s \in SUBSET Images, SetConfig(s)
        PROVE  config'.obj = NoObj /\ \A p \in config'.todo : procs'[p] # NoObj
    BY <2>1 DEF SetConfig, NoConfig
  <2>2. ASSUME UpdateFilterPut PROVE config'.obj = NoObj /\ \A p \in config'.todo : procs'[p] # NoObj
    BY <2>2 DEF UpdateFilterPut, NoConfig, ObjInv
  <2>3. ASSUME NEW p \in Pids, UpdateFilter(p)
        PROVE  /\ config'.obj # NoObj => config'.obj \in 1 .. made
               /\ \A q \in config'.todo : procs'[q] # NoObj
    <3> DEFINE o == procs[p]
               d == MetaOf([obj[o] EXCEPT !.filter = TRUE])
               rest == [NoConfig EXCEPT !.todo = config.todo \ {p}]
    <3>1. o \in 1 .. made /\ \A q \in config.todo : procs[q] # NoObj
      BY <2>3 DEF UpdateFilter, ObjInv
    <3>2. rest = [todo |-> config.todo \ {p}, obj |-> NoObj, data |-> NoObj]
      BY DEF NoConfig
    <3>3. (config' = rest \/ config' = [rest EXCEPT !.obj = o, !.data = d]) /\ procs' = procs
      BY <2>3, Zenon DEF UpdateFilter
    <3> HIDE DEF o, d, rest
    <3>4. \/ config' = [todo |-> config.todo \ {p}, obj |-> NoObj, data |-> NoObj]
          \/ config' = [todo |-> config.todo \ {p}, obj |-> o, data |-> d]
      BY <3>2, <3>3, Zenon
    <3> QED  BY <3>1, <3>3, <3>4
  <2>4. ASSUME config' = config PROVE \A p \in config'.todo : procs'[p] # NoObj
    <3>1. \A p \in Pids : procs'[p] = procs[p] \/ Unlocked \/ (Store /\ procs'[p] = reader.obj)
      BY RefStep, Zenon
    <3>2. Store => reader.obj # NoObj
      BY <1>0 DEF Store, ObjInv
    <3> QED  BY <2>a, <2>4, <3>1, <3>2 DEF ObjInv
  <2>5. \/ \E s \in SUBSET Images : SetConfig(s)
        \/ UpdateFilterPut \/ \E p \in Pids : UpdateFilter(p)
        \/ config' = config
    BY KernelFrame, StepKinds, Zenon
         DEF StartStep, ReaderStep, ChangeStep, ObserverStep, StartManager, Attach, Preload,
           handleExecStartEvent, handleExecEndEvent, handleExitEvent, Discover, DiscoverPut, Store,
           SetTlsOkPut, SetTlsOk, AwaitSelect, AwaitTimeout,
           Await, NotifyWaiters, InitObserver, TellObserver, userVars
  <2> QED  BY <1>a, <2>1, <2>2, <2>3, <2>4, <2>5, Zenon DEF ObjInv
<1> QED  BY <1>1, <1>2, <1>3, <1>4, <1>5, <1>6, <1>7, <1>8, Zenon DEF ObjInv

-----------------------------------------------------------------------------
\* Who is told what

\* An object has exited exactly when its stop was told or a goroutine is about
\* to tell it.
StopInv ==
    /\ \A t \in tasks : t.kind = "stop" => obj[t.obj].exited
    /\ \A o \in Objs : told[o] \in {"stopped", "late"} => obj[o].exited
    /\ \A o \in Objs : obj[o].exited =>
         told[o] \in {"stopped", "late"} \/ \E t \in tasks : t.kind = "stop" /\ t.obj = o

\* A goroutine of Await that is in no list is about to be notified.
WaitInv ==
    \A w \in Waiters :
      await[w].at \in {"registered", "select"} /\ w \notin waiters =>
        \E t \in tasks : t.kind = "notify" /\ w \in t.for

\* exit_code_map has what the process that is there gave to exit_group.
CodeInv ==
    /\ ~Attached => whole = {} /\ \A p \in Pids : exit_codes[p] = NoObj
    /\ ~lost => \A p \in Pids : /\ exit_codes[p] \in {NoObj, leaving[p]}
                                /\ p \in whole => exit_codes[p] = leaving[p]
    /\ ~lost => \A i \in DOMAIN proc_events :
         proc_events[i].kind = "exit" /\ proc_events[i].whole => proc_events[i].code = proc_events[i].own

LEMMA CodeStep ==
    ASSUME KernelType, CodeInv, ProcNext
    PROVE  CodeInv'
<1> DEFINE Good(e) == e.kind = "exit" /\ e.whole => e.code = e.own
<1>0. /\ exit_codes \in [Pids -> Codes \cup {NoObj}] /\ leaving \in [Pids -> Codes \cup {NoObj}]
      /\ proc_events \in Seq(ProcRecords) /\ whole \subseteq Pids /\ live \in [Pids -> Nat]
  BY DEF KernelType
<1>a. ASSUME ~lost => \A i \in DOMAIN proc_events : Good(proc_events[i]),
             NEW e \in ProcRecords, Good(e), proc_events' = Append(proc_events, e), lost' = lost
      PROVE  ~lost' => \A i \in DOMAIN proc_events' : Good(proc_events'[i])
  <2>1. /\ DOMAIN proc_events' = DOMAIN proc_events \cup {Len(proc_events) + 1}
        /\ \A i \in DOMAIN proc_events : proc_events'[i] = proc_events[i]
        /\ proc_events'[Len(proc_events) + 1] = e
    BY <1>a, RingAppend
  <2> HIDE DEF Good
  <2> QED  BY <1>a, <2>1, Zenon
<1>b. ASSUME ~lost => \A i \in DOMAIN proc_events : Good(proc_events[i]),
             NEW k, Reads(k), lost' = lost
      PROVE  ~lost' => \A i \in DOMAIN proc_events' : Good(proc_events'[i])
  <2>1. \A i \in DOMAIN proc_events' : i + 1 \in DOMAIN proc_events /\ proc_events'[i] = proc_events[i + 1]
    BY <1>0, <1>b, TailIs DEF Reads
  <2> HIDE DEF Good
  <2> QED  BY <1>b, <2>1, Zenon
<1>1. ASSUME NEW p \in Pids, Fork(p) PROVE CodeInv'
  BY <1>0, <1>1 DEF Fork, CodeInv, probeVars, userVars, Attached
<1>2. ASSUME NEW p \in Pids, NewThread(p) PROVE CodeInv'
  BY <1>2, Zenon DEF NewThread, CodeInv, probeVars, userVars, Attached
<1>3. ASSUME NEW p \in Pids, RetExec(p) PROVE CodeInv'
  <2>1. UNCHANGED <<leaving, whole, exit_codes, mgr>>
    BY <1>3, Zenon DEF RetExec, userVars
  <2>2. ~lost' => ~lost
    BY <1>3 DEF RetExec, Drop
  <2>3. Event("end", p) \in ProcRecords /\ Good(Event("end", p))
    BY EventType DEF Event
  <2>4. ~lost' => \A i \in DOMAIN proc_events' : Good(proc_events'[i])
    <3>1. \/ lost' = TRUE
          \/ proc_events' = proc_events /\ lost' = lost
          \/ proc_events' = Append(proc_events, Event("end", p)) /\ lost' = lost
      BY <1>3 DEF RetExec, Drop
    <3> QED  BY <1>a, <2>3, <3>1, Zenon DEF CodeInv
  <2> QED  BY <2>1, <2>2, <2>4, Zenon DEF CodeInv, Attached
<1>4. ASSUME NEW p \in Pids, NEW m \in Images, EnterExec(p, m) PROVE CodeInv'
  <2>1. /\ UNCHANGED <<leaving, exit_codes, mgr>> /\ leaving[p] = NoObj
        /\ whole' = IF Attached THEN whole \cup {p} ELSE whole
    BY <1>4, Zenon DEF EnterExec, userVars
  <2>2. ~lost' => ~lost
    BY <1>4 DEF EnterExec
  <2>3. Event("start", p) \in ProcRecords /\ Good(Event("start", p))
    BY EventType DEF Event
  <2>4. ~lost' => \A i \in DOMAIN proc_events' : Good(proc_events'[i])
    <3>1. \/ lost' = TRUE
          \/ proc_events' = proc_events /\ lost' = lost
          \/ proc_events' = Append(proc_events, Event("start", p)) /\ lost' = lost
      BY <1>4, Zenon DEF EnterExec
    <3> QED  BY <1>a, <2>3, <3>1, Zenon DEF CodeInv
  <2>5. ~lost' => \A q \in Pids : /\ exit_codes'[q] \in {NoObj, leaving'[q]}
                                  /\ q \in whole' => exit_codes'[q] = leaving'[q]
    BY <2>1, <2>2 DEF CodeInv
  <2> QED  BY <2>1, <2>4, <2>5, Zenon DEF CodeInv, Attached
<1>5. ASSUME NEW p \in Pids, NEW c \in Codes, ExitGroup(p, c) PROVE CodeInv'
  <2>1. UNCHANGED <<lost, whole, proc_events, mgr>>
    BY <1>5, Zenon DEF ExitGroup, userVars
  <2>2. ~lost => \A q \in Pids : /\ exit_codes'[q] \in {NoObj, leaving'[q]}
                                 /\ q \in whole => exit_codes'[q] = leaving'[q]
    BY <1>0, <1>5 DEF ExitGroup, CodeInv
  <2>3. ~Attached => exit_codes' = exit_codes
    BY <1>5, Zenon DEF ExitGroup
  <2> QED  BY <2>1, <2>2, <2>3, Zenon DEF CodeInv, Attached
<1>6. ASSUME NEW p \in Pids, ProcessExit(p) PROVE CodeInv'
  <2>1. UNCHANGED <<whole, mgr>>
    BY <1>6, Zenon DEF ProcessExit, userVars
  <2>2. /\ leaving' \in {leaving, [leaving EXCEPT ![p] = NoObj]} /\ (lost => lost')
        /\ live[p] # 1 => leaving' = leaving
    BY <1>6 DEF ProcessExit, Drop
  <2>3. LastThread(p) <=> live[p] = 1
    BY <1>0 DEF LastThread
  <2>4. CASE Attached /\ LastThread(p) /\ lost' = lost
    <3> DEFINE e == ExitRecord(p, CodeOf(exit_codes[p]), CodeOf(leaving[p]), p \in whole)
    <3>1. CASE lost
      BY <2>1, <2>4, <3>1, Zenon DEF CodeInv, Attached
    <3>2. CASE ~lost
      <4>1. proc_events' = Append(proc_events, e) /\ exit_codes' = [exit_codes EXCEPT ![p] = NoObj]
        BY <1>6, <2>4, <3>2, Zenon DEF ProcessExit, Drop, ExitCodesAfter, ExitRecord
      <4>2. e \in ProcRecords /\ e.code = CodeOf(exit_codes[p]) /\ e.own = CodeOf(leaving[p])
            /\ e.whole = (p \in whole)
        <5>1. CodeOf(exit_codes[p]) \in Codes \cup {0} /\ CodeOf(leaving[p]) \in Codes \cup {0}
              /\ (p \in whole) \in BOOLEAN /\ e \in ProcRecords
          BY ExitRecordOf, Zenon
        <5> DEFINE c == CodeOf(exit_codes[p])
                   o == CodeOf(leaving[p])
                   w == p \in whole
        <5>2. c \in Codes \cup {0} /\ o \in Codes \cup {0} /\ w \in BOOLEAN
          BY <5>1, Zenon
        <5> HIDE DEF c, o, w
        <5>3. LET x == ExitRecord(p, c, o, w) IN x.code = c /\ x.own = o /\ x.whole = w
          BY <5>2, ExitRecordType
        <5> QED  BY <5>1, <5>3, Zenon DEF c, o, w
      <4>3. Good(e)
        <5>1. p \in whole => exit_codes[p] = leaving[p]
          BY <3>2 DEF CodeInv
        <5> HIDE DEF e
        <5> QED  BY <4>2, <5>1, Zenon
      <4>4. \A i \in DOMAIN proc_events' : Good(proc_events'[i])
        <5> HIDE DEF e
        <5> QED  BY <1>a, <2>4, <3>2, <4>1, <4>2, <4>3, Zenon DEF CodeInv
      <4>5. \A q \in Pids : /\ exit_codes'[q] \in {NoObj, leaving'[q]}
                            /\ q \in whole => exit_codes'[q] = leaving'[q]
        <5>1. leaving' = [leaving EXCEPT ![p] = NoObj]
          BY <1>6, <2>3, <2>4, Zenon DEF ProcessExit
        <5> QED  BY <1>0, <3>2, <4>1, <5>1 DEF CodeInv
      <4> QED  BY <2>1, <2>4, <4>4, <4>5, Zenon DEF CodeInv, Attached
    <3> QED  BY <3>1, <3>2
  <2>5. CASE lost' /\ ~lost
    <3>1. Attached
      BY <1>6, <2>5, Zenon DEF ProcessExit
    <3> QED  BY <2>1, <2>5, <3>1, Zenon DEF CodeInv, Attached
  <2>6. CASE ~(Attached /\ LastThread(p)) /\ lost' = lost
    <3>1. UNCHANGED <<exit_codes, proc_events>>
      BY <1>6, <2>6, Zenon DEF ProcessExit, probeVars
    <3>2. ~lost => \A q \in Pids : /\ exit_codes[q] \in {NoObj, leaving'[q]}
                                   /\ q \in whole => exit_codes[q] = leaving'[q]
      BY <1>0, <2>2, <2>3, <2>6 DEF CodeInv
    <3> QED  BY <2>1, <2>6, <3>1, <3>2, Zenon DEF CodeInv, Attached
  <2>7. lost' = lost \/ (lost' /\ ~lost)
    BY <1>6, Zenon DEF ProcessExit, Drop
  <2> QED  BY <2>4, <2>5, <2>6, <2>7, Zenon
<1>7. ASSUME NEW k, Reads(k), UNCHANGED <<exit_codes, leaving, lost, whole, mgr>> PROVE CodeInv'
  BY <1>7, <1>b, Zenon DEF CodeInv, Attached
<1>8. ASSUME UNCHANGED <<exit_codes, proc_events, leaving, lost, whole>>, mgr' = mgr \/ ~Attached PROVE CodeInv'
  BY <1>8, SMT DEF CodeInv, Attached
<1>9. ASSUME StartStep \/ ReaderStep \/ ChangeStep \/ ObserverStep PROVE CodeInv'
  <2>1. UNCHANGED <<leaving, lost, whole>>
    BY <1>9, OthersFrame
  <2>a. StartManager \/ Attach => ~Attached
    BY DEF StartManager, Attach, Attached
  <2>2. exit_codes' = exit_codes /\ (mgr' = mgr \/ (~Attached /\ proc_events' = proc_events))
    BY <1>9, <2>a, Zenon DEF StartStep, ReaderStep, ChangeStep, ObserverStep, StartManager, Attach, Preload,
           handleExecStartEvent, handleExecEndEvent, handleExitEvent, Discover, DiscoverPut, Store,
           SetTlsOkPut, SetTlsOk, SetConfig, UpdateFilterPut, UpdateFilter, AwaitSelect, AwaitTimeout,
           Await, NotifyWaiters, InitObserver, TellObserver, probeVars
  <2>3. proc_events' = proc_events \/ Reads("start") \/ Reads("end") \/ Reads("exit")
    BY <1>9, Zenon DEF StartStep, ReaderStep, ChangeStep, ObserverStep, StartManager, Attach, Preload,
           handleExecStartEvent, handleExecEndEvent, handleExitEvent, Discover, DiscoverPut, Store,
           SetTlsOkPut, SetTlsOk, SetConfig, UpdateFilterPut, UpdateFilter, AwaitSelect, AwaitTimeout,
           Await, NotifyWaiters, InitObserver, TellObserver, probeVars
  <2> QED  BY <1>7, <1>8, <2>1, <2>2, <2>3, Zenon
<1> QED  BY <1>1, <1>2, <1>3, <1>4, <1>5, <1>6, <1>9, StepKinds, Zenon DEF KernelStep

\* Only the event of an exit makes an object exited: the one that is stored
\* for its pid, which is stored no longer.
LEMMA ExitOnly ==
    ASSUME KernelType, ManagerType, ObjectType, MetaType, ObserverType, ObjInv, ProcNext,
           NEW o \in Objs, obj'[o].exited, ~obj[o].exited
    PROVE  /\ handleExitEvent /\ reader.at = "idle"
           /\ o = procs[Head(proc_events).pid] /\ o # NoObj
           /\ procs' = [procs EXCEPT ![Head(proc_events).pid] = NoObj]
           /\ [kind |-> "stop", obj |-> o, for |-> {}] \in tasks'
<1>0. /\ 1 .. made \subseteq Objs /\ made \in Nat /\ obj \in [Objs -> ProcessObjects]
      /\ (made < MaxObjs => made + 1 \in Objs)
  BY MadeIn DEF ObjectType
<1>1. ASSUME NEW p \in Pids, Preload(p) PROVE FALSE
  <2>1. obj' = [obj EXCEPT ![made + 1] = [Unmade EXCEPT !.pid = p, !.locked = TRUE]]
    BY <1>1, Zenon DEF Preload
  <2>2. ~[Unmade EXCEPT !.pid = p, !.locked = TRUE].exited
    BY DEF Unmade
  <2> QED  BY <1>0, <2>1, <2>2
<1>2. ASSUME handleExecStartEvent PROVE FALSE
  <2> DEFINE p == Head(proc_events).pid
  <2>1. obj' = [obj EXCEPT ![made + 1] = [Unmade EXCEPT !.pid = p, !.notifier = TRUE]]
    BY <1>2, Zenon DEF handleExecStartEvent
  <2>2. ~[Unmade EXCEPT !.pid = p, !.notifier = TRUE].exited
    BY DEF Unmade
  <2> HIDE DEF p
  <2> QED  BY <1>0, <2>1, <2>2
<1>3. ASSUME handleExecEndEvent PROVE FALSE
  BY <1>0, <1>3 DEF handleExecEndEvent, ProcessObjects
<1>4. ASSUME Discover PROVE FALSE
  <2> DEFINE x == reader.obj
             r == [Discovered(obj[x], obj[x].pid) EXCEPT !.locked = obj[x].notifier]
  <2>1. obj' = [obj EXCEPT ![x].locked = FALSE] \/ obj' = [obj EXCEPT ![x] = r]
    BY <1>4, Zenon DEF Discover
  <2>2. x \in Objs => r.exited = obj[x].exited
    BY <1>0 DEF Discovered, ProcessObjects
  <2> HIDE DEF r, x
  <2> QED  BY <1>0, <2>1, <2>2 DEF ProcessObjects
<1>5. ASSUME DiscoverPut \/ SetTlsOkPut PROVE FALSE
  BY <1>0, <1>5 DEF DiscoverPut, SetTlsOkPut, ProcessObjects
<1>6. ASSUME NEW x \in Objs, NEW v \in BOOLEAN, SetTlsOk(x, v) PROVE FALSE
  <2> DEFINE puts == TellsEventer(x) /\ ~[obj[x] EXCEPT !.tls_ok = v].exited
             r == [[obj[x] EXCEPT !.tls_ok = v] EXCEPT !.locked = puts]
  <2>1. obj' = [obj EXCEPT ![x] = r]
    BY <1>6, Zenon DEF SetTlsOk
  <2>2. r.exited = obj[x].exited
    <3> HIDE DEF puts
    <3> QED  BY <1>0 DEF ProcessObjects
  <2> HIDE DEF r
  <2> QED  BY <1>0, <2>1, <2>2
<1>7. ASSUME NEW p \in Pids, UpdateFilter(p) PROVE FALSE
  <2>1. obj' = obj \/ obj' = [obj EXCEPT ![procs[p]] = [obj[procs[p]] EXCEPT !.filter = TRUE]]
    BY <1>7, Zenon DEF UpdateFilter
  <2> QED  BY <1>0, <2>1 DEF ProcessObjects
<1>8. ASSUME handleExitEvent
      PROVE  /\ o = procs[Head(proc_events).pid] /\ o # NoObj
             /\ procs' = [procs EXCEPT ![Head(proc_events).pid] = NoObj]
             /\ [kind |-> "stop", obj |-> o, for |-> {}] \in tasks'
  <2> DEFINE x == procs[Head(proc_events).pid]
  <2>1. \/ obj' = obj
        \/ /\ obj' = [obj EXCEPT ![x].exited = TRUE] /\ tasks' = tasks \cup StopTask(x)
           /\ x # NoObj /\ procs' = [procs EXCEPT ![Head(proc_events).pid] = NoObj]
    BY <1>8, Zenon DEF handleExitEvent
  <2> HIDE DEF x
  <2>2. o = x
    BY <1>0, <2>1 DEF ProcessObjects
  <2>3. [kind |-> "stop", obj |-> o, for |-> {}] \in tasks'
    BY <2>1, <2>2 DEF StopTask
  <2> QED  BY <2>1, <2>2, <2>3, Zenon DEF x
<1>9. ASSUME obj' = obj PROVE FALSE
  BY <1>9, Zenon
<1>10. handleExitEvent => reader.at = "idle"
  BY Zenon DEF handleExitEvent, Reads
<1> QED  BY <1>1, <1>2, <1>3, <1>4, <1>5, <1>6, <1>7, <1>8, <1>9, <1>10, KernelFrame, StepKinds, Zenon
       DEF StartStep, ReaderStep, ChangeStep, ObserverStep, StartManager, Attach, Store,
         SetConfig, UpdateFilterPut, AwaitSelect, AwaitTimeout,
         Await, NotifyWaiters, InitObserver, TellObserver, userVars

\* A step keeps what has exited, and exits an object only with a goroutine
\* that tells of it.
LEMMA StopStep ==
    ASSUME KernelType, ManagerType, ObjectType, MetaType, ObserverType, ObjInv, StopInv, ProcNext
    PROVE  StopInv'
<1>0. /\ 1 .. made \subseteq Objs /\ made \in Nat /\ obj \in [Objs -> ProcessObjects]
      /\ (made < MaxObjs => made + 1 \in Objs) /\ tasks \subseteq Tasks
      /\ told \in [Objs -> {"nothing", "started", "stopped", "late"}]
  BY MadeIn DEF ObjectType, ObserverType
<1>a. \A o \in Objs : obj[o].exited => obj'[o].exited
  <2>1. ASSUME NoneMade PROVE \A o \in Objs : obj[o].exited => obj'[o].exited
    BY <2>1, Zenon DEF NoneMade, ObjKept
  <2>2. ASSUME NEW p, NEW r, OneMade(p, r) PROVE \A o \in Objs : obj[o].exited => obj'[o].exited
    BY <1>0, <2>2 DEF OneMade, ObjInv, Unmade
  <2> QED  BY <2>1, <2>2, MadeStep, Zenon
<1>b. ASSUME NEW o \in Objs, obj'[o].exited, ~obj[o].exited
      PROVE  [kind |-> "stop", obj |-> o, for |-> {}] \in tasks'
  BY <1>b, ExitOnly, Zenon
<1>c. ASSUME handleExitEvent PROVE told' = told /\ tasks \subseteq tasks'
  BY <1>c DEF handleExitEvent
<1>1. ASSUME NEW t \in tasks', t.kind = "stop" PROVE obj'[t.obj].exited
  <2>1. CASE t \in tasks
    <3>1. obj[t.obj].exited /\ t.obj \in Objs
      BY <1>0, <1>1, <2>1 DEF StopInv, Tasks
    <3> QED  BY <1>a, <3>1
  <2>2. CASE t \notin tasks
    <3>1. ASSUME Store PROVE FALSE
      BY <1>1, <2>2, <3>1 DEF Store, NotifyTask
    <3>2. ASSUME NEW u \in tasks, InitObserver(u) PROVE FALSE
      BY <1>0, <1>1, <2>2, <3>2 DEF InitObserver, Tasks
    <3>3. ASSUME NEW u \in tasks, NotifyWaiters(u) \/ TellObserver(u) PROVE FALSE
      BY <1>1, <2>2, <3>3, Zenon DEF NotifyWaiters, TellObserver
    <3>4. ASSUME handleExitEvent PROVE obj'[t.obj].exited
      <4> DEFINE x == procs[Head(proc_events).pid]
      <4>1. \/ tasks' = tasks
            \/ x # NoObj /\ obj' = [obj EXCEPT ![x].exited = TRUE] /\ tasks' = tasks \cup StopTask(x)
        BY <3>4, Zenon DEF handleExitEvent
      <4>2. x # NoObj => x \in Objs
        BY <1>0, <3>4, RingTail DEF handleExitEvent, ProcRecords, ObjInv
      <4> HIDE DEF x
      <4>3. t.obj = x /\ x \in Objs
        BY <1>1, <2>2, <4>1, <4>2 DEF StopTask
      <4> QED  BY <1>0, <1>1, <2>2, <4>1, <4>3 DEF ProcessObjects
    <3> QED  BY <1>1, <2>2, <3>1, <3>2, <3>3, <3>4, KernelFrame, StepKinds, Zenon
         DEF StartStep, ReaderStep, ChangeStep, ObserverStep, StartManager, Attach, Preload,
           handleExecStartEvent, handleExecEndEvent, Discover, DiscoverPut,
           SetTlsOkPut, SetTlsOk, SetConfig, UpdateFilterPut, UpdateFilter, AwaitSelect, AwaitTimeout,
           Await, userVars
  <2> QED  BY <2>1, <2>2
<1>d. (\E t \in tasks : TellObserver(t)) \/ told' = told
  BY KernelFrame, StepKinds, Zenon
         DEF StartStep, ReaderStep, ChangeStep, ObserverStep, StartManager, Attach, Preload,
           handleExecStartEvent, handleExecEndEvent, handleExitEvent, Discover, DiscoverPut, Store,
           SetTlsOkPut, SetTlsOk, SetConfig, UpdateFilterPut, UpdateFilter, AwaitSelect, AwaitTimeout,
           Await, NotifyWaiters, InitObserver, userVars
<1>2. ASSUME NEW o \in Objs, told'[o] \in {"stopped", "late"} PROVE obj'[o].exited
  <2>1. ASSUME NEW t \in tasks, TellObserver(t) PROVE told[o] \in {"stopped", "late"} \/ (t.kind = "stop" /\ t.obj = o)
    <3>1. t.obj \in Objs /\ t.kind \in {"started", "stop"}
      BY <1>0, <2>1 DEF Tasks, TellObserver
    <3> QED  BY <1>0, <1>2, <2>1, <3>1 DEF TellObserver
  <2>2. obj[o].exited
    BY <1>2, <1>d, <2>1, Zenon DEF StopInv
  <2> QED  BY <1>a, <2>2
<1>3. ASSUME NEW o \in Objs, obj'[o].exited
      PROVE  told'[o] \in {"stopped", "late"} \/ \E t \in tasks' : t.kind = "stop" /\ t.obj = o
  <2>1. CASE ~obj[o].exited
    <3>1. [kind |-> "stop", obj |-> o, for |-> {}] \in tasks'
      BY <1>3, <1>b, <2>1
    <3> QED  BY <3>1
  <2>2. CASE obj[o].exited /\ told[o] \in {"stopped", "late"}
    <3>1. ASSUME NEW t \in tasks, TellObserver(t) PROVE told'[o] \in {"stopped", "late"}
      BY <1>0, <2>2, <3>1 DEF TellObserver
    <3> QED  BY <1>d, <2>2, <3>1, Zenon
  <2>3. CASE obj[o].exited /\ told[o] \notin {"stopped", "late"}
    <3>1. PICK t \in tasks : t.kind = "stop" /\ t.obj = o
      BY <2>3, Zenon DEF StopInv
    <3>2. ASSUME t \notin tasks' PROVE told'[o] = "stopped"
      <4>1. ASSUME NEW u \in tasks, InitObserver(u) \/ NotifyWaiters(u) PROVE FALSE
        BY <3>1, <3>2, <4>1 DEF InitObserver, NotifyWaiters
      <4>2. ASSUME NEW u \in tasks, TellObserver(u) PROVE told'[o] = "stopped"
        <5>1. u = t
          BY <3>1, <3>2, <4>2, Zenon DEF TellObserver
        <5> QED  BY <1>0, <3>1, <4>2, <5>1 DEF TellObserver
      <4>3. tasks \subseteq tasks' \/ \E u \in tasks : InitObserver(u) \/ NotifyWaiters(u) \/ TellObserver(u)
        <5>1. Store => tasks \subseteq tasks'
          BY DEF Store
        <5> QED  BY <1>c, <5>1, KernelFrame, StepKinds, Zenon
           DEF StartStep, ReaderStep, ChangeStep, ObserverStep, StartManager, Attach, Preload,
             handleExecStartEvent, handleExecEndEvent, Discover, DiscoverPut,
             SetTlsOkPut, SetTlsOk, SetConfig, UpdateFilterPut, UpdateFilter, AwaitSelect, AwaitTimeout,
             Await, userVars
      <4> QED  BY <3>1, <3>2, <4>1, <4>2, <4>3, Zenon
    <3> QED  BY <3>1, <3>2, Zenon
  <2> QED  BY <2>1, <2>2, <2>3
<1> QED  BY <1>1, <1>2, <1>3, Zenon DEF StopInv

LEMMA WaitStep ==
    ASSUME KernelType, ManagerType, ObserverType, ObjInv, WaitInv, ProcNext
    PROVE  WaitInv'
<1> DEFINE Due(w) == \E t \in tasks : t.kind = "notify" /\ w \in t.for
<1>0. /\ waiters \subseteq Waiters /\ tasks \subseteq Tasks
      /\ \A w \in Waiters : "at" \in DOMAIN await[w] /\ "pid" \in DOMAIN await[w]
      /\ DOMAIN await = Waiters
  BY DEF ObserverType
<1>1. ASSUME NEW w \in Waiters, NEW p \in Pids, Await(w, p) PROVE WaitInv'
  BY <1>0, <1>1 DEF Await, WaitInv
<1>2. ASSUME NEW w \in Waiters, AwaitSelect(w) PROVE WaitInv'
  <2>1. UNCHANGED <<waiters, tasks>>
    BY <1>2, Zenon DEF AwaitSelect
  <2>2. \A x \in Waiters : await'[x].at \in {"registered", "select"} => await[x].at \in {"registered", "select"}
    BY <1>0, <1>2 DEF AwaitSelect
  <2> QED  BY <2>1, <2>2, Zenon DEF WaitInv
<1>3. ASSUME NEW w \in Waiters, AwaitTimeout(w) PROVE WaitInv'
  <2>1. UNCHANGED <<waiters, tasks>>
    BY <1>3, Zenon DEF AwaitTimeout
  <2>2. \A x \in Waiters : await'[x].at \in {"registered", "select"} => await[x].at \in {"registered", "select"}
    BY <1>0, <1>3 DEF AwaitTimeout
  <2> QED  BY <2>1, <2>2, Zenon DEF WaitInv
<1>4. ASSUME NEW t \in tasks, NotifyWaiters(t) PROVE WaitInv'
  <2>1. waiters' = waiters /\ tasks' = tasks \ {t}
    BY <1>4, Zenon DEF NotifyWaiters
  <2>2. \A x \in Waiters : await'[x].at \in {"registered", "select"} =>
                             x \notin t.for /\ await[x].at \in {"registered", "select"}
    BY <1>0, <1>4 DEF NotifyWaiters, Notified
  <2> QED  BY <2>1, <2>2, Zenon DEF WaitInv
<1>5. ASSUME NEW t \in tasks, InitObserver(t) \/ TellObserver(t) PROVE WaitInv'
  <2>1. UNCHANGED <<waiters, await>>
    BY <1>5, Zenon DEF InitObserver, TellObserver
  <2>2. \A u \in tasks : u.kind = "notify" => u \in tasks'
    BY <1>5 DEF InitObserver, TellObserver
  <2> QED  BY <2>1, <2>2, Zenon DEF WaitInv
<1>6. ASSUME Store PROVE WaitInv'
  <2> DEFINE woken == Woken(obj[reader.obj].pid)
  <2>1. /\ await' = await /\ waiters' = waiters \ woken /\ tasks \subseteq tasks'
        /\ NotifyTask(reader.obj, woken) \subseteq tasks'
    BY <1>6 DEF Store
  <2>2. ASSUME NEW w \in woken PROVE \E t \in tasks' : t.kind = "notify" /\ w \in t.for
    <3>1. [kind |-> "notify", obj |-> reader.obj, for |-> woken] \in tasks'
      BY <2>1, <2>2 DEF NotifyTask
    <3> HIDE DEF woken
    <3> QED  BY <2>2, <3>1
  <2> HIDE DEF woken
  <2> QED  BY <2>1, <2>2, Zenon DEF WaitInv
<1>7. ASSUME handleExitEvent PROVE WaitInv'
  <2>1. UNCHANGED <<waiters, await>> /\ tasks \subseteq tasks'
    BY <1>7 DEF handleExitEvent
  <2> QED  BY <2>1, Zenon DEF WaitInv
<1>8. ASSUME UNCHANGED <<waiters, await, tasks>> PROVE WaitInv'
  BY <1>8, Zenon DEF WaitInv
<1> QED  BY <1>1, <1>2, <1>3, <1>4, <1>5, <1>6, <1>7, <1>8, KernelFrame, StepKinds, Zenon
         DEF StartStep, ReaderStep, ChangeStep, ObserverStep, StartManager, Attach, Preload,
           handleExecStartEvent, handleExecEndEvent, Discover, DiscoverPut,
           SetTlsOkPut, SetTlsOk, SetConfig, UpdateFilterPut, UpdateFilter, userVars

LEMMA ProcInitial == ProcInit => TypeInv /\ ObjInv /\ StopInv /\ WaitInv /\ CodeInv
<1> SUFFICES ASSUME ProcInit PROVE TypeInv /\ ObjInv /\ StopInv /\ WaitInv /\ CodeInv
  OBVIOUS
<1>1. KernelType
  BY DEF ProcInit, KernelType
<1>2. ManagerType
  <2>1. made = 0 /\ reader = Reading
    BY Zenon DEF ProcInit
  <2>2. made \in Nat /\ made <= MaxObjs
    BY <2>1, ProcAssumption
  <2>3. reader \in Readers
    BY <2>1, ReaderSet, Zenon
  <2>4. NoObj \in MaybeObj
    BY DEF MaybeObj
  <2> QED  BY <2>2, <2>3, <2>4 DEF ProcInit, ManagerType
<1>3. Unmade \in ProcessObjects
  BY DEF Unmade, ProcessObjects
<1>4. ObjectType
  BY <1>3 DEF ProcInit, ObjectType
<1>5. MetaType
  BY DEF ProcInit, MetaType, NoConfig, NotSetting, MaybeObj
<1>6. ObserverType
  BY DEF ProcInit, ObserverType
<1>7. ObjInv
  BY DEF ProcInit, ObjInv, NoConfig, NotSetting, Reading
<1>8. StopInv
  BY DEF ProcInit, StopInv, Unmade
<1>9. WaitInv
  BY DEF ProcInit, WaitInv
<1>10. CodeInv
  BY DEF ProcInit, CodeInv
<1> QED  BY <1>1, <1>2, <1>4, <1>5, <1>6, <1>7, <1>8, <1>9, <1>10 DEF TypeInv

LEMMA TypeStutter ==
    ASSUME UNCHANGED procVars
    PROVE  /\ TypeInv => TypeInv'
           /\ ObjInv => ObjInv'
<1>1. KernelType => KernelType'
  BY Zenon DEF procVars, KernelType
<1>2. ManagerType => ManagerType'
  BY Zenon DEF procVars, ManagerType
<1>3. ObjectType => ObjectType'
  BY Zenon DEF procVars, ObjectType
<1>4. MetaType => MetaType'
  BY Zenon DEF procVars, MetaType
<1>5. ObserverType => ObserverType'
  BY Zenon DEF procVars, ObserverType
<1>6. ObjInv => ObjInv'
  BY Zenon DEF procVars, ObjInv
<1> QED  BY <1>1, <1>2, <1>3, <1>4, <1>5, <1>6, Zenon DEF TypeInv

LEMMA ToldStutter ==
    ASSUME UNCHANGED procVars, StopInv, WaitInv, CodeInv
    PROVE  StopInv' /\ WaitInv' /\ CodeInv'
<1>1. StopInv'
  BY Zenon DEF procVars, StopInv
<1>2. WaitInv'
  BY Zenon DEF procVars, WaitInv
<1>3. CodeInv'
  BY Zenon DEF procVars, CodeInv, Attached
<1> QED  BY <1>1, <1>2, <1>3

LEMMA ToldInvariant == ProcSpec => [](TypeInv /\ ObjInv /\ StopInv /\ WaitInv /\ CodeInv)
<1>1. TypeInv /\ ObjInv /\ StopInv /\ WaitInv /\ CodeInv /\ [ProcNext]_procVars
        => (TypeInv /\ ObjInv /\ StopInv /\ WaitInv /\ CodeInv)'
  <2>1. ASSUME TypeInv, ObjInv, StopInv, WaitInv, CodeInv, ProcNext
        PROVE  (TypeInv /\ ObjInv /\ StopInv /\ WaitInv /\ CodeInv)'
    <3>0. KernelType /\ ManagerType /\ ObjectType /\ MetaType /\ ObserverType
      BY <2>1 DEF TypeInv
    <3>1. KernelType' /\ ManagerType' /\ ObjectType' /\ MetaType' /\ ObserverType'
      BY <2>1, <3>0, KernelTypeStep, ManagerTypeStep, ObjectTypeStep, MetaTypeStep, ObserverTypeStep, Zenon
    <3>2. ObjInv' /\ StopInv' /\ WaitInv' /\ CodeInv'
      BY <2>1, <3>0, ObjInvStep, StopStep, WaitStep, CodeStep, Zenon
    <3> QED  BY <3>1, <3>2, Zenon DEF TypeInv
  <2> QED  BY <2>1, TypeStutter, ToldStutter, Zenon
<1> QED  BY <1>1, ProcInitial, PTL DEF ProcSpec

\* Every observer, waiter and reader of an exit is told the truth: removeProc,
\* notifyProcessWaiters and the probes on exit_group and the end of a task.
THEOREM ProcessEveryoneTold == ProcSpec => []EveryoneTold
<1>1. TypeInv /\ ObjInv /\ StopInv /\ WaitInv /\ CodeInv => EveryoneTold
  <2> SUFFICES ASSUME TypeInv, ObjInv, StopInv, WaitInv, CodeInv PROVE EveryoneTold
    OBVIOUS
  <2>0. 1 .. made \subseteq Objs
    BY MadeIn DEF TypeInv
  <2>1. ASSUME NEW o \in 1 .. made
        PROVE  /\ told[o] = "stopped" => obj[o].exited
               /\ tasks = {} /\ obj[o].exited => told[o] \in {"stopped", "late"}
    BY <2>0 DEF StopInv
  <2>2. \A w \in Waiters : await[w].at = "select" /\ w \notin waiters =>
          \E t \in tasks : t.kind = "notify" /\ w \in t.for
    BY DEF WaitInv
  <2> QED  BY <2>1, <2>2 DEF EveryoneTold, CodeInv
<1> QED  BY <1>1, ToldInvariant, PTL

-----------------------------------------------------------------------------
\* What the manager keeps

\* An object is stored for its pid from Store until the event of an exit, and
\* whoever was told of it, or works on it, has it from there.
Stored(o) == obj[o].exited \/ procs[obj[o].pid] = o

KeepInv ==
    /\ \A p \in Pids : procs[p] # NoObj => ~obj[procs[p]].exited
    /\ reader.at # "idle" =>
         ~obj[reader.obj].exited /\ procs[obj[reader.obj].pid] \in {NoObj, reader.obj}
    /\ \A p \in Pids : cache[p] # NoObj =>
         ~obj[cache[p]].exited /\ cache[p] # procs[p] /\ (reader.at # "idle" => cache[p] # reader.obj)
    /\ \A o \in Objs : told[o] # "nothing" => Stored(o)
    /\ \A t \in tasks : Stored(t.obj)
    /\ config.obj # NoObj => procs[obj[config.obj].pid] = config.obj
    /\ setter.obj # NoObj => Stored(setter.obj)

SetterInv == setter.obj = NoObj => setter = NotSetting

\* Manager.Start: each process of the snapshot is added once, and none has a
\* notifier; the ring buffer is read afterwards.
StartInv ==
    /\ \A p \in snap : procs[p] = NoObj /\ (reader.at # "idle" => obj[reader.obj].pid # p)
    /\ mgr = "idle" => reader.at = "idle" /\ \A p \in Pids : procs[p] = NoObj
    /\ ~Attached => /\ \A p \in Pids : cache[p] = NoObj
                    /\ \A o \in 1 .. made : ~obj[o].notifier
    /\ Attached => snap = {}
    /\ reader.at = "put" /\ Attached => obj[reader.obj].notifier

LEMMA ReaderNow ==
    ASSUME KernelType, ManagerType, ObjectType, ObjInv, ProcNext
    PROVE  LET p == Head(proc_events).pid IN
           \/ reader'.at = "idle"
           \/ reader'.obj = reader.obj /\ reader.at # "idle"
           \/ \E q \in Pids : Preload(q) /\ reader'.obj = made + 1
           \/ /\ handleExecEndEvent /\ p \in Pids /\ reader.at = "idle" /\ reader'.at = "discover"
              /\ cache[p] # NoObj /\ cache'[p] = NoObj /\ procs' = procs
              /\ reader'.obj = IF procs[p] = NoObj THEN cache[p] ELSE procs[p]
<1> DEFINE p == Head(proc_events).pid
           o == IF procs[p] = NoObj THEN cache[p] ELSE procs[p]
           Goal == \/ reader'.at = "idle"
                   \/ reader'.obj = reader.obj /\ reader.at # "idle"
                   \/ \E q \in Pids : Preload(q) /\ reader'.obj = made + 1
                   \/ /\ handleExecEndEvent /\ p \in Pids /\ reader.at = "idle" /\ reader'.at = "discover"
                      /\ cache[p] # NoObj /\ cache'[p] = NoObj /\ procs' = procs
                      /\ reader'.obj = o
<1>0. /\ cache \in [Pids -> MaybeObj] /\ procs \in [Pids -> MaybeObj] /\ reader \in Readers
  BY DEF ManagerType
<1>1. ASSUME NEW q \in Pids, Preload(q) PROVE Goal
  BY <1>1, Zenon DEF Preload
<1>2. ASSUME handleExecEndEvent PROVE Goal
  <2>1. p \in Pids /\ reader.at = "idle"
    BY <1>2, RingTail DEF handleExecEndEvent, ProcRecords, Reads
  <2>2. \/ reader' = reader
        \/ /\ cache[p] # NoObj /\ reader' = [at |-> "discover", obj |-> o, exists |-> procs[p] # NoObj, data |-> NoObj]
    BY <1>2, Zenon DEF handleExecEndEvent
  <2>3. cache' = [cache EXCEPT ![p] = NoObj] /\ procs' = procs
    BY <1>2, Zenon DEF handleExecEndEvent
  <2>4. cache'[p] = NoObj
    BY <1>0, <2>1, <2>3
  <2> HIDE DEF o, p
  <2> QED  BY <1>2, <2>1, <2>2, <2>3, <2>4
<1>3. ASSUME Discover \/ DiscoverPut \/ Store PROVE Goal
  <2>1. reader.at # "idle"
    BY <1>3 DEF Discover, DiscoverPut, Store
  <2>2. \/ reader'.at = "idle"
        \/ reader'.obj = reader.obj
    <3>1. ASSUME NEW e, reader' = [reader EXCEPT !.at = "put", !.data = e] PROVE reader'.obj = reader.obj
      BY <1>0, <3>1, ReaderKept, Zenon
    <3>2. ASSUME reader' = [reader EXCEPT !.at = "store"] PROVE reader'.obj = reader.obj
      BY <1>0, <3>2, ReaderKept, Zenon
    <3>3. ASSUME reader' = Reading PROVE reader'.at = "idle"
      BY <1>0, <3>3, ReaderKept, Zenon
    <3> QED  BY <1>3, <3>1, <3>2, <3>3, Zenon DEF Discover, DiscoverPut, Store
  <2> QED  BY <2>1, <2>2, Zenon
<1>4. ASSUME reader' = reader PROVE Goal
  BY <1>4
<1> HIDE DEF Goal
<1>5. Goal
  BY <1>1, <1>2, <1>3, <1>4, KernelFrame, StepKinds, Zenon
         DEF StartStep, ReaderStep, ChangeStep, ObserverStep, StartManager, Attach,
           handleExecStartEvent, handleExitEvent,
           SetTlsOkPut, SetTlsOk, SetConfig, UpdateFilterPut, UpdateFilter, AwaitSelect, AwaitTimeout,
           Await, NotifyWaiters, InitObserver, TellObserver, userVars
<1> QED  BY <1>5, Zenon DEF Goal

LEMMA StoredStays ==
    ASSUME KernelType, ManagerType, ObjectType, MetaType, ObserverType, ObjInv, KeepInv, ProcNext,
           NEW o \in 1 .. made, Stored(o)
    PROVE  Stored(o)'
<1>0. /\ o \in Objs /\ obj[o].pid \in Pids /\ obj'[o].pid = obj[o].pid
  BY MadeIn, MadeStep, StaysMade, Zenon DEF ObjInv
<1>1. CASE obj[o].exited
  <2>1. obj'[o].exited
    <3>1. ASSUME NoneMade PROVE obj'[o].exited
      BY <1>0, <1>1, <3>1, Zenon DEF NoneMade, ObjKept
    <3>2. ASSUME NEW p, NEW r, OneMade(p, r) PROVE obj'[o].exited
      BY <1>0, <1>1, <3>2, MadeIn DEF OneMade, ObjectType
    <3> QED  BY <3>1, <3>2, MadeStep, Zenon
  <2> QED  BY <2>1 DEF Stored
<1>2. CASE ~obj[o].exited /\ procs[obj[o].pid] = o
  <2> DEFINE p == obj[o].pid
  <2>1. procs'[p] = o \/ obj'[o].exited
    <3>1. ASSUME Store, procs'[p] = reader.obj, obj[reader.obj].pid = p PROVE procs'[p] = o
      <4>1. reader.at # "idle" /\ o # NoObj
        BY <1>0, <3>1, MadeIn DEF Store
      <4> QED  BY <1>2, <3>1, <4>1 DEF KeepInv
    <3>2. ASSUME handleExitEvent, procs'[p] = NoObj, procs[p] # NoObj PROVE obj'[o].exited
      <4> DEFINE q == Head(proc_events).pid
      <4>1. \/ procs' = procs
            \/ procs' = [procs EXCEPT ![q] = NoObj] /\ obj' = [obj EXCEPT ![procs[q]].exited = TRUE]
        BY <3>2, Zenon DEF handleExitEvent
      <4> HIDE DEF q
      <4>2. q = p
        BY <1>0, <3>2, <4>1 DEF ManagerType
      <4> QED  BY <1>0, <1>2, <3>2, <4>1, <4>2 DEF ObjectType, ProcessObjects
    <3> QED  BY <1>0, <1>2, <3>1, <3>2, RefStep, Zenon
  <2> QED  BY <1>0, <2>1 DEF Stored
<1> QED  BY <1>1, <1>2 DEF Stored

LEMMA MgrStep ==
    ASSUME ProcNext
    PROVE  \/ mgr' = mgr /\ snap' = snap
           \/ StartManager \/ Attach \/ \E p \in Pids : Preload(p)
BY KernelFrame, StepKinds, Zenon
         DEF StartStep, ReaderStep, ChangeStep, ObserverStep,
           handleExecStartEvent, handleExecEndEvent, handleExitEvent, Discover, DiscoverPut, Store,
           SetTlsOkPut, SetTlsOk, SetConfig, UpdateFilterPut, UpdateFilter, AwaitSelect, AwaitTimeout,
           Await, NotifyWaiters, InitObserver, TellObserver, userVars

LEMMA KeepStep ==
    ASSUME KernelType, ManagerType, ObjectType, MetaType, ObserverType, ObjInv, KeepInv, StartInv, ProcNext
    PROVE  KeepInv'
<1>0. /\ 1 .. made \subseteq Objs /\ made \in Nat /\ NoObj \notin Objs
      /\ obj \in [Objs -> ProcessObjects] /\ tasks \subseteq Tasks
      /\ procs \in [Pids -> MaybeObj] /\ cache \in [Pids -> MaybeObj]
      /\ (made < MaxObjs => made + 1 \in Objs)
      /\ told \in [Objs -> {"nothing", "started", "stopped", "late"}]
  BY MadeIn DEF ObjectType, ManagerType, ObserverType
<1>a. \A o \in 1 .. made : o \in 1 .. made' /\ obj'[o].pid = obj[o].pid
  BY MadeStep, StaysMade, Zenon
<1>b. \A p \in Pids : procs[p] # NoObj => procs[p] \in 1 .. made /\ obj[procs[p]].pid = p
  BY DEF ObjInv
<1>c. \A p \in Pids : cache[p] # NoObj => cache[p] \in 1 .. made /\ obj[cache[p]].pid = p
  BY DEF ObjInv
\* Whatever exits was stored, and is not any more.
<1>e. ASSUME NEW o \in Objs, obj'[o].exited, ~obj[o].exited
      PROVE  /\ handleExitEvent /\ reader.at = "idle" /\ obj[o].pid \in Pids
             /\ procs[obj[o].pid] = o /\ procs'[obj[o].pid] = NoObj
  <2> DEFINE p == Head(proc_events).pid
  <2>1. /\ handleExitEvent /\ reader.at = "idle" /\ o = procs[p] /\ o # NoObj
        /\ procs' = [procs EXCEPT ![p] = NoObj]
    BY <1>e, ExitOnly, Zenon
  <2>2. p \in Pids
    BY <2>1, RingTail DEF handleExitEvent, ProcRecords
  <2> HIDE DEF p
  <2> QED  BY <1>0, <1>b, <2>1, <2>2
<1>n. ~handleExitEvent \/ ~Store
  BY DEF handleExitEvent, Store, Reads
<1>1. ASSUME NEW p \in Pids, procs'[p] # NoObj PROVE ~obj'[procs'[p]].exited
  <2>1. CASE procs'[p] = procs[p]
    <3>1. procs[p] \in Objs /\ obj[procs[p]].pid = p /\ ~obj[procs[p]].exited
      BY <1>0, <1>1, <1>b, <2>1 DEF KeepInv
    <3> QED  BY <1>1, <1>e, <2>1, <3>1, Zenon
  <2>2. CASE Store /\ procs'[p] = reader.obj
    <3>1. reader.obj \in Objs /\ ~obj[reader.obj].exited
      BY <1>0, <2>2 DEF KeepInv, ObjInv, Store
    <3> QED  BY <1>e, <1>n, <2>2, <3>1
  <2> QED  BY <1>1, <2>1, <2>2, RefStep, Zenon
<1>2. ASSUME reader'.at # "idle"
      PROVE  ~obj'[reader'.obj].exited /\ procs'[obj'[reader'.obj].pid] \in {NoObj, reader'.obj}
  <2>1. CASE reader'.obj = reader.obj /\ reader.at # "idle"
    <3> DEFINE o == reader.obj
    <3>1. /\ o \in Objs /\ o \in 1 .. made /\ ~obj[o].exited /\ procs[obj[o].pid] \in {NoObj, o}
          /\ obj[o].pid \in Pids
      BY <1>0, <2>1 DEF KeepInv, ObjInv
    <3>2. ~obj'[o].exited /\ obj'[o].pid = obj[o].pid
      BY <1>a, <1>e, <2>1, <3>1
    <3>3. handleExitEvent => reader.at = "idle"
      BY Zenon DEF handleExitEvent, Reads
    <3>4. procs'[obj[o].pid] \in {procs[obj[o].pid], o}
      BY <2>1, <3>1, <3>3, RefStep, Zenon
    <3> QED  BY <2>1, <3>1, <3>2, <3>4, Zenon
  <2>2. CASE \E q \in Pids : Preload(q) /\ reader'.obj = made + 1
    <3>1. PICK q \in Pids : Preload(q) /\ reader'.obj = made + 1
      BY <2>2
    <3>2. /\ obj' = [obj EXCEPT ![made + 1] = [Unmade EXCEPT !.pid = q, !.locked = TRUE]]
          /\ procs' = procs /\ q \in snap /\ made < MaxObjs
      BY <3>1, Zenon DEF Preload
    <3>3. procs[q] = NoObj
      BY <3>2 DEF StartInv
    <3> QED  BY <1>0, <3>1, <3>2, <3>3 DEF Unmade
  <2>3. CASE /\ handleExecEndEvent /\ Head(proc_events).pid \in Pids
             /\ cache[Head(proc_events).pid] # NoObj /\ procs' = procs
             /\ reader'.obj = IF procs[Head(proc_events).pid] = NoObj
                                THEN cache[Head(proc_events).pid] ELSE procs[Head(proc_events).pid]
    <3> DEFINE p == Head(proc_events).pid
               o == IF procs[p] = NoObj THEN cache[p] ELSE procs[p]
    <3>1. p \in Pids /\ cache[p] # NoObj /\ procs' = procs /\ reader'.obj = o
      BY <2>3, Zenon
    <3> HIDE DEF p
    <3>2. o \in 1 .. made /\ obj[o].pid = p /\ ~obj[o].exited
      BY <1>b, <1>c, <3>1, ZenonT(30) DEF KeepInv
    <3>3. ~handleExitEvent
      BY <2>3 DEF handleExitEvent, handleExecEndEvent, Reads
    <3>4. obj'[o].pid = p /\ ~obj'[o].exited
      BY <1>0, <1>a, <1>e, <3>2, <3>3
    <3> QED  BY <3>1, <3>4
  <2> QED  BY <1>2, <2>1, <2>2, <2>3, ReaderNow, Zenon
<1>3. ASSUME NEW p \in Pids, cache'[p] # NoObj
      PROVE  /\ ~obj'[cache'[p]].exited /\ cache'[p] # procs'[p]
             /\ reader'.at # "idle" => cache'[p] # reader'.obj
  <2>1. CASE cache'[p] = cache[p]
    <3> DEFINE o == cache[p]
    <3>1. /\ o \in 1 .. made /\ o \in Objs /\ obj[o].pid = p /\ ~obj[o].exited /\ o # procs[p] /\ o # NoObj
          /\ reader.at # "idle" => o # reader.obj
      BY <1>0, <1>3, <1>c, <2>1 DEF KeepInv
    <3> HIDE DEF o
    <3>2. ~obj'[o].exited
      BY <1>e, <3>1
    <3>3. o # procs'[p]
      <4>1. Store => reader.at # "idle"
        BY DEF Store
      <4> QED  BY <3>1, <4>1, RefStep, Zenon
    <3>4. reader'.at # "idle" => o # reader'.obj
      <4>1. ASSUME NEW q \in Pids, q # p, NEW x \in {procs[q], cache[q]} PROVE o # x
        BY <1>b, <1>c, <3>1, <4>1
      <4>2. CASE \E q \in Pids : Preload(q) /\ reader'.obj = made + 1
        BY <1>0, <3>1, <4>2
      <4>3. CASE reader'.obj = reader.obj /\ reader.at # "idle"
        BY <3>1, <4>3
      <4>4. CASE /\ handleExecEndEvent /\ Head(proc_events).pid \in Pids
                 /\ cache'[Head(proc_events).pid] = NoObj
                 /\ reader'.obj = IF procs[Head(proc_events).pid] = NoObj
                                THEN cache[Head(proc_events).pid] ELSE procs[Head(proc_events).pid]
        <5>1. Head(proc_events).pid # p
          BY <1>3, <4>4
        <5> QED  BY <4>1, <4>4, <5>1
      <4> QED  BY <4>2, <4>3, <4>4, ReaderNow, Zenon
    <3> QED  BY <2>1, <3>2, <3>3, <3>4, Zenon DEF o
  <2>2. CASE handleExecStartEvent /\ cache'[p] = made'
    <3> DEFINE q == Head(proc_events).pid
    <3>1. /\ made' = made + 1 /\ procs' = procs /\ reader' = reader /\ reader.at = "idle" /\ made < MaxObjs
          /\ obj' = [obj EXCEPT ![made + 1] = [Unmade EXCEPT !.pid = q, !.notifier = TRUE]]
      BY <2>2, Zenon DEF handleExecStartEvent, Reads
    <3> HIDE DEF q
    <3>2. ~obj'[made + 1].exited
      BY <1>0, <3>1 DEF Unmade
    <3>3. procs[p] # made + 1
      <4>1. made + 1 # NoObj /\ made + 1 \notin 1 .. made
        BY <1>0, <3>1
      <4> QED  BY <1>b, <4>1, Zenon
    <3> QED  BY <2>2, <3>1, <3>2, <3>3, Zenon
  <2> QED  BY <1>3, <2>1, <2>2, RefStep
<1> DEFINE StoredNow(o) == obj'[o].exited \/ procs'[obj'[o].pid] = o
<1>s. \A o \in 1 .. made : Stored(o) => StoredNow(o)
  <2>1. ASSUME NEW o \in 1 .. made, Stored(o) PROVE StoredNow(o)
    <3>1. Stored(o)'
      BY <2>1, StoredStays, Zenon
    <3> QED  BY <3>1, Zenon DEF Stored
  <2> QED  BY <2>1, Zenon
<1> HIDE DEF StoredNow
<1>4. ASSUME NEW o \in Objs, told'[o] # "nothing" PROVE StoredNow(o)
  <2>1. ASSUME NEW t \in tasks, TellObserver(t), told'[o] # told[o] PROVE o = t.obj
    BY <1>0, <2>1 DEF TellObserver
  <2>2. (\E t \in tasks : TellObserver(t)) \/ told' = told
    BY KernelFrame, StepKinds, Zenon
         DEF StartStep, ReaderStep, ChangeStep, ObserverStep, StartManager, Attach, Preload,
           handleExecStartEvent, handleExecEndEvent, handleExitEvent, Discover, DiscoverPut, Store,
           SetTlsOkPut, SetTlsOk, SetConfig, UpdateFilterPut, UpdateFilter, AwaitSelect, AwaitTimeout,
           Await, NotifyWaiters, InitObserver, userVars
  <2>3. Stored(o) /\ o \in 1 .. made
    <3>1. CASE told[o] # "nothing"
      BY <1>0, <3>1 DEF ObjInv, KeepInv, Objs
    <3>2. CASE told[o] = "nothing"
      BY <1>4, <2>1, <2>2, <3>2, Zenon DEF KeepInv, ObjInv
    <3> QED  BY <3>1, <3>2, Zenon
  <2> QED  BY <1>s, <2>3, Zenon
<1>5. ASSUME NEW t \in tasks' PROVE StoredNow(t.obj)
  <2>1. CASE t \in tasks
    BY <1>s, <2>1, Zenon DEF KeepInv, ObjInv
  <2>2. CASE t \notin tasks
    <3>1. ASSUME Store PROVE StoredNow(t.obj)
      <4>1. t.obj = reader.obj
        BY <1>5, <2>2, <3>1 DEF Store, NotifyTask
      <4>2. reader.obj \in 1 .. made /\ obj[reader.obj].pid \in Pids
        BY <3>1 DEF Store, ObjInv
      <4>3. procs' = [procs EXCEPT ![obj[reader.obj].pid] = reader.obj] /\ obj' = obj
        BY <3>1, Zenon DEF Store
      <4> QED  BY <1>0, <4>1, <4>2, <4>3 DEF StoredNow
    <3>2. ASSUME NEW u \in tasks, InitObserver(u) PROVE StoredNow(t.obj)
      <4>1. t.obj = u.obj
        BY <1>0, <1>5, <2>2, <3>2 DEF InitObserver, Tasks
      <4> QED  BY <1>s, <4>1, Zenon DEF KeepInv, ObjInv
    <3>3. ASSUME NEW u \in tasks, NotifyWaiters(u) \/ TellObserver(u) PROVE FALSE
      BY <1>5, <2>2, <3>3, Zenon DEF NotifyWaiters, TellObserver
    <3>4. ASSUME handleExitEvent PROVE StoredNow(t.obj)
      <4> DEFINE x == procs[Head(proc_events).pid]
      <4>1. \/ tasks' = tasks
            \/ x # NoObj /\ obj' = [obj EXCEPT ![x].exited = TRUE] /\ tasks' = tasks \cup StopTask(x)
        BY <3>4, Zenon DEF handleExitEvent
      <4>2. x # NoObj => x \in Objs
        BY <1>0, <1>b, <3>4, RingTail DEF handleExitEvent, ProcRecords
      <4> HIDE DEF x
      <4>3. t.obj = x /\ x \in Objs
        BY <1>5, <2>2, <4>1, <4>2 DEF StopTask
      <4>4. obj'[x].exited
        BY <1>0, <1>5, <2>2, <4>1, <4>3 DEF ProcessObjects
      <4> QED  BY <4>3, <4>4 DEF StoredNow
    <3> QED  BY <1>5, <2>2, <3>1, <3>2, <3>3, <3>4, KernelFrame, StepKinds, Zenon
         DEF StartStep, ReaderStep, ChangeStep, ObserverStep, StartManager, Attach, Preload,
           handleExecStartEvent, handleExecEndEvent, Discover, DiscoverPut,
           SetTlsOkPut, SetTlsOk, SetConfig, UpdateFilterPut, UpdateFilter, AwaitSelect, AwaitTimeout,
           Await, userVars
  <2> QED  BY <2>1, <2>2
<1>6. ASSUME config'.obj # NoObj PROVE procs'[obj'[config'.obj].pid] = config'.obj
  <2>1. CASE config' = config
    <3> DEFINE o == config.obj
    <3>1. o \in 1 .. made /\ procs[obj[o].pid] = o /\ ~Unlocked /\ obj[o].pid \in Pids
      BY <1>6, <2>1 DEF ObjInv, KeepInv, Unlocked, NoConfig
    <3>2. Store => Unlocked
      BY Zenon DEF Store
    <3>3. procs'[obj[o].pid] = procs[obj[o].pid]
      BY <3>1, <3>2, RefStep, Zenon
    <3> QED  BY <1>a, <2>1, <3>1, <3>3
  <2>2. ASSUME NEW s \in SUBSET Images, SetConfig(s) PROVE FALSE
    BY <1>6, <2>2 DEF SetConfig, NoConfig
  <2>3. ASSUME UpdateFilterPut PROVE FALSE
    BY <1>6, <2>3 DEF UpdateFilterPut, NoConfig
  <2>4. ASSUME NEW p \in Pids, UpdateFilter(p) PROVE procs'[obj'[config'.obj].pid] = config'.obj
    <3> DEFINE o == procs[p]
               d == MetaOf([obj[o] EXCEPT !.filter = TRUE])
               rest == [NoConfig EXCEPT !.todo = config.todo \ {p}]
    <3>1. o \in 1 .. made /\ obj[o].pid = p
      BY <1>b, <2>4 DEF UpdateFilter, ObjInv
    <3>2. rest = [todo |-> config.todo \ {p}, obj |-> NoObj, data |-> NoObj]
      BY DEF NoConfig
    <3>3. (config' = rest \/ config' = [rest EXCEPT !.obj = o, !.data = d]) /\ procs' = procs
      BY <2>4, Zenon DEF UpdateFilter
    <3> HIDE DEF o, d, rest
    <3>4. \/ config' = [todo |-> config.todo \ {p}, obj |-> NoObj, data |-> NoObj]
          \/ config' = [todo |-> config.todo \ {p}, obj |-> o, data |-> d]
      BY <3>2, <3>3, Zenon
    <3>5. config'.obj = o
      BY <1>6, <3>4
    <3>6. obj'[o].pid = p
      BY <1>a, <3>1
    <3> QED  BY <3>3, <3>5, <3>6 DEF o
  <2>5. \/ \E s \in SUBSET Images : SetConfig(s)
        \/ UpdateFilterPut \/ \E p \in Pids : UpdateFilter(p)
        \/ config' = config
    BY KernelFrame, StepKinds, Zenon
         DEF StartStep, ReaderStep, ChangeStep, ObserverStep, StartManager, Attach, Preload,
           handleExecStartEvent, handleExecEndEvent, handleExitEvent, Discover, DiscoverPut, Store,
           SetTlsOkPut, SetTlsOk, AwaitSelect, AwaitTimeout,
           Await, NotifyWaiters, InitObserver, TellObserver, userVars
  <2> QED  BY <2>1, <2>2, <2>3, <2>4, <2>5, Zenon
<1>7. ASSUME setter'.obj # NoObj PROVE StoredNow(setter'.obj)
  <2>1. ASSUME NEW o \in Objs, NEW v \in BOOLEAN, SetTlsOk(o, v) PROVE StoredNow(setter'.obj)
    <3>1. Stored(o) /\ o \in 1 .. made
      BY <1>0, <2>1 DEF SetTlsOk, KeepInv, Objs
    <3>2. setter'.obj = o
      BY <1>7, <2>1 DEF SetTlsOk, NotSetting
    <3> QED  BY <1>s, <3>1, <3>2, Zenon
  <2>2. ASSUME SetTlsOkPut PROVE FALSE
    BY <1>7, <2>2 DEF SetTlsOkPut, NotSetting
  <2>3. CASE setter' = setter
    BY <1>7, <1>s, <2>3, Zenon DEF KeepInv, ObjInv
  <2>4. (\E o \in Objs, v \in BOOLEAN : SetTlsOk(o, v)) \/ SetTlsOkPut \/ setter' = setter
    BY KernelFrame, StepKinds, Zenon
         DEF StartStep, ReaderStep, ChangeStep, ObserverStep, StartManager, Attach, Preload,
           handleExecStartEvent, handleExecEndEvent, handleExitEvent, Discover, DiscoverPut, Store,
           SetConfig, UpdateFilterPut, UpdateFilter, AwaitSelect, AwaitTimeout,
           Await, NotifyWaiters, InitObserver, TellObserver, userVars
  <2> QED  BY <2>1, <2>2, <2>3, <2>4, Zenon
<1> QED  BY <1>1, <1>2, <1>3, <1>4, <1>5, <1>6, <1>7, Zenon DEF KeepInv, Stored, StoredNow

LEMMA StartInvStep ==
    ASSUME KernelType, ManagerType, ObjectType, MetaType, ObserverType, ObjInv, StartInv, ProcNext
    PROVE  StartInv'
<1>0. /\ 1 .. made \subseteq Objs /\ made \in Nat /\ obj \in [Objs -> ProcessObjects]
      /\ procs \in [Pids -> MaybeObj] /\ cache \in [Pids -> MaybeObj] /\ snap \subseteq Pids
      /\ (made < MaxObjs => made + 1 \in Objs) /\ reader \in Readers
  BY MadeIn DEF ObjectType, ManagerType
<1>a. \A o \in 1 .. made : o \in 1 .. made' /\ obj'[o].pid = obj[o].pid
  BY MadeStep, StaysMade, Zenon
<1>p. ASSUME NEW q \in Pids, Preload(q)
      PROVE  /\ mgr = "preload" /\ mgr' = mgr /\ snap' = snap \ {q} /\ procs' = procs /\ cache' = cache
             /\ reader'.obj = made + 1 /\ made' = made + 1 /\ obj'[made + 1].pid = q
             /\ ~obj'[made + 1].notifier /\ reader'.at = "discover"
             /\ \A o \in 1 .. made : obj'[o] = obj[o]
  <2>1. /\ obj' = [obj EXCEPT ![made + 1] = [Unmade EXCEPT !.pid = q, !.locked = TRUE]]
        /\ made < MaxObjs
    BY <1>p, Zenon DEF Preload
  <2>2. /\ obj'[made + 1].pid = q /\ ~obj'[made + 1].notifier
        /\ \A o \in 1 .. made : obj'[o] = obj[o]
    BY <1>0, <2>1 DEF Unmade
  <2> QED  BY <1>p, <2>2 DEF Preload
<1>m. ASSUME StartManager
      PROVE  /\ mgr = "idle" /\ mgr' = "preload" /\ snap' \subseteq Pids
             /\ UNCHANGED <<reader, procs, cache, obj, made>>
  BY <1>m DEF StartManager
<1>t. ASSUME Attach
      PROVE  /\ mgr = "preload" /\ mgr' = "running" /\ snap = {} /\ snap' = snap
             /\ reader.at = "idle" /\ UNCHANGED <<reader, procs, cache, obj, made>>
  BY <1>t, Zenon DEF Attach
<1>r. handleExecStartEvent \/ handleExecEndEvent \/ handleExitEvent => Attached /\ mgr' = mgr
  BY Zenon DEF handleExecStartEvent, handleExecEndEvent, handleExitEvent, Reads
<1>1. \A p \in snap' : procs'[p] = NoObj /\ (reader'.at # "idle" => obj'[reader'.obj].pid # p)
  <2>1. ASSUME snap' = snap, ~(\E q \in Pids : Preload(q))
        PROVE  \A p \in snap' : procs'[p] = NoObj /\ (reader'.at # "idle" => obj'[reader'.obj].pid # p)
    <3> SUFFICES ASSUME NEW p \in snap PROVE procs'[p] = NoObj /\ (reader'.at # "idle" => obj'[reader'.obj].pid # p)
      BY <2>1
    <3>1. p \in Pids /\ procs[p] = NoObj /\ (reader.at # "idle" => obj[reader.obj].pid # p) /\ ~Attached
      BY <1>0 DEF StartInv
    <3>2. Store => reader.at # "idle"
      BY DEF Store
    <3>3. procs'[p] = NoObj
      BY <3>1, <3>2, RefStep, Zenon
    <3>4. ASSUME reader'.at # "idle" PROVE obj'[reader'.obj].pid # p
      <4>1. reader'.obj = reader.obj /\ reader.at # "idle"
        BY <1>r, <2>1, <3>1, <3>4, ReaderNow, Zenon
      <4>2. reader.obj \in 1 .. made
        BY <4>1 DEF ObjInv
      <4> QED  BY <1>a, <3>1, <4>1, <4>2
    <3> QED  BY <3>3, <3>4
  <2>2. ASSUME NEW q \in Pids, Preload(q)
        PROVE  \A p \in snap' : procs'[p] = NoObj /\ (reader'.at # "idle" => obj'[reader'.obj].pid # p)
    BY <1>p, <2>2 DEF StartInv
  <2>3. ASSUME StartManager
        PROVE  \A p \in snap' : procs'[p] = NoObj /\ (reader'.at # "idle" => obj'[reader'.obj].pid # p)
    BY <1>m, <2>3 DEF StartInv
  <2>4. ASSUME Attach
        PROVE  \A p \in snap' : procs'[p] = NoObj /\ (reader'.at # "idle" => obj'[reader'.obj].pid # p)
    BY <1>t, <2>4
  <2> QED  BY <2>1, <2>2, <2>3, <2>4, MgrStep, Zenon
<1>2. ASSUME mgr' = "idle" PROVE reader'.at = "idle" /\ \A p \in Pids : procs'[p] = NoObj
  <2>1. mgr = "idle" /\ ~(\E q \in Pids : Preload(q)) /\ ~Attached
    BY <1>2, <1>p, <1>m, <1>t, MgrStep DEF Attached
  <2>2. reader.at = "idle" /\ \A p \in Pids : procs[p] = NoObj
    BY <2>1 DEF StartInv
  <2>3. ~Store
    BY <2>2 DEF Store
  <2> QED  BY <1>r, <2>1, <2>2, <2>3, ReaderNow, RefStep, Zenon
<1>3. ASSUME mgr' # "running"
      PROVE  (\A p \in Pids : cache'[p] = NoObj) /\ (\A o \in 1 .. made' : ~obj'[o].notifier)
  <2>1. ~Attached
    BY <1>3, <1>p, <1>m, <1>t, MgrStep DEF Attached
  <2>2. (\A p \in Pids : cache[p] = NoObj) /\ (\A o \in 1 .. made : ~obj[o].notifier)
    BY <2>1 DEF StartInv
  <2>3. \A p \in Pids : cache'[p] = NoObj
    BY <1>r, <2>1, <2>2, RefStep
  <2>4. \A o \in 1 .. made' : ~obj'[o].notifier
    <3>1. ASSUME NoneMade PROVE \A o \in 1 .. made' : ~obj'[o].notifier
      BY <1>0, <2>2, <3>1 DEF NoneMade, ObjKept
    <3>2. ASSUME NEW q \in Pids, Preload(q) PROVE \A o \in 1 .. made' : ~obj'[o].notifier
      <4>1. 1 .. made' = 1 .. made \cup {made + 1}
        BY <1>0, <1>p, <3>2
      <4> QED  BY <1>p, <2>2, <3>2, <4>1
    <3> QED  BY <1>r, <2>1, <3>1, <3>2, ObjFrame, Zenon
  <2> QED  BY <2>3, <2>4
<1>4. ASSUME mgr' = "running" PROVE snap' = {}
  BY <1>4, <1>p, <1>m, <1>t, MgrStep, Zenon DEF StartInv, Attached
<1>5. ASSUME reader'.at = "put", mgr' = "running" PROVE obj'[reader'.obj].notifier
  <2>1. ASSUME Discover PROVE obj'[reader'.obj].notifier
    <3> DEFINE o == reader.obj
               now == Discovered(obj[o], obj[o].pid)
    <3>1. mgr' = mgr
      BY <2>1, Zenon DEF Discover
    <3>2. o \in Objs /\ o \in 1 .. made
      BY <1>0, <2>1 DEF Discover, ObjInv
    <3>3. reader'.at = "put" /\ mgr # "preload" => obj[o].notifier
      BY <1>0, <2>1 DEF Discover, Readers, Reading
    <3>4. obj[o].notifier
      BY <1>5, <3>1, <3>3
    <3>5. NoneMade
      <4>1. NoneMade \/ handleExecStartEvent \/ \E q \in Pids : Preload(q)
        BY ObjFrame, Zenon
      <4>2. handleExecStartEvent => reader.at = "idle"
        BY Zenon DEF handleExecStartEvent, Reads
      <4>3. (\E q \in Pids : Preload(q)) => reader.at = "idle"
        BY Zenon DEF Preload
      <4>4. reader.at # "idle"
        BY <2>1 DEF Discover
      <4> QED  BY <4>1, <4>2, <4>3, <4>4
    <3>6. reader'.obj = o
      BY <1>5, <2>1, ReaderNow DEF Discover, Preload, handleExecEndEvent, Reads
    <3> QED  BY <3>2, <3>4, <3>5, <3>6 DEF NoneMade, ObjKept
  <2>2. ASSUME Store PROVE FALSE
    <3>1. mgr' = mgr
      BY <2>2, Zenon DEF Store
    <3> QED  BY <1>5, <2>2, <3>1 DEF Store, Reading
  <2>3. ASSUME DiscoverPut PROVE FALSE
    BY <1>0, <1>5, <2>3 DEF DiscoverPut, Reading, Readers
  <2>4. CASE reader' = reader
    <3>1. Attached
      <4>1. ~Attach
        BY <1>5, <1>t, <2>4
      <4> QED  BY <1>5, <1>p, <1>m, <4>1, MgrStep DEF Attached
    <3>2. obj[reader.obj].notifier /\ reader.obj \in 1 .. made /\ reader.at = "put"
      BY <1>5, <2>4, <3>1 DEF StartInv, ObjInv
    <3>3. NoneMade \/ handleExecStartEvent \/ \E q \in Pids : Preload(q)
      BY ObjFrame, Zenon
    <3>4. NoneMade
      <4>1. handleExecStartEvent => reader.at = "idle"
        BY Zenon DEF handleExecStartEvent, Reads
      <4>2. (\E q \in Pids : Preload(q)) => reader.at = "idle"
        BY Zenon DEF Preload
      <4> QED  BY <3>2, <3>3, <4>1, <4>2
    <3> QED  BY <1>0, <2>4, <3>2, <3>4 DEF NoneMade, ObjKept
  <2>5. ASSUME handleExecEndEvent PROVE FALSE
    <3>1. reader' = reader \/ reader'.at = "discover"
      BY <2>5 DEF handleExecEndEvent
    <3>2. reader.at = "idle"
      BY <2>5, Zenon DEF handleExecEndEvent, Reads
    <3> QED  BY <1>5, <3>1, <3>2, Zenon
  <2>6. \/ Discover \/ DiscoverPut \/ Store \/ handleExecEndEvent \/ (\E q \in Pids : Preload(q)) \/ reader' = reader
    BY KernelFrame, StepKinds, Zenon
         DEF StartStep, ReaderStep, ChangeStep, ObserverStep, StartManager, Attach,
           handleExecStartEvent, handleExitEvent,
           SetTlsOkPut, SetTlsOk, SetConfig, UpdateFilterPut, UpdateFilter, AwaitSelect, AwaitTimeout,
           Await, NotifyWaiters, InitObserver, TellObserver, userVars
  <2> QED  BY <1>5, <1>p, <2>1, <2>2, <2>3, <2>4, <2>5, <2>6, Zenon
<1> QED  BY <1>1, <1>2, <1>3, <1>4, <1>5, Zenon DEF StartInv, Attached

-----------------------------------------------------------------------------
\* What process_meta_map has

\* A Put for the object is under way.
Pending(o) == (reader.at = "put" /\ reader.obj = o) \/ setter.obj = o \/ config.obj = o

\* The kernel knows what the object has, or a Put for it is under way.
KernelKnows(o, p) == meta[p] = MetaOf(obj[o]) \/ Pending(o)

\* All objects of a pid have a notifier.
AllNotify(p) == \A o \in 1 .. made : obj[o].pid = p => obj[o].notifier

\* As long as no SetMeta was overtaken: what is stored is known to the kernel,
\* or about to be, and what is not stored is not known.
MetaInv ==
    ~overtaken =>
      /\ \A p \in Pids : procs[p] # NoObj /\ obj[procs[p]].notifier => KernelKnows(procs[p], p)
      /\ reader.at = "store" /\ obj[reader.obj].notifier => KernelKnows(reader.obj, obj[reader.obj].pid)
      /\ \A p \in Pids : procs[p] = NoObj /\ AllNotify(p) =>
           meta[p] = NoObj \/ (reader.at = "store" /\ obj[reader.obj].pid = p)

\* The steps that change what MetaInv reads.
LEMMA MetaFrame ==
    ASSUME ProcNext
    PROVE  \/ UNCHANGED <<overtaken, meta, obj, made, procs, reader, setter, config>>
           \/ StartStep \/ ReaderStep \/ ChangeStep
BY KernelFrame, StepKinds, Zenon
   DEF ObserverStep, AwaitSelect, AwaitTimeout, Await, NotifyWaiters, InitObserver, TellObserver, userVars

\* A Put that is not overtaken writes what the object has, for an object that has
\* not exited.
LEMMA PutIs ==
    ASSUME MetaType, ObjectType, NEW o \in Objs, obj[o].pid \in Pids, NEW d, PutMeta(o, d), ~overtaken'
    PROVE  /\ ~overtaken /\ ~obj[o].exited /\ d = MetaOf(obj[o])
           /\ \A p \in Pids : meta'[p] = IF p = obj[o].pid THEN MetaOf(obj[o]) ELSE meta[p]
BY Zenon DEF PutMeta, MetaType

\* Only locks change.
Alike == /\ made' = made
         /\ \A o \in Objs : /\ MetaOf(obj'[o]) = MetaOf(obj[o]) /\ obj'[o].pid = obj[o].pid
                            /\ obj'[o].notifier = obj[o].notifier /\ obj'[o].exited = obj[o].exited

LEMMA LockAlike ==
    ASSUME ObjectType, made' = made, NEW o, NEW b,
           obj' = obj \/ obj' = [obj EXCEPT ![o].locked = b]
    PROVE  Alike
<1>1. CASE obj' = obj
  BY <1>1, Zenon DEF Alike
<1>2. CASE obj' = [obj EXCEPT ![o].locked = b]
  <2>1. ASSUME NEW x \in Objs
        PROVE  /\ MetaOf(obj'[x]) = MetaOf(obj[x]) /\ obj'[x].pid = obj[x].pid
               /\ obj'[x].notifier = obj[x].notifier /\ obj'[x].exited = obj[x].exited
    <3>1. obj[x] \in ProcessObjects /\ obj'[x] \in {obj[x], [obj[x] EXCEPT !.locked = b]}
      BY <1>2 DEF ObjectType
    <3>2. CASE obj'[x] = obj[x]
      BY <3>2, Zenon
    <3>3. CASE obj'[x] = [obj[x] EXCEPT !.locked = b]
      BY <3>1, <3>3 DEF MetaOf, ProcessObjects
    <3> QED  BY <3>1, <3>2, <3>3
  <2> QED  BY <2>1, Zenon DEF Alike
<1> QED  BY <1>1, <1>2

\* The same in the next state.
PendingNow(o) == (reader'.at = "put" /\ reader'.obj = o) \/ setter'.obj = o \/ config'.obj = o
KnowsNow(o, p) == meta'[p] = MetaOf(obj'[o]) \/ PendingNow(o)
MetaNow ==
    /\ \A p \in Pids : procs'[p] # NoObj /\ obj'[procs'[p]].notifier => KnowsNow(procs'[p], p)
    /\ reader'.at = "store" /\ obj'[reader'.obj].notifier => KnowsNow(reader'.obj, obj'[reader'.obj].pid)
    /\ \A p \in Pids : procs'[p] = NoObj /\ (\A o \in 1 .. made' : obj'[o].pid = p => obj'[o].notifier) =>
         meta'[p] = NoObj \/ (reader'.at = "store" /\ obj'[reader'.obj].pid = p)

LEMMA MetaNowIs == ASSUME ~overtaken' => MetaNow PROVE MetaInv'
BY Zenon DEF MetaNow, MetaInv, KnowsNow, PendingNow, KernelKnows, Pending, AllNotify, MetaOf

\* The object is stored, or the reader is busy with it.
InUse(o) == procs[obj[o].pid] = o \/ (reader.at # "idle" /\ reader.obj = o)

\* A step that changes an object in use only with a Put to follow.
Kept ==
    /\ meta' = meta /\ procs' = procs /\ made' = made
    /\ \A o \in Objs : obj'[o].pid = obj[o].pid /\ obj'[o].notifier = obj[o].notifier
    /\ \A o \in Objs : Pending(o) => PendingNow(o)
    /\ \A o \in Objs : obj[o].notifier /\ InUse(o) => MetaOf(obj'[o]) = MetaOf(obj[o]) \/ PendingNow(o)
    /\ reader.at = "store" => reader'.at = "store" /\ reader'.obj = reader.obj
    /\ reader'.at = "store" => reader'.obj \in Objs /\ (reader.at = "store" \/ ~obj[reader'.obj].notifier)

LEMMA MetaKept ==
    ASSUME ManagerType, ObjInv, MetaInv, ~overtaken, Kept
    PROVE  MetaNow
<1>0. 1 .. made \subseteq Objs
  BY MadeIn
<1>1. ASSUME NEW p \in Pids, procs'[p] # NoObj, obj'[procs'[p]].notifier PROVE KnowsNow(procs'[p], p)
  <2> DEFINE o == procs[p]
  <2>1. procs'[p] = o /\ o \in Objs /\ obj[o].pid = p /\ o # NoObj
    BY <1>0, <1>1, Zenon DEF Kept, ObjInv
  <2>2. obj[o].notifier /\ InUse(o)
    BY <1>1, <2>1 DEF Kept, InUse
  <2>3. KernelKnows(o, p)
    BY <2>1, <2>2, Zenon DEF MetaInv
  <2> HIDE DEF o
  <2>4. KnowsNow(o, p)
    BY <2>1, <2>2, <2>3, Zenon DEF Kept, KernelKnows, KnowsNow
  <2> QED  BY <2>1, <2>4, Zenon
<1>2. ASSUME reader'.at = "store", obj'[reader'.obj].notifier PROVE KnowsNow(reader'.obj, obj'[reader'.obj].pid)
  <2> DEFINE o == reader.obj
  <2>1. reader.at = "store" /\ reader'.obj = o /\ o \in Objs /\ obj[o].notifier /\ obj'[o].pid = obj[o].pid
    BY <1>2, Zenon DEF Kept
  <2>2. InUse(o) /\ KernelKnows(o, obj[o].pid)
    BY <2>1 DEF MetaInv, InUse
  <2> HIDE DEF o
  <2>3. KnowsNow(o, obj[o].pid)
    BY <2>1, <2>2, Zenon DEF Kept, KernelKnows, KnowsNow
  <2> QED  BY <2>1, <2>3, Zenon
<1>3. ASSUME NEW p \in Pids, procs'[p] = NoObj, \A o \in 1 .. made' : obj'[o].pid = p => obj'[o].notifier
      PROVE  meta'[p] = NoObj \/ (reader'.at = "store" /\ obj'[reader'.obj].pid = p)
  <2>1. procs[p] = NoObj /\ AllNotify(p)
    BY <1>0, <1>3 DEF Kept, AllNotify
  <2>2. meta[p] = NoObj \/ (reader.at = "store" /\ obj[reader.obj].pid = p)
    BY <2>1, Zenon DEF MetaInv
  <2> QED  BY <2>2, Zenon DEF Kept
<1> QED  BY <1>1, <1>2, <1>3, Zenon DEF MetaNow

\* A Put for a stored object, which is not overtaken.
LEMMA MetaPut ==
    ASSUME ManagerType, ObjInv, KeepInv, MetaInv, ~overtaken, Alike, NEW o \in 1 .. made,
           procs[obj[o].pid] = o, procs' = procs, reader' = reader,
           \A p \in Pids : meta'[p] = IF p = obj[o].pid THEN MetaOf(obj[o]) ELSE meta[p],
           \A x \in Objs : Pending(x) /\ x # o => PendingNow(x)
    PROVE  MetaNow
<1>0. 1 .. made \subseteq Objs /\ NoObj \notin Objs
  BY MadeIn
<1>1. ASSUME NEW p \in Pids, procs'[p] # NoObj, obj'[procs'[p]].notifier PROVE KnowsNow(procs'[p], p)
  <2> DEFINE x == procs[p]
  <2>1. procs'[p] = x /\ x \in Objs /\ obj[x].pid = p /\ x # NoObj
    BY <1>0, <1>1, Zenon DEF ObjInv
  <2>2. obj[x].notifier /\ MetaOf(obj'[x]) = MetaOf(obj[x])
    BY <1>1, <2>1 DEF Alike
  <2>3. KernelKnows(x, p)
    BY <2>1, <2>2, Zenon DEF MetaInv
  <2>4. CASE x = o
    <3>1. meta'[p] = MetaOf(obj'[x])
      BY <2>1, <2>2, <2>4
    <3> QED  BY <2>1, <3>1, Zenon DEF KnowsNow
  <2>5. CASE x # o
    <3>1. p # obj[o].pid
      BY <2>5
    <3>2. meta'[p] = meta[p]
      BY <3>1, Zenon
    <3> QED  BY <2>1, <2>2, <2>3, <2>5, <3>2, Zenon DEF KernelKnows, KnowsNow
  <2> QED  BY <2>4, <2>5, Zenon
<1>2. ASSUME reader'.at = "store", obj'[reader'.obj].notifier PROVE KnowsNow(reader'.obj, obj'[reader'.obj].pid)
  <2> DEFINE x == reader.obj
  <2>1. reader.at = "store" /\ reader'.obj = x /\ x \in Objs /\ obj[x].pid \in Pids
    BY <1>0, <1>2, Zenon DEF ObjInv
  <2>2. obj[x].notifier /\ MetaOf(obj'[x]) = MetaOf(obj[x]) /\ obj'[x].pid = obj[x].pid
    BY <1>2, <2>1, ZenonT(30) DEF Alike
  <2>3. KernelKnows(x, obj[x].pid) /\ procs[obj[x].pid] \in {NoObj, x}
    BY <2>1, <2>2 DEF MetaInv, KeepInv
  <2>4. CASE obj[x].pid = obj[o].pid
    <3>1. procs[obj[x].pid] = o /\ o # NoObj
      BY <1>0, <2>4, Zenon
    <3>2. x = o
      BY <2>3, <3>1, Zenon
    <3>3. meta'[obj[x].pid] = MetaOf(obj[o])
      BY <2>1, <2>4, Zenon
    <3> HIDE DEF x
    <3>4. meta'[obj[x].pid] = MetaOf(obj'[x])
      BY <2>2, <3>2, <3>3, Zenon
    <3> QED  BY <2>1, <2>2, <3>4, Zenon DEF KnowsNow
  <2>5. CASE obj[x].pid # obj[o].pid
    <3>1. meta'[obj[x].pid] = meta[obj[x].pid] /\ x # o
      BY <2>1, <2>5
    <3> QED  BY <2>1, <2>2, <2>3, <3>1, ZenonT(30) DEF KernelKnows, KnowsNow
  <2> QED  BY <2>4, <2>5, Zenon
<1>3. ASSUME NEW p \in Pids, procs'[p] = NoObj, \A x \in 1 .. made' : obj'[x].pid = p => obj'[x].notifier
      PROVE  meta'[p] = NoObj \/ (reader'.at = "store" /\ obj'[reader'.obj].pid = p)
  <2>1. procs[p] = NoObj /\ AllNotify(p)
    BY <1>0, <1>3, Zenon DEF Alike, AllNotify
  <2>2. p # obj[o].pid
    BY <1>0, <2>1
  <2>3. meta[p] = NoObj \/ (reader.at = "store" /\ obj[reader.obj].pid = p)
    BY <2>1, ZenonT(30) DEF MetaInv
  <2>4. reader.at = "store" => obj'[reader.obj].pid = obj[reader.obj].pid
    BY <1>0 DEF Alike, ObjInv
  <2> QED  BY <2>2, <2>3, <2>4, Zenon
<1> QED  BY <1>1, <1>2, <1>3, Zenon DEF MetaNow

LEMMA SetterStep ==
    ASSUME ManagerType, SetterInv, ProcNext
    PROVE  SetterInv'
<1>1. ASSUME NEW o \in Objs, NEW v \in BOOLEAN, SetTlsOk(o, v) PROVE SetterInv'
  <2>1. o # NoObj
    BY MadeIn
  <2> QED  BY <1>1, <2>1 DEF SetTlsOk, SetterInv
<1>2. ASSUME SetTlsOkPut PROVE SetterInv'
  BY <1>2, Zenon DEF SetTlsOkPut, SetterInv
<1>3. CASE setter' = setter
  BY <1>3, Zenon DEF SetterInv
<1>4. (\E o \in Objs, v \in BOOLEAN : SetTlsOk(o, v)) \/ SetTlsOkPut \/ setter' = setter
  BY KernelFrame, StepKinds, Zenon
         DEF StartStep, ReaderStep, ChangeStep, ObserverStep, StartManager, Attach, Preload,
           handleExecStartEvent, handleExecEndEvent, handleExitEvent, Discover, DiscoverPut, Store,
           SetConfig, UpdateFilterPut, UpdateFilter, AwaitSelect, AwaitTimeout,
           Await, NotifyWaiters, InitObserver, TellObserver, userVars
<1> QED  BY <1>1, <1>2, <1>3, <1>4, Zenon

\* Steps that change no Put, and no object but for its lock.
LEMMA MetaAlike ==
    ASSUME ManagerType, ObjInv, MetaInv, ~overtaken, Alike, meta' = meta, procs' = procs,
           reader' = reader \/ (reader.at = "idle" /\ reader'.at = "discover"),
           setter' = setter, config'.obj = config.obj
    PROVE  MetaNow
<1>1. \A o \in Objs : Pending(o) => PendingNow(o)
  BY DEF Pending, PendingNow
<1>2. reader'.at = "store" => reader.at = "store" /\ reader' = reader
  OBVIOUS
<1>3. reader.at = "store" => reader'.at = "store" /\ reader'.obj = reader.obj
  OBVIOUS
<1>4. reader.at = "store" => reader.obj \in Objs
  BY MadeIn DEF ObjInv
<1>5. Kept
  BY <1>1, <1>2, <1>3, <1>4, Zenon DEF Kept, Alike
<1> QED  BY <1>5, MetaKept

\* A new object.
LEMMA MetaMade ==
    ASSUME ManagerType, ObjectType, ObjInv, MetaInv, ~overtaken, NEW q \in Pids, NEW r, OneMade(q, r),
           meta' = meta, procs' = procs, reader.at = "idle", reader'.at # "store",
           setter' = setter, config' = config
    PROVE  MetaNow
<1>0. /\ 1 .. made \subseteq Objs /\ made \in Nat /\ \A o \in 1 .. made : obj'[o] = obj[o] /\ o \in 1 .. made'
  BY MadeIn DEF OneMade, ObjectType
<1>1. ASSUME NEW p \in Pids, procs'[p] # NoObj, obj'[procs'[p]].notifier PROVE KnowsNow(procs'[p], p)
  <2>1. procs[p] \in 1 .. made /\ obj'[procs[p]] = obj[procs[p]] /\ procs'[p] = procs[p]
    BY <1>0, <1>1, Zenon DEF ObjInv
  <2>2. KernelKnows(procs[p], p)
    BY <1>1, <2>1, Zenon DEF MetaInv
  <2>3. KnowsNow(procs[p], p)
    BY <2>1, <2>2, Zenon DEF KernelKnows, KnowsNow, Pending, PendingNow
  <2> QED  BY <2>1, <2>3, Zenon
<1>2. ASSUME NEW p \in Pids, procs'[p] = NoObj, \A o \in 1 .. made' : obj'[o].pid = p => obj'[o].notifier
      PROVE  meta'[p] = NoObj
  <2>1. procs[p] = NoObj /\ AllNotify(p)
    BY <1>0, <1>2 DEF AllNotify
  <2> QED  BY <2>1 DEF MetaInv
<1> QED  BY <1>1, <1>2, Zenon DEF MetaNow

LEMMA MetaStep ==
    ASSUME KernelType, ManagerType, ObjectType, MetaType, ObserverType, ObjInv, KeepInv, StartInv,
           SetterInv, MetaInv, ProcNext
    PROVE  MetaInv'
<1> SUFFICES ASSUME ~overtaken' PROVE MetaNow
  BY MetaNowIs, Zenon
<1>0. /\ 1 .. made \subseteq Objs /\ made \in Nat /\ NoObj \notin Objs
      /\ obj \in [Objs -> ProcessObjects] /\ reader \in Readers
      /\ procs \in [Pids -> MaybeObj] /\ cache \in [Pids -> MaybeObj]
      /\ meta \in [Pids -> Metas \cup {NoObj}]
  BY MadeIn DEF ObjectType, ManagerType, MetaType
<1>b. \A p \in Pids : procs[p] # NoObj => procs[p] \in 1 .. made /\ procs[p] \in Objs /\ obj[procs[p]].pid = p
  BY <1>0 DEF ObjInv
<1>o. ~overtaken
  <2>1. overtaken => (overtaken' \/ overtaken' = overtaken)
    BY KernelFrame, StepKinds, Zenon
         DEF StartStep, ReaderStep, ChangeStep, ObserverStep, StartManager, Attach, Preload,
           handleExecStartEvent, handleExecEndEvent, handleExitEvent, Discover, DiscoverPut, Store,
           SetTlsOkPut, SetTlsOk, SetConfig, UpdateFilterPut, UpdateFilter, AwaitSelect, AwaitTimeout,
           Await, NotifyWaiters, InitObserver, TellObserver, PutMeta, userVars
  <2> QED  BY <2>1, Zenon
<1>1. ASSUME UNCHANGED <<meta, obj, made, procs, reader, setter, config>> PROVE MetaNow
  <2>1. Alike
    BY <1>1, Zenon DEF Alike
  <2> QED  BY <1>1, <1>o, <2>1, MetaAlike, Zenon
<1>2. ASSUME NEW q \in Pids, Preload(q) PROVE MetaNow
  <2>1. OneMade(q, [Unmade EXCEPT !.pid = q, !.locked = TRUE])
    BY <1>2 DEF Preload, OneMade, Unmade
  <2>2. reader.at = "idle" /\ reader'.at # "store" /\ UNCHANGED <<meta, procs, setter, config>>
    BY <1>2 DEF Preload
  <2> QED  BY <1>o, <2>1, <2>2, MetaMade, Zenon
<1>3. ASSUME handleExecStartEvent PROVE MetaNow
  <2> DEFINE q == Head(proc_events).pid
  <2>1. q \in Pids
    BY <1>3, RingTail DEF handleExecStartEvent, ProcRecords
  <2>2. OneMade(q, [Unmade EXCEPT !.pid = q, !.notifier = TRUE])
    BY <1>3 DEF handleExecStartEvent, OneMade, Unmade
  <2>3. reader.at = "idle" /\ reader'.at # "store" /\ UNCHANGED <<meta, procs, setter, config>>
    BY <1>3 DEF handleExecStartEvent, Reads
  <2> HIDE DEF q
  <2> QED  BY <1>o, <2>1, <2>2, <2>3, MetaMade, Zenon
<1>4. ASSUME handleExecEndEvent PROVE MetaNow
  <2> DEFINE p == Head(proc_events).pid
             o == IF procs[p] = NoObj THEN cache[p] ELSE procs[p]
  <2>1. made' = made /\ (obj' = obj \/ obj' = [obj EXCEPT ![o].locked = TRUE])
    BY <1>4, Zenon DEF handleExecEndEvent
  <2>2. Alike
    <3> HIDE DEF o, p
    <3> QED  BY <2>1, LockAlike, Zenon
  <2>3. UNCHANGED <<meta, procs, setter, config>> /\ reader.at = "idle"
    BY <1>4, Zenon DEF handleExecEndEvent, Reads
  <2>4. reader' = reader \/ reader'.at = "discover"
    BY <1>4 DEF handleExecEndEvent
  <2> HIDE DEF o, p
  <2> QED  BY <1>o, <2>2, <2>3, <2>4, MetaAlike, Zenon
<1>5. ASSUME handleExitEvent PROVE MetaNow
  <2> DEFINE q == Head(proc_events).pid
             o == procs[q]
  <2>1. q \in Pids /\ reader.at = "idle" /\ UNCHANGED <<reader, setter, config, made>>
    BY <1>5, RingTail DEF handleExitEvent, ProcRecords, Reads
  <2>2. CASE o = NoObj
    <3>1. UNCHANGED <<meta, procs, obj>>
      BY <1>5, <2>2, Zenon DEF handleExitEvent
    <3> QED  BY <1>1, <2>1, <3>1, Zenon
  <2>3. CASE o # NoObj
    <3>1. /\ obj' = [obj EXCEPT ![o].exited = TRUE]
          /\ meta' = [meta EXCEPT ![q] = ClosedMeta(o, q)]
          /\ procs' = [procs EXCEPT ![q] = NoObj]
      BY <1>5, <2>3, Zenon DEF handleExitEvent
    <3>2. o \in 1 .. made /\ o \in Objs /\ obj[o].pid = q
      BY <1>b, <2>1, <2>3
    <3> HIDE DEF q, o
    <3>3. \A x \in Objs : /\ MetaOf(obj'[x]) = MetaOf(obj[x]) /\ obj'[x].pid = obj[x].pid
                          /\ obj'[x].notifier = obj[x].notifier
      BY <1>0, <3>1 DEF ProcessObjects, MetaOf
    <3>4. \A x \in Objs : Pending(x) => PendingNow(x)
      BY <2>1 DEF Pending, PendingNow
    <3>5. ASSUME NEW p \in Pids, procs'[p] # NoObj, obj'[procs'[p]].notifier PROVE KnowsNow(procs'[p], p)
      <4>1. p # q /\ procs'[p] = procs[p] /\ meta'[p] = meta[p] /\ procs[p] # NoObj
        BY <1>0, <2>1, <3>1, <3>5
      <4>2. procs[p] \in Objs /\ obj[procs[p]].notifier
        BY <1>b, <3>3, <3>5, <4>1
      <4>3. KernelKnows(procs[p], p)
        BY <1>o, <4>1, <4>2, Zenon DEF MetaInv
      <4> QED  BY <3>3, <3>4, <4>1, <4>2, <4>3, Zenon DEF KernelKnows, KnowsNow
    <3>6. ASSUME NEW p \in Pids, procs'[p] = NoObj, \A x \in 1 .. made' : obj'[x].pid = p => obj'[x].notifier
          PROVE  meta'[p] = NoObj
      <4>1. AllNotify(p)
        BY <1>0, <2>1, <3>3, <3>6 DEF AllNotify
      <4>2. CASE p = q
        BY <1>0, <3>1, <3>2, <4>1, <4>2 DEF AllNotify, ClosedMeta
      <4>3. CASE p # q
        BY <1>0, <1>o, <2>1, <3>1, <3>6, <4>1, <4>3 DEF MetaInv
      <4> QED  BY <4>2, <4>3
    <3>7. reader'.at # "store"
      BY <2>1
    <3> QED  BY <3>5, <3>6, <3>7, Zenon DEF MetaNow
  <2> QED  BY <2>2, <2>3
<1>6. ASSUME Discover PROVE MetaNow
  <2> DEFINE o == reader.obj
             p == obj[o].pid
             r == [Discovered(obj[o], p) EXCEPT !.locked = obj[o].notifier]
  <2>1. reader.at = "discover" /\ o \in 1 .. made /\ o \in Objs
    BY <1>0, <1>6 DEF Discover, ObjInv
  <2>2. UNCHANGED <<meta, procs, made, setter, config>>
    BY <1>6, Zenon DEF Discover
  <2>3. \A x \in Objs : Pending(x) => PendingNow(x)
    BY <2>1, <2>2 DEF Pending, PendingNow
  <2>4. CASE live[p] = 0 /\ obj' = [obj EXCEPT ![o].locked = FALSE] /\ reader'.at # "store"
    <3>1. Alike
      BY <2>2, <2>4, LockAlike, Zenon
    <3>2. Kept
      BY <2>1, <2>2, <2>3, <2>4, <3>1, Zenon DEF Kept, Alike
    <3> QED  BY <1>o, <3>2, MetaKept
  <2>5. CASE /\ obj' = [obj EXCEPT ![o] = r] /\ reader'.obj = o
             /\ reader'.at = IF obj[o].notifier THEN "put" ELSE "store"
    <3>1. r.pid = obj[o].pid /\ r.notifier = obj[o].notifier
      BY <1>0, <2>1 DEF Discovered, ProcessObjects
    <3> HIDE DEF r, p
    <3>2. \A x \in Objs : obj'[x] = IF x = o THEN r ELSE obj[x]
      BY <1>0, <2>5
    <3>3. obj[o].notifier => PendingNow(o)
      BY <2>5 DEF PendingNow
    <3>4. Kept
      <4>1. \A x \in Objs : obj'[x].pid = obj[x].pid /\ obj'[x].notifier = obj[x].notifier
        BY <3>1, <3>2, Zenon
      <4>2. \A x \in Objs : obj[x].notifier => MetaOf(obj'[x]) = MetaOf(obj[x]) \/ PendingNow(x)
        BY <3>2, <3>3, Zenon
      <4>3. reader'.at = "store" => reader'.obj \in Objs /\ ~obj[reader'.obj].notifier
        BY <2>1, <2>5
      <4>4. reader.at # "store"
        BY <2>1
      <4> QED  BY <2>2, <2>3, <4>1, <4>2, <4>3, <4>4, Zenon DEF Kept
    <3> QED  BY <1>o, <3>4, MetaKept
  <2>6. \/ live[p] = 0 /\ obj' = [obj EXCEPT ![o].locked = FALSE] /\ reader'.at # "store"
        \/ /\ obj' = [obj EXCEPT ![o] = r] /\ reader'.obj = o
           /\ reader'.at = IF obj[o].notifier THEN "put" ELSE "store"
    <3> DEFINE d == MetaOf(Discovered(obj[o], p))
    <3>1. \/ /\ live[p] = 0 /\ obj' = [obj EXCEPT ![o].locked = FALSE]
             /\ \/ reader' = [reader EXCEPT !.at = "put", !.data = MetaOf(obj[o])]
                \/ reader' = Reading
          \/ /\ obj' = [obj EXCEPT ![o] = r]
             /\ reader' = IF obj[o].notifier THEN [reader EXCEPT !.at = "put", !.data = d]
                                             ELSE [reader EXCEPT !.at = "store"]
      BY <1>6, Zenon DEF Discover
    <3>2. \A e : [reader EXCEPT !.at = "put", !.data = e].at = "put" /\ [reader EXCEPT !.at = "put", !.data = e].obj = o
      BY <1>0 DEF Readers
    <3>3. /\ [reader EXCEPT !.at = "store"].at = "store" /\ [reader EXCEPT !.at = "store"].obj = o
          /\ Reading.at = "idle"
      BY <1>0 DEF Readers, Reading
    <3> DEFINE e == MetaOf(obj[o])
               put(x) == [reader EXCEPT !.at = "put", !.data = x]
    <3>4. /\ put(e).at = "put" /\ put(d).at = "put" /\ put(d).obj = o
      BY <3>2, Zenon
    <3> HIDE DEF d, e, put, r, p
    <3>5. \/ /\ live[p] = 0 /\ obj' = [obj EXCEPT ![o].locked = FALSE]
             /\ reader' = put(e) \/ reader' = Reading
          \/ /\ obj' = [obj EXCEPT ![o] = r]
             /\ reader' = IF obj[o].notifier THEN put(d) ELSE [reader EXCEPT !.at = "store"]
      BY <3>1, Zenon DEF put, e
    <3> QED  BY <3>3, <3>4, <3>5, Zenon
  <2> QED  BY <2>4, <2>5, <2>6, Zenon
<1>7. ASSUME DiscoverPut PROVE MetaNow
  <2> DEFINE o == reader.obj
             p == obj[o].pid
  <2>1. reader.at = "put" /\ o \in 1 .. made /\ o \in Objs /\ p \in Pids
    BY <1>0, <1>7 DEF DiscoverPut, ObjInv
  <2>2. PutMeta(o, reader.data)
    BY <1>7, Zenon DEF DiscoverPut
  <2>3. \A q \in Pids : meta'[q] = IF q = p THEN MetaOf(obj[o]) ELSE meta[q]
    BY <2>1, <2>2, PutIs, Zenon
  <2>4. /\ made' = made /\ (obj' = obj \/ obj' = [obj EXCEPT ![o].locked = FALSE])
        /\ UNCHANGED <<procs, setter, config>>
    BY <1>7, Zenon DEF DiscoverPut
  <2>5. Alike
    BY <2>4, LockAlike, Zenon
  <2>6. /\ reader'.at # "put"
        /\ reader'.at = "store" => reader'.obj = o
        /\ mgr = "preload" \/ (reader'.at = "store" /\ reader'.obj = o)
    BY <1>0, <1>7, Zenon DEF DiscoverPut, Reading, Readers
  <2> HIDE DEF o, p
  <2>7. p = obj[o].pid /\ procs[p] \in {NoObj, o}
    BY <2>1 DEF KeepInv, o, p
  <2>8. ASSUME NEW q \in Pids, procs'[q] # NoObj, obj'[procs'[q]].notifier PROVE KnowsNow(procs'[q], q)
    <3> DEFINE x == procs[q]
    <3>1. procs'[q] = x /\ x \in Objs /\ obj[x].pid = q /\ x # NoObj
      BY <1>b, <2>4, <2>8, Zenon
    <3>2. obj[x].notifier /\ MetaOf(obj'[x]) = MetaOf(obj[x])
      BY <2>5, <2>8, <3>1 DEF Alike
    <3>3. CASE q = p
      <4>1. x = o
        BY <2>7, <3>1, <3>3
      <4>2. meta'[q] = MetaOf(obj'[x])
        BY <2>3, <3>2, <3>3, <4>1, Zenon
      <4> QED  BY <3>1, <4>2, Zenon DEF KnowsNow
    <3>4. CASE q # p
      <4>1. meta'[q] = meta[q] /\ x # o
        BY <2>3, <2>7, <3>1, <3>4
      <4>2. KernelKnows(x, q)
        BY <1>o, <3>1, <3>2, Zenon DEF MetaInv
      <4>3. Pending(x) => PendingNow(x)
        BY <2>4, <4>1 DEF Pending, PendingNow, o
      <4> QED  BY <3>1, <3>2, <4>1, <4>2, <4>3, Zenon DEF KernelKnows, KnowsNow
    <3> QED  BY <3>3, <3>4
  <2>9. ASSUME reader'.at = "store" PROVE KnowsNow(reader'.obj, obj'[reader'.obj].pid)
    <3>1. reader'.obj = o /\ obj'[o].pid = p /\ MetaOf(obj'[o]) = MetaOf(obj[o])
      BY <2>1, <2>5, <2>6, <2>7, <2>9, Zenon DEF Alike
    <3>2. meta'[p] = MetaOf(obj'[o])
      BY <2>1, <2>3, <3>1
    <3> QED  BY <3>1, <3>2, Zenon DEF KnowsNow
  <2>10. ASSUME NEW q \in Pids, procs'[q] = NoObj, \A x \in 1 .. made' : obj'[x].pid = q => obj'[x].notifier
         PROVE  meta'[q] = NoObj \/ (reader'.at = "store" /\ obj'[reader'.obj].pid = q)
    <3>1. procs[q] = NoObj /\ AllNotify(q)
      BY <1>0, <2>4, <2>5, <2>10 DEF AllNotify, Alike
    <3>2. CASE q = p
      <4>1. mgr # "preload"
        BY <2>1, <2>7, <3>1, <3>2 DEF AllNotify, StartInv, Attached
      <4>2. reader'.at = "store" /\ reader'.obj = o
        BY <2>6, <4>1, Zenon
      <4> QED  BY <2>1, <2>5, <2>7, <3>2, <4>2, Zenon DEF Alike
    <3>3. CASE q # p
      BY <1>o, <2>1, <2>3, <3>1, <3>3 DEF MetaInv
    <3> QED  BY <3>2, <3>3
  <2> QED  BY <2>8, <2>9, <2>10, Zenon DEF MetaNow
<1>8. ASSUME Store PROVE MetaNow
  <2> DEFINE o == reader.obj
             p == obj[o].pid
  <2>1. reader.at = "store" /\ o \in 1 .. made /\ o \in Objs /\ p \in Pids
    BY <1>0, <1>8 DEF Store, ObjInv
  <2>2. procs' = [procs EXCEPT ![p] = o] /\ UNCHANGED <<obj, made, meta, setter, config>>
    BY <1>8, Zenon DEF Store
  <2>3. reader'.at # "store"
    BY <1>0, <1>8 DEF Store, Reading, Readers
  <2>4. \A x \in Objs : Pending(x) => PendingNow(x)
    BY <2>1, <2>2 DEF Pending, PendingNow
  <2> HIDE DEF o, p
  <2>5. ASSUME NEW q \in Pids, procs'[q] # NoObj, obj'[procs'[q]].notifier PROVE KnowsNow(procs'[q], q)
    <3>1. CASE q = p
      <4>1. procs'[q] = o /\ obj[o].notifier
        BY <1>0, <2>1, <2>2, <2>5, <3>1
      <4>2. KernelKnows(o, p)
        BY <1>o, <2>1, <4>1 DEF MetaInv, o, p
      <4>3. KnowsNow(o, p)
        BY <2>1, <2>2, <2>4, <4>2, Zenon DEF KernelKnows, KnowsNow
      <4> QED  BY <3>1, <4>1, <4>3, Zenon
    <3>2. CASE q # p
      <4>1. procs'[q] = procs[q] /\ procs[q] \in Objs /\ obj[procs[q]].notifier /\ procs[q] # NoObj
        BY <1>0, <1>b, <2>2, <2>5, <3>2
      <4>2. KernelKnows(procs[q], q)
        BY <1>o, <4>1, Zenon DEF MetaInv
      <4> QED  BY <2>2, <2>4, <4>1, <4>2, Zenon DEF KernelKnows, KnowsNow
    <3> QED  BY <3>1, <3>2
  <2>6. ASSUME NEW q \in Pids, procs'[q] = NoObj, \A x \in 1 .. made' : obj'[x].pid = q => obj'[x].notifier
        PROVE  meta'[q] = NoObj
    <3>1. q # p /\ procs[q] = NoObj /\ AllNotify(q)
      BY <1>0, <2>1, <2>2, <2>6 DEF AllNotify
    <3>2. obj[reader.obj].pid # q
      BY <3>1 DEF o, p
    <3> QED  BY <1>o, <2>2, <3>1, <3>2 DEF MetaInv
  <2> QED  BY <2>3, <2>5, <2>6, Zenon DEF MetaNow
<1>9. ASSUME NEW o \in Objs, NEW v \in BOOLEAN, SetTlsOk(o, v) PROVE MetaNow
  <2> DEFINE now == [obj[o] EXCEPT !.tls_ok = v]
             puts == TellsEventer(o) /\ ~now.exited
             r == [now EXCEPT !.locked = puts]
  <2>1. /\ setter = NotSetting /\ o <= made /\ obj' = [obj EXCEPT ![o] = r]
        /\ setter' = IF puts THEN [obj |-> o, data |-> MetaOf(now)] ELSE NotSetting
        /\ UNCHANGED <<procs, made, reader, config>>
    BY <1>9, Zenon DEF SetTlsOk
  <2>2. now.exited = obj[o].exited /\ now.pid = obj[o].pid
    BY <1>0 DEF ProcessObjects
  <2>3. r.pid = obj[o].pid /\ r.notifier = obj[o].notifier
    <3> HIDE DEF puts
    <3> QED  BY <1>0 DEF ProcessObjects
  <2>4. puts <=> obj[o].notifier /\ ~obj[o].exited
    BY <2>2 DEF TellsEventer
  <2>5. meta' = meta
    <3>1. meta' = IF TellsEventer(o) /\ now.exited THEN [meta EXCEPT ![now.pid] = NoObj] ELSE meta
      BY <1>9, Zenon DEF SetTlsOk
    <3>2. ~(TellsEventer(o) /\ now.exited /\ meta[now.pid] # NoObj)
      BY <1>9, Zenon DEF SetTlsOk
    <3>3. now.pid \in Pids
      BY <1>0, <2>1, <2>2 DEF ObjInv, Objs
    <3> HIDE DEF now
    <3> QED  BY <1>0, <3>1, <3>2, <3>3
  <2> HIDE DEF puts, r, now
  <2>6. \A x \in Objs : obj'[x] = IF x = o THEN r ELSE obj[x]
    BY <1>0, <2>1, ZenonT(30)
  <2>7. \A x \in Objs : Pending(x) => PendingNow(x)
    BY <1>0, <2>1 DEF Pending, PendingNow, NotSetting
  <2>8. obj[o].notifier /\ ~obj[o].exited => PendingNow(o)
    BY <2>1, <2>4, Zenon DEF PendingNow
  <2>9. InUse(o) => ~obj[o].exited
    <3>1. obj[o].pid \in Pids
      BY <1>0, <2>1 DEF ObjInv, Objs
    <3> QED  BY <1>0, <3>1, Zenon DEF InUse, KeepInv
  <2>10. reader.at = "store" => reader.obj \in Objs
    BY <1>0 DEF ObjInv
  <2>11. Kept
    BY <2>1, <2>3, <2>5, <2>6, <2>7, <2>8, <2>9, <2>10, Zenon DEF Kept
  <2> QED  BY <1>o, <2>11, MetaKept
<1>10. ASSUME SetTlsOkPut PROVE MetaNow
  <2> DEFINE o == setter.obj
  <2>1. o # NoObj
    BY <1>10, ZenonT(30) DEF SetTlsOkPut, SetterInv
  <2>2. o \in 1 .. made /\ o \in Objs /\ obj[o].pid \in Pids /\ Stored(o)
    BY <1>0, <2>1 DEF ObjInv, KeepInv
  <2>3. /\ PutMeta(o, setter.data) /\ obj' = [obj EXCEPT ![o].locked = FALSE]
        /\ UNCHANGED <<made, procs, reader, config>>
    BY <1>10, Zenon DEF SetTlsOkPut
  <2>4. ~obj[o].exited /\ \A p \in Pids : meta'[p] = IF p = obj[o].pid THEN MetaOf(obj[o]) ELSE meta[p]
    BY <2>2, <2>3, PutIs, Zenon
  <2>5. Alike
    BY <2>3, LockAlike, Zenon
  <2>6. procs[obj[o].pid] = o
    BY <2>2, <2>4 DEF Stored
  <2>7. \A x \in Objs : Pending(x) /\ x # o => PendingNow(x)
    BY <2>3 DEF Pending, PendingNow
  <2> HIDE DEF o
  <2> QED  BY <1>o, <2>2, <2>3, <2>4, <2>5, <2>6, <2>7, MetaPut, Zenon
<1>11. ASSUME NEW s \in SUBSET Images, SetConfig(s) PROVE MetaNow
  <2>1. UNCHANGED <<meta, obj, made, procs, reader, setter>>
    BY <1>11, Zenon DEF SetConfig
  <2>2. config'.obj = config.obj
    BY <1>11 DEF SetConfig, Unlocked, NoConfig
  <2>3. Alike
    BY <2>1, Zenon DEF Alike
  <2> QED  BY <1>o, <2>1, <2>2, <2>3, MetaAlike, Zenon
<1>12. ASSUME NEW p \in Pids, UpdateFilter(p) PROVE MetaNow
  <2> DEFINE o == procs[p]
             r == [obj[o] EXCEPT !.filter = TRUE]
             rest == [NoConfig EXCEPT !.todo = config.todo \ {p}]
  <2>1. o \in Objs /\ obj[o].pid = p
    BY <1>b, <1>12 DEF UpdateFilter, ObjInv
  <2>2. r.pid = obj[o].pid /\ r.notifier = obj[o].notifier
    BY <1>0, <2>1 DEF ProcessObjects
  <2>3. rest = [todo |-> config.todo \ {p}, obj |-> NoObj, data |-> NoObj]
    BY DEF NoConfig
  <2>4. /\ config.obj = NoObj /\ UNCHANGED <<meta, procs, made, reader, setter>>
        /\ \/ /\ obj' = [obj EXCEPT ![o] = r]
              /\ config' = IF r.notifier THEN [rest EXCEPT !.obj = o, !.data = MetaOf(r)] ELSE rest
           \/ obj' = obj /\ config' = rest
    BY <1>12, Zenon DEF UpdateFilter
  <2> HIDE DEF o, r, rest
  <2>5. \/ obj' = [obj EXCEPT ![o] = r] /\ (obj[o].notifier => config'.obj = o)
        \/ obj' = obj
    BY <2>2, <2>3, <2>4, Zenon
  <2>6. obj' = obj \/ \A x \in Objs : obj'[x] = IF x = o THEN r ELSE obj[x]
    BY <1>0, <2>5
  <2>7. \A x \in Objs : Pending(x) => PendingNow(x)
    BY <1>0, <2>4 DEF Pending, PendingNow
  <2>8. obj' = obj \/ (obj[o].notifier => PendingNow(o))
    BY <2>5, Zenon DEF PendingNow
  <2>9. reader.at = "store" => reader.obj \in Objs
    BY <1>0 DEF ObjInv
  <2>10. Kept
    BY <2>2, <2>4, <2>6, <2>7, <2>8, <2>9, Zenon DEF Kept
  <2> QED  BY <1>o, <2>10, MetaKept
<1>13. ASSUME UpdateFilterPut PROVE MetaNow
  <2> DEFINE o == config.obj
  <2>1. o # NoObj /\ PutMeta(o, config.data) /\ UNCHANGED <<made, obj, procs, reader, setter>>
    BY <1>13, ZenonT(30) DEF UpdateFilterPut
  <2>2. o \in 1 .. made /\ o \in Objs /\ obj[o].pid \in Pids /\ procs[obj[o].pid] = o
    BY <1>0, <2>1 DEF ObjInv, KeepInv
  <2>3. \A p \in Pids : meta'[p] = IF p = obj[o].pid THEN MetaOf(obj[o]) ELSE meta[p]
    BY <2>1, <2>2, PutIs, Zenon
  <2>4. Alike
    BY <2>1, Zenon DEF Alike
  <2>5. \A x \in Objs : Pending(x) /\ x # o => PendingNow(x)
    BY <2>1 DEF Pending, PendingNow
  <2> HIDE DEF o
  <2> QED  BY <1>o, <2>1, <2>2, <2>3, <2>4, <2>5, MetaPut, Zenon
<1>14. ASSUME StartManager \/ Attach PROVE UNCHANGED <<meta, obj, made, procs, reader, setter, config>>
  BY <1>14, Zenon DEF StartManager, Attach
<1> QED  BY <1>1, <1>2, <1>3, <1>4, <1>5, <1>6, <1>7, <1>8, <1>9, <1>10, <1>11, <1>12, <1>13, <1>14, MetaFrame, Zenon
         DEF StartStep, ReaderStep, ChangeStep

-----------------------------------------------------------------------------
\* What the ring buffer has of a pid

Clear(s, p) == \A i \in DOMAIN s : s[i].pid # p

\* The record at i is the last of the pid.
LastOf(s, p, i) == s[i].pid = p /\ \A j \in DOMAIN s : j > i => s[j].pid # p

EndsWith(s, p, k) == \E i \in DOMAIN s : LastOf(s, p, i) /\ s[i].kind = k

\* The last record is that of the end of an execve, and its start is the record
\* of the pid before it, or is in the cache already.
Armed(s, p, cached) ==
    \E i \in DOMAIN s :
      /\ LastOf(s, p, i) /\ s[i].kind = "end"
      /\ \/ \E j \in DOMAIN s : /\ j < i /\ s[j].pid = p /\ s[j].kind = "start"
                                /\ \A k \in DOMAIN s : j < k /\ k < i => s[k].pid # p
         \/ cached /\ \A j \in DOMAIN s : j < i => s[j].pid # p

LEMMA AppendOther ==
    ASSUME NEW s \in Seq(ProcRecords), NEW e \in ProcRecords, NEW p, e.pid # p
    PROVE  /\ Clear(s, p) => Clear(Append(s, e), p)
           /\ \A k : EndsWith(s, p, k) => EndsWith(Append(s, e), p, k)
           /\ \A c : Armed(s, p, c) => Armed(Append(s, e), p, c)
<1> DEFINE t == Append(s, e)
<1>1. /\ Len(s) \in Nat /\ DOMAIN s = 1 .. Len(s) /\ DOMAIN t = 1 .. (Len(s) + 1)
      /\ \A i \in DOMAIN s : t[i] = s[i]
      /\ t[Len(s) + 1] = e
  OBVIOUS
<1> HIDE DEF t
<1>2. /\ \A i \in DOMAIN s : i \in DOMAIN t
      /\ \A i \in DOMAIN t : i \in DOMAIN s \/ t[i].pid # p
  BY <1>1
<1>3. Clear(s, p) => Clear(t, p)
  BY <1>1, <1>2 DEF Clear
<1>4. ASSUME NEW i \in DOMAIN s, LastOf(s, p, i) PROVE LastOf(t, p, i) /\ i \in DOMAIN t /\ t[i] = s[i]
  BY <1>1, <1>2, <1>4, Zenon DEF LastOf
<1>5. ASSUME NEW k, EndsWith(s, p, k) PROVE EndsWith(t, p, k)
  BY <1>4, <1>5 DEF EndsWith
<1>6. ASSUME NEW c, Armed(s, p, c) PROVE Armed(t, p, c)
  <2>1. PICK i \in DOMAIN s :
          /\ LastOf(s, p, i) /\ s[i].kind = "end"
          /\ \/ \E j \in DOMAIN s : /\ j < i /\ s[j].pid = p /\ s[j].kind = "start"
                                    /\ \A k \in DOMAIN s : j < k /\ k < i => s[k].pid # p
             \/ c /\ \A j \in DOMAIN s : j < i => s[j].pid # p
    BY <1>6, Zenon DEF Armed
  <2>2. LastOf(t, p, i) /\ i \in DOMAIN t /\ t[i].kind = "end"
    BY <1>4, <2>1
  <2>3. CASE c /\ \A j \in DOMAIN s : j < i => s[j].pid # p
    <3>1. \A j \in DOMAIN t : j < i => t[j].pid # p
      BY <1>1, <1>2, <2>3, Zenon
    <3> QED  BY <2>2, <2>3, <3>1, Zenon DEF Armed
  <2>4. ASSUME NEW j \in DOMAIN s, j < i, s[j].pid = p, s[j].kind = "start",
               \A k \in DOMAIN s : j < k /\ k < i => s[k].pid # p
        PROVE  Armed(t, p, c)
    <3>1. \A k \in DOMAIN t : j < k /\ k < i => t[k].pid # p
      BY <1>1, <1>2, <2>4, Zenon
    <3>2. j \in DOMAIN t /\ t[j].pid = p /\ t[j].kind = "start"
      BY <1>1, <1>2, <2>4, Zenon
    <3> QED  BY <2>2, <2>4, <3>1, <3>2, Zenon DEF Armed
  <2> QED  BY <2>1, <2>3, <2>4, Zenon
<1> QED  BY <1>3, <1>5, <1>6, Zenon DEF t

LEMMA AppendSame ==
    ASSUME NEW s \in Seq(ProcRecords), NEW e \in ProcRecords
    PROVE  /\ EndsWith(Append(s, e), e.pid, e.kind)
           /\ \A c : e.kind = "end" /\ (EndsWith(s, e.pid, "start") \/ (c /\ Clear(s, e.pid)))
                       => Armed(Append(s, e), e.pid, c)
<1> DEFINE t == Append(s, e)
           n == Len(s) + 1
           p == e.pid
<1>1. /\ Len(s) \in Nat /\ DOMAIN s = 1 .. Len(s) /\ DOMAIN t = 1 .. n
      /\ \A i \in DOMAIN s : t[i] = s[i]
      /\ t[n] = e
  OBVIOUS
<1> HIDE DEF t, p
<1>2. n \in DOMAIN t /\ LastOf(t, p, n) /\ t[n].kind = e.kind
  BY <1>1 DEF LastOf, p
<1>3. EndsWith(t, p, e.kind)
  BY <1>2 DEF EndsWith
<1>4. \A i \in DOMAIN t : i < n => i \in DOMAIN s
  BY <1>1
<1>5. ASSUME NEW c, e.kind = "end", EndsWith(s, p, "start") PROVE Armed(t, p, c)
  <2>1. PICK j \in DOMAIN s : LastOf(s, p, j) /\ s[j].kind = "start"
    BY <1>5 DEF EndsWith
  <2>2. j \in DOMAIN t /\ j < n /\ t[j].pid = p /\ t[j].kind = "start"
    BY <1>1, <2>1 DEF LastOf
  <2>3. \A k \in DOMAIN t : j < k /\ k < n => t[k].pid # p
    BY <1>1, <1>4, <2>1 DEF LastOf
  <2> HIDE DEF n
  <2> QED  BY <1>2, <1>5, <2>2, <2>3, Zenon DEF Armed
<1>6. ASSUME NEW c, e.kind = "end", c, Clear(s, p) PROVE Armed(t, p, c)
  <2>1. \A j \in DOMAIN t : j < n => t[j].pid # p
    BY <1>1, <1>4, <1>6 DEF Clear
  <2> HIDE DEF n
  <2> QED  BY <1>2, <1>6, <2>1, Zenon DEF Armed
<1> QED  BY <1>3, <1>5, <1>6, Zenon DEF t, p

LEMMA TailOther ==
    ASSUME NEW s \in Seq(ProcRecords), s # <<>>, NEW p, Head(s).pid # p
    PROVE  /\ Clear(s, p) => Clear(Tail(s), p)
           /\ \A k : EndsWith(s, p, k) => EndsWith(Tail(s), p, k)
           /\ \A c : Armed(s, p, c) => Armed(Tail(s), p, c)
<1> DEFINE t == Tail(s)
<1>1. /\ Len(s) \in Nat /\ DOMAIN s = 1 .. Len(s) /\ DOMAIN t = 1 .. (Len(s) - 1)
      /\ \A i \in 1 .. (Len(s) - 1) : t[i] = s[i + 1]
      /\ Head(s) = s[1]
  BY TailIs
<1> HIDE DEF t
<1>2. /\ \A i \in DOMAIN t : i + 1 \in DOMAIN s /\ t[i] = s[i + 1]
      /\ \A i \in DOMAIN s : (i - 1 \in DOMAIN t /\ t[i - 1] = s[i]) \/ s[i].pid # p
      /\ DOMAIN t \subseteq Int /\ DOMAIN s \subseteq Int
  BY <1>1
<1>3. Clear(s, p) => Clear(t, p)
  BY <1>2 DEF Clear
<1>4. ASSUME NEW i \in DOMAIN s, LastOf(s, p, i) PROVE LastOf(t, p, i - 1) /\ i - 1 \in DOMAIN t /\ t[i - 1] = s[i]
  <2>1. i - 1 \in DOMAIN t /\ t[i - 1] = s[i] /\ s[i].pid = p
    BY <1>2, <1>4 DEF LastOf
  <2>2. ASSUME NEW j \in DOMAIN t, j > i - 1 PROVE t[j].pid # p
    BY <1>2, <1>4, <2>2 DEF LastOf
  <2> QED  BY <2>1, <2>2 DEF LastOf
<1>5. ASSUME NEW k, EndsWith(s, p, k) PROVE EndsWith(t, p, k)
  BY <1>4, <1>5, Zenon DEF EndsWith
<1>6. ASSUME NEW c, Armed(s, p, c) PROVE Armed(t, p, c)
  <2>1. PICK i \in DOMAIN s :
          /\ LastOf(s, p, i) /\ s[i].kind = "end"
          /\ \/ \E j \in DOMAIN s : /\ j < i /\ s[j].pid = p /\ s[j].kind = "start"
                                    /\ \A k \in DOMAIN s : j < k /\ k < i => s[k].pid # p
             \/ c /\ \A j \in DOMAIN s : j < i => s[j].pid # p
    BY <1>6, Zenon DEF Armed
  <2>2. LastOf(t, p, i - 1) /\ i - 1 \in DOMAIN t /\ t[i - 1].kind = "end"
    BY <1>4, <2>1
  <2>3. CASE c /\ \A j \in DOMAIN s : j < i => s[j].pid # p
    <3>1. \A j \in DOMAIN t : j < i - 1 => t[j].pid # p
      BY <1>2, <2>3
    <3> QED  BY <2>2, <2>3, <3>1, Zenon DEF Armed
  <2>4. ASSUME NEW j \in DOMAIN s, j < i, s[j].pid = p, s[j].kind = "start",
               \A k \in DOMAIN s : j < k /\ k < i => s[k].pid # p
        PROVE  Armed(t, p, c)
    <3>1. ASSUME NEW k \in DOMAIN t, j - 1 < k, k < i - 1 PROVE t[k].pid # p
      <4>1. k + 1 \in DOMAIN s /\ t[k] = s[k + 1] /\ j \in Int /\ i \in Int /\ k \in Int
        BY <1>2
      <4>2. j < k + 1 /\ k + 1 < i
        BY <3>1, <4>1
      <4> QED  BY <2>4, <4>1, <4>2
    <3>2. j - 1 \in DOMAIN t /\ t[j - 1].pid = p /\ t[j - 1].kind = "start" /\ j - 1 < i - 1
      BY <1>2, <2>4
    <3> QED  BY <2>2, <3>1, <3>2, Zenon DEF Armed
  <2> QED  BY <2>1, <2>3, <2>4, Zenon
<1> QED  BY <1>3, <1>5, <1>6, Zenon DEF t

LEMMA TailSame ==
    ASSUME NEW s \in Seq(ProcRecords), s # <<>>
    PROVE  LET p == Head(s).pid IN
           /\ \A k : EndsWith(s, p, k) =>
                EndsWith(Tail(s), p, k) \/ (Head(s).kind = k /\ Clear(Tail(s), p))
           /\ \A c, d : Armed(s, p, c) /\ (Head(s).kind = "start" => d) =>
                Armed(Tail(s), p, d) \/ (Head(s).kind = "end" /\ c /\ Clear(Tail(s), p))
<1> DEFINE t == Tail(s)
           p == Head(s).pid
<1>1. /\ Len(s) \in Nat /\ Len(s) > 0 /\ DOMAIN s = 1 .. Len(s) /\ DOMAIN t = 1 .. (Len(s) - 1)
      /\ \A i \in 1 .. (Len(s) - 1) : t[i] = s[i + 1]
      /\ Head(s) = s[1]
  BY TailIs
<1>p. s[1].pid = p /\ 1 \in DOMAIN s
  BY <1>1
<1> HIDE DEF t, p
<1>2. /\ \A i \in DOMAIN t : i + 1 \in DOMAIN s /\ t[i] = s[i + 1] /\ i >= 1
      /\ \A i \in DOMAIN s : i # 1 => i - 1 \in DOMAIN t /\ t[i - 1] = s[i]
      /\ DOMAIN t \subseteq Int /\ DOMAIN s \subseteq Int /\ \A i \in DOMAIN s : i >= 1
  BY <1>1
<1>3. ASSUME LastOf(s, p, 1) PROVE Clear(t, p)
  BY <1>2, <1>3 DEF LastOf, Clear
<1>4. ASSUME NEW i \in DOMAIN s, LastOf(s, p, i), i # 1
      PROVE  LastOf(t, p, i - 1) /\ i - 1 \in DOMAIN t /\ t[i - 1] = s[i]
  <2>1. i - 1 \in DOMAIN t /\ t[i - 1] = s[i] /\ s[i].pid = p
    BY <1>2, <1>4 DEF LastOf
  <2>2. ASSUME NEW j \in DOMAIN t, j > i - 1 PROVE t[j].pid # p
    BY <1>2, <1>4, <2>2 DEF LastOf
  <2> QED  BY <2>1, <2>2 DEF LastOf
<1>5. ASSUME NEW k, EndsWith(s, p, k) PROVE EndsWith(t, p, k) \/ (Head(s).kind = k /\ Clear(t, p))
  <2>1. PICK i \in DOMAIN s : LastOf(s, p, i) /\ s[i].kind = k
    BY <1>5 DEF EndsWith
  <2>2. CASE i = 1
    BY <1>1, <1>3, <2>1, <2>2
  <2>3. CASE i # 1
    <3>1. LastOf(t, p, i - 1) /\ i - 1 \in DOMAIN t /\ t[i - 1].kind = k
      BY <1>4, <2>1, <2>3
    <3> QED  BY <3>1 DEF EndsWith
  <2> QED  BY <2>2, <2>3
<1>6. ASSUME NEW c, NEW d, Armed(s, p, c), Head(s).kind = "start" => d
      PROVE  Armed(t, p, d) \/ (Head(s).kind = "end" /\ c /\ Clear(t, p))
  <2>1. PICK i \in DOMAIN s :
          /\ LastOf(s, p, i) /\ s[i].kind = "end"
          /\ \/ \E j \in DOMAIN s : /\ j < i /\ s[j].pid = p /\ s[j].kind = "start"
                                    /\ \A k \in DOMAIN s : j < k /\ k < i => s[k].pid # p
             \/ c /\ \A j \in DOMAIN s : j < i => s[j].pid # p
    BY <1>6, Zenon DEF Armed
  <2>2. CASE i = 1
    <3>1. Head(s).kind = "end" /\ Clear(t, p)
      BY <1>1, <1>3, <2>1, <2>2
    <3>2. ~(\E j \in DOMAIN s : j < i)
      BY <1>2, <2>2
    <3> QED  BY <2>1, <3>1, <3>2, Zenon
  <2>3. CASE i # 1
    <3>1. LastOf(t, p, i - 1) /\ i - 1 \in DOMAIN t /\ t[i - 1].kind = "end"
      BY <1>4, <2>1, <2>3
    <3>2. ~(\A j \in DOMAIN s : j < i => s[j].pid # p)
      BY <1>p, <1>2, <2>3
    <3>3. PICK j \in DOMAIN s : /\ j < i /\ s[j].pid = p /\ s[j].kind = "start"
                                /\ \A k \in DOMAIN s : j < k /\ k < i => s[k].pid # p
      BY <2>1, <3>2, Zenon
    <3>4. ASSUME NEW k \in DOMAIN t, j - 1 < k, k < i - 1 PROVE t[k].pid # p
      <4>1. k + 1 \in DOMAIN s /\ t[k] = s[k + 1] /\ j \in Int /\ i \in Int /\ k \in Int
        BY <1>2
      <4>2. j < k + 1 /\ k + 1 < i
        BY <3>4, <4>1
      <4> QED  BY <3>3, <4>1, <4>2
    <3>5. CASE j = 1
      <4>1. d
        BY <1>1, <1>6, <3>3, <3>5
      <4>2. \A k \in DOMAIN t : k < i - 1 => t[k].pid # p
        BY <1>2, <3>4, <3>5
      <4> QED  BY <3>1, <4>1, <4>2, Zenon DEF Armed
    <3>6. CASE j # 1
      <4>1. j - 1 \in DOMAIN t /\ t[j - 1].pid = p /\ t[j - 1].kind = "start" /\ j - 1 < i - 1
        BY <1>2, <3>3, <3>6
      <4> QED  BY <3>1, <3>4, <4>1, Zenon DEF Armed
    <3> QED  BY <3>5, <3>6
  <2> QED  BY <2>2, <2>3
<1> QED  BY <1>5, <1>6, Zenon DEF t, p

\* The reader is in addProc with a process of the pid.
Busy(p) == reader.at # "idle" /\ obj[reader.obj].pid = p

\* The manager knows what the pid runs, or is about to find out.
Settled(p) ==
    \/ Busy(p) /\ (reader.at = "discover" \/ obj[reader.obj].exe = image[p])
    \/ ~Busy(p) /\ procs[p] # NoObj /\ obj[procs[p]].exe = image[p]

\* The records that are still in the ring buffer bring the manager to what the
\* process is by now.
RingAt(p) ==
    /\ live[p] = 0 =>
         EndsWith(proc_events, p, "exit") \/ (Clear(proc_events, p) /\ procs[p] = NoObj /\ ~Busy(p))
    /\ live[p] > 0 /\ execing[p] = NoObj =>
         Armed(proc_events, p, cache[p] # NoObj) \/ (Clear(proc_events, p) /\ Settled(p))
    /\ live[p] > 0 /\ execing[p] # NoObj =>
         EndsWith(proc_events, p, "start") \/ (Clear(proc_events, p) /\ cache[p] # NoObj)

RingInv == ~lost /\ Attached => \A p \in whole : RingAt(p)

BusyNow(p) == reader'.at # "idle" /\ obj'[reader'.obj].pid = p
SettledNow(p) ==
    \/ BusyNow(p) /\ (reader'.at = "discover" \/ obj'[reader'.obj].exe = image'[p])
    \/ ~BusyNow(p) /\ procs'[p] # NoObj /\ obj'[procs'[p]].exe = image'[p]
RingNow(p) ==
    /\ live'[p] = 0 =>
         EndsWith(proc_events', p, "exit") \/ (Clear(proc_events', p) /\ procs'[p] = NoObj /\ ~BusyNow(p))
    /\ live'[p] > 0 /\ execing'[p] = NoObj =>
         Armed(proc_events', p, cache'[p] # NoObj) \/ (Clear(proc_events', p) /\ SettledNow(p))
    /\ live'[p] > 0 /\ execing'[p] # NoObj =>
         EndsWith(proc_events', p, "start") \/ (Clear(proc_events', p) /\ cache'[p] # NoObj)

LEMMA RingNowIs == ASSUME NEW p, RingNow(p) PROVE RingAt(p)'
BY Zenon DEF RingNow, RingAt, BusyNow, Busy, SettledNow, Settled, EndsWith, Clear, Armed, LastOf

\* What is there of the pid is there after the step.
LEMMA RingSame ==
    ASSUME NEW p, RingAt(p), live'[p] = live[p], execing'[p] = execing[p],
           Clear(proc_events, p) => Clear(proc_events', p),
           EndsWith(proc_events, p, "exit") => EndsWith(proc_events', p, "exit"),
           EndsWith(proc_events, p, "start") => EndsWith(proc_events', p, "start"),
           Armed(proc_events, p, cache[p] # NoObj) => Armed(proc_events', p, cache'[p] # NoObj),
           cache'[p] = cache[p],
           procs[p] = NoObj /\ ~Busy(p) => procs'[p] = NoObj /\ ~BusyNow(p),
           live[p] > 0 => (Settled(p) => SettledNow(p))
    PROVE  RingNow(p)
BY Zenon DEF RingAt, RingNow

LEMMA RingUser ==
    ASSUME UNCHANGED <<reader, obj, procs, cache, image>>
    PROVE  \A p : /\ Settled(p) => SettledNow(p)
                  /\ procs[p] = NoObj /\ ~Busy(p) => procs'[p] = NoObj /\ ~BusyNow(p)
BY Zenon DEF Settled, SettledNow, Busy, BusyNow

\* The probes append what they report of a pid.
LEMMA RingKernelStep ==
    ASSUME KernelType, RingInv, KernelStep, ~lost', Attached', NEW p \in whole', whole \subseteq Pids
    PROVE  RingNow(p)
<1>0. /\ live \in [Pids -> Nat] /\ image \in [Pids -> Images]
      /\ execing \in [Pids -> Images \cup {NoObj}] /\ proc_events \in Seq(ProcRecords)
  BY DEF KernelType
<1>u. UNCHANGED <<reader, obj, procs, cache, mgr>>
  BY KernelFrame, Zenon DEF userVars
<1>a. Attached
  BY <1>u, Zenon DEF Attached
<1>e. \A k \in {"start", "end"}, q \in Pids : Event(k, q) \in ProcRecords /\ Event(k, q).pid = q /\ Event(k, q).kind = k
  BY EventType DEF Event
<1>b. ASSUME NEW q \in Pids, q # p, RingAt(p),
             live'[p] = live[p], execing'[p] = execing[p], image'[p] = image[p],
             \/ proc_events' = proc_events
             \/ \E e \in ProcRecords : e.pid = q /\ proc_events' = Append(proc_events, e)
      PROVE  RingNow(p)
  <2>1. /\ Clear(proc_events, p) => Clear(proc_events', p)
        /\ \A k : EndsWith(proc_events, p, k) => EndsWith(proc_events', p, k)
        /\ \A c : Armed(proc_events, p, c) => Armed(proc_events', p, c)
    <3>1. ASSUME NEW e \in ProcRecords, e.pid = q, proc_events' = Append(proc_events, e)
          PROVE  /\ Clear(proc_events, p) => Clear(proc_events', p)
                 /\ \A k : EndsWith(proc_events, p, k) => EndsWith(proc_events', p, k)
                 /\ \A c : Armed(proc_events, p, c) => Armed(proc_events', p, c)
      <4>1. e.pid # p
        BY <1>b, <3>1
      <4> QED  BY <1>0, <3>1, <4>1, AppendOther, Zenon
    <3> QED  BY <1>b, <3>1, Zenon
  <2>2. Settled(p) => SettledNow(p)
    BY <1>b, <1>u, Zenon DEF Settled, SettledNow, Busy, BusyNow
  <2>3. procs[p] = NoObj /\ ~Busy(p) => procs'[p] = NoObj /\ ~BusyNow(p)
    BY <1>u, Zenon DEF Busy, BusyNow
  <2>4. Armed(proc_events, p, cache[p] # NoObj) => Armed(proc_events', p, cache'[p] # NoObj)
    BY <1>u, <2>1, Zenon
  <2> QED  BY <1>b, <1>u, <2>1, <2>2, <2>3, <2>4, RingSame, Zenon
<1>1. ASSUME NEW q \in Pids, Fork(q) PROVE RingNow(p)
  <2>1. p # q /\ p \in whole /\ ~lost
    BY <1>1, Zenon DEF Fork
  <2>2. RingAt(p)
    BY <1>a, <2>1, Zenon DEF RingInv
  <2>3. live'[p] = live[p] /\ execing'[p] = execing[p] /\ image'[p] = image[p] /\ proc_events' = proc_events
    BY <1>0, <1>1, <2>1 DEF Fork, probeVars
  <2> QED  BY <1>b, <2>1, <2>2, <2>3, Zenon
<1>2. ASSUME NEW q \in Pids, NewThread(q) PROVE RingNow(p)
  <2>1. p \in whole /\ ~lost /\ execing' = execing /\ image' = image /\ proc_events' = proc_events
    BY <1>2, Zenon DEF NewThread, probeVars
  <2>2. RingAt(p)
    BY <1>a, <2>1, Zenon DEF RingInv
  <2>3. CASE p # q
    <3>1. live'[p] = live[p]
      BY <1>0, <1>2, <2>3 DEF NewThread
    <3> QED  BY <1>b, <2>1, <2>2, <2>3, <3>1, Zenon
  <2>4. CASE p = q
    <3>1. live[p] > 0 /\ live'[p] > 0 /\ live'[p] # 0
      BY <1>0, <1>2, <2>4 DEF NewThread
    <3>2. Settled(p) => SettledNow(p)
      BY <1>u, <2>1, Zenon DEF Settled, SettledNow, Busy, BusyNow
    <3>3. /\ execing'[p] = execing[p] /\ proc_events' = proc_events /\ cache' = cache
      BY <1>u, <2>1, Zenon
    <3> QED  BY <2>2, <3>1, <3>2, <3>3, Zenon DEF RingAt, RingNow
  <2> QED  BY <2>3, <2>4
<1>3. ASSUME NEW q \in Pids, RetExec(q) PROVE RingNow(p)
  <2>1. /\ ~lost /\ whole' = whole /\ proc_events' = Append(proc_events, Event("end", q))
    <3>1. ~(lost' = TRUE) /\ whole' = whole
      BY <1>3 DEF RetExec
    <3>2. lost' = lost /\ proc_events' = Append(proc_events, Event("end", q))
      BY <1>3, <1>a, <3>1, Zenon DEF RetExec, Drop
    <3> QED  BY <3>1, <3>2, Zenon
  <2>2. RingAt(p)
    BY <1>a, <2>1, Zenon DEF RingInv
  <2>3. CASE p # q
    <3>1. live'[p] = live[p] /\ image'[p] = image[p] /\ execing'[p] = execing[p]
      BY <1>0, <1>3, <2>3 DEF RetExec
    <3>2. \E e \in ProcRecords : e.pid = q /\ proc_events' = Append(proc_events, e)
      BY <1>e, <2>1
    <3> QED  BY <1>b, <2>2, <2>3, <3>1, <3>2, Zenon
  <2>4. CASE p = q
    <3>1. live'[p] # 0 /\ execing'[p] = NoObj /\ live[p] > 0 /\ execing[p] # NoObj
      BY <1>0, <1>3, <2>4 DEF RetExec
    <3>2. EndsWith(proc_events, p, "start") \/ (cache[p] # NoObj /\ Clear(proc_events, p))
      BY <2>2, <3>1, Zenon DEF RingAt
    <3> DEFINE e == Event("end", p)
    <3>3. e \in ProcRecords /\ e.pid = p /\ e.kind = "end" /\ proc_events' = Append(proc_events, e)
      BY <1>e, <2>1, <2>4
    <3> HIDE DEF e
    <3>4. Armed(proc_events', p, cache[p] # NoObj)
      BY <1>0, <3>2, <3>3, AppendSame, Zenon
    <3>5. Armed(proc_events', p, cache'[p] # NoObj)
      BY <1>u, <3>4, Zenon
    <3> QED  BY <3>1, <3>5, Zenon DEF RingNow
  <2> QED  BY <2>3, <2>4
<1>4. ASSUME NEW q \in Pids, NEW m \in Images, EnterExec(q, m) PROVE RingNow(p)
  <2>1. ~lost /\ proc_events' = Append(proc_events, Event("start", q)) /\ whole' = whole \cup {q}
    <3>1. ~(lost' = TRUE)
      OBVIOUS
    <3> QED  BY <1>4, <1>a, <3>1, Zenon DEF EnterExec
  <2>2. live' = live /\ image' = image /\ execing' = [execing EXCEPT ![q] = m] /\ live[q] > 0
    BY <1>4, Zenon DEF EnterExec
  <2>3. CASE p # q
    <3>1. p \in whole
      BY <2>1, <2>3
    <3>2. RingAt(p)
      BY <1>a, <2>1, <3>1, Zenon DEF RingInv
    <3>3. live'[p] = live[p] /\ image'[p] = image[p] /\ execing'[p] = execing[p]
      BY <1>0, <2>2, <2>3
    <3>4. \E e \in ProcRecords : e.pid = q /\ proc_events' = Append(proc_events, e)
      BY <1>e, <2>1
    <3> QED  BY <1>b, <2>3, <3>2, <3>3, <3>4, Zenon
  <2>4. CASE p = q
    <3>1. live'[p] # 0 /\ execing'[p] # NoObj
      BY <1>0, <2>2, <2>4, ProcAssumption
    <3> DEFINE e == Event("start", p)
    <3>2. e \in ProcRecords /\ e.pid = p /\ e.kind = "start" /\ proc_events' = Append(proc_events, e)
      BY <1>e, <2>1, <2>4
    <3> HIDE DEF e
    <3>3. EndsWith(proc_events', e.pid, e.kind)
      BY <1>0, <3>2, AppendSame, Zenon
    <3> QED  BY <3>1, <3>2, <3>3, Zenon DEF RingNow
  <2> QED  BY <2>3, <2>4
<1>5. ASSUME NEW q \in Pids, NEW c \in Codes, ExitGroup(q, c) PROVE RingNow(p)
  <2>1. p \in whole /\ ~lost /\ UNCHANGED <<live, execing, image, proc_events>>
    BY <1>5, Zenon DEF ExitGroup
  <2>2. RingAt(p)
    BY <1>a, <2>1, Zenon DEF RingInv
  <2> QED  BY <1>u, <2>1, <2>2, RingUser, RingSame, Zenon
<1>6. ASSUME NEW q \in Pids, ProcessExit(q) PROVE RingNow(p)
  <2>0. ~(lost' = TRUE) /\ whole' = whole /\ image' = image
    BY <1>6 DEF ProcessExit
  <2> DEFINE e == ExitRecord(q, CodeOf(exit_codes[q]), CodeOf(leaving[q]), q \in whole)
  <2>1. /\ lost' = lost
        /\ \/ LastThread(q) /\ proc_events' = Append(proc_events, e)
           \/ ~LastThread(q) /\ proc_events' = proc_events
    BY <1>6, <1>a, <2>0, Zenon DEF ProcessExit, Drop, ExitRecord, probeVars
  <2>2. e \in ProcRecords /\ e.pid = q /\ e.kind = "exit"
    <3>1. e \in ProcRecords
      BY ExitRecordOf, Zenon
    <3> QED  BY <3>1 DEF ExitRecord, Event
  <2>3. LastThread(q) <=> live[q] = 1
    BY <1>0 DEF LastThread
  <2>4. live' = [live EXCEPT ![q] = @ - 1] /\ live[q] > 0
    BY <1>6, Zenon DEF ProcessExit
  <2>5. \/ execing' = execing
        \/ live[q] = 1 /\ execing' = [execing EXCEPT ![q] = NoObj]
    BY <1>6, Zenon DEF ProcessExit
  <2>6. RingAt(p)
    BY <1>a, <2>0, <2>1, Zenon DEF RingInv
  <2> HIDE DEF e
  <2>7. CASE p # q
    <3>1. live'[p] = live[p] /\ image'[p] = image[p] /\ execing'[p] = execing[p]
      BY <1>0, <2>0, <2>4, <2>5, <2>7
    <3>2. \/ proc_events' = proc_events
          \/ \E x \in ProcRecords : x.pid = q /\ proc_events' = Append(proc_events, x)
      BY <2>1, <2>2
    <3> QED  BY <1>b, <2>6, <2>7, <3>1, <3>2, Zenon
  <2>8. CASE p = q /\ LastThread(q)
    <3>1. live'[p] = 0 /\ ~(live'[p] > 0)
      BY <1>0, <2>3, <2>4, <2>8
    <3>2. EndsWith(proc_events', e.pid, e.kind)
      BY <1>0, <2>1, <2>2, <2>8, AppendSame, Zenon
    <3> QED  BY <2>2, <2>8, <3>1, <3>2, Zenon DEF RingNow
  <2>9. CASE p = q /\ ~LastThread(q)
    <3>1. live[p] > 0 /\ live'[p] > 0 /\ live'[p] # 0 /\ execing' = execing
      BY <1>0, <2>3, <2>4, <2>5, <2>9
    <3>2. Settled(p) => SettledNow(p)
      BY <1>u, <2>0, Zenon DEF Settled, SettledNow, Busy, BusyNow
    <3>3. proc_events' = proc_events /\ cache' = cache
      BY <1>u, <2>1, <2>9, Zenon
    <3> QED  BY <2>6, <3>1, <3>2, <3>3, Zenon DEF RingAt, RingNow
  <2> QED  BY <2>7, <2>8, <2>9
<1> QED  BY <1>1, <1>2, <1>3, <1>4, <1>5, <1>6, Zenon DEF KernelStep

\* No object changes its pid or its executable.
ExeKept == \A o \in 1 .. made : obj'[o].pid = obj[o].pid /\ obj'[o].exe = obj[o].exe

LEMMA HeadThere == ASSUME NEW s \in Seq(ProcRecords), s # <<>> PROVE ~Clear(s, Head(s).pid)
BY TailIs DEF Clear

\* A step that only changes locks, filters and flags.
LEMMA RingQuiet ==
    ASSUME ObjInv, ExeKept, UNCHANGED <<live, image, execing, proc_events, reader, procs, cache>>,
           NEW p \in Pids, RingAt(p)
    PROVE  RingNow(p)
<1>1. Busy(p) <=> BusyNow(p)
  BY Zenon DEF ObjInv, ExeKept, Busy, BusyNow
<1>2. procs[p] # NoObj => obj'[procs[p]].exe = obj[procs[p]].exe
  BY Zenon DEF ObjInv, ExeKept
<1>3. Busy(p) => obj'[reader.obj].exe = obj[reader.obj].exe
  BY Zenon DEF ObjInv, ExeKept, Busy
<1>4. Settled(p) => SettledNow(p)
  BY <1>1, <1>2, <1>3, Zenon DEF Settled, SettledNow
<1> QED  BY <1>1, <1>4, RingSame, Zenon

\* A record of another pid is handled.
LEMMA RingOther ==
    ASSUME ObjInv, ExeKept, UNCHANGED <<live, image, execing>>,
           proc_events \in Seq(ProcRecords), proc_events # <<>>, proc_events' = Tail(proc_events),
           NEW p \in Pids, Head(proc_events).pid # p, RingAt(p),
           reader.at = "idle", ~BusyNow(p), procs'[p] = procs[p], cache'[p] = cache[p]
    PROVE  RingNow(p)
<1>1. /\ Clear(proc_events, p) => Clear(proc_events', p)
      /\ \A k : EndsWith(proc_events, p, k) => EndsWith(proc_events', p, k)
      /\ \A c : Armed(proc_events, p, c) => Armed(proc_events', p, c)
  BY TailOther, Zenon
<1>2. Armed(proc_events, p, cache[p] # NoObj) => Armed(proc_events', p, cache'[p] # NoObj)
  BY <1>1, Zenon
<1>3. procs[p] # NoObj => obj'[procs[p]].exe = obj[procs[p]].exe
  BY Zenon DEF ObjInv, ExeKept
<1>4. Settled(p) => SettledNow(p)
  BY <1>3, ZenonT(30) DEF Settled, SettledNow, Busy
<1> QED  BY <1>1, <1>2, <1>4, RingSame, Zenon

\* One of the pid is handled.
LEMMA RingHandled ==
    ASSUME UNCHANGED <<live, image, execing>>,
           proc_events \in Seq(ProcRecords), proc_events # <<>>, proc_events' = Tail(proc_events),
           NEW p, Head(proc_events).pid = p, RingAt(p),
           Head(proc_events).kind = "start" => cache'[p] # NoObj,
           Head(proc_events).kind = "end" => (cache[p] # NoObj => SettledNow(p)),
           Head(proc_events).kind = "exit" => procs'[p] = NoObj /\ ~BusyNow(p)
    PROVE  RingNow(p)
<1>1. ~Clear(proc_events, p)
  BY HeadThere, Zenon
<1> DEFINE kind == Head(proc_events).kind
           ring == proc_events'
<1>2. /\ \A k : EndsWith(proc_events, p, k) => EndsWith(ring, p, k) \/ (kind = k /\ Clear(ring, p))
      /\ \A c, d : Armed(proc_events, p, c) /\ (kind = "start" => d) =>
           Armed(ring, p, d) \/ (kind = "end" /\ c /\ Clear(ring, p))
  <2> DEFINE rest == Tail(proc_events)
             here == Head(proc_events).pid
  <2>1. /\ \A k : EndsWith(proc_events, here, k) => EndsWith(rest, here, k) \/ (kind = k /\ Clear(rest, here))
        /\ \A c, d : Armed(proc_events, here, c) /\ (kind = "start" => d) =>
             Armed(rest, here, d) \/ (kind = "end" /\ c /\ Clear(rest, here))
    BY TailSame, ZenonT(30)
  <2>2. ring = rest /\ p = here
    OBVIOUS
  <2> HIDE DEF rest, here, ring, kind
  <2>3. ASSUME NEW k, EndsWith(proc_events, p, k) PROVE EndsWith(ring, p, k) \/ (kind = k /\ Clear(ring, p))
    BY <2>1, <2>2, <2>3
  <2>4. ASSUME NEW c, NEW d, Armed(proc_events, p, c), kind = "start" => d
        PROVE  Armed(ring, p, d) \/ (kind = "end" /\ c /\ Clear(ring, p))
    <3>1. Armed(proc_events, here, c)
      BY <2>2, <2>4
    <3>2. Armed(rest, here, d) \/ (kind = "end" /\ c /\ Clear(rest, here))
      BY <2>1, <2>4, <3>1, Zenon
    <3>3. Armed(rest, here, d) => Armed(ring, p, d)
      BY <2>2
    <3>4. Clear(rest, here) => Clear(ring, p)
      BY <2>2
    <3> QED  BY <3>2, <3>3, <3>4, Zenon
  <2> QED  BY <2>3, <2>4, Zenon
<1>3. Armed(proc_events, p, cache[p] # NoObj) =>
        Armed(ring, p, cache'[p] # NoObj) \/ (kind = "end" /\ cache[p] # NoObj /\ Clear(ring, p))
  BY <1>2, Zenon
<1> HIDE DEF kind, ring
<1>4. kind = "start" => cache'[p] # NoObj
  BY DEF kind
<1>5. kind = "end" => (cache[p] # NoObj => SettledNow(p))
  BY DEF kind
<1>6. kind = "exit" => procs'[p] = NoObj /\ ~BusyNow(p)
  BY DEF kind
<1>7. CASE live[p] = 0
  <2>1. EndsWith(ring, p, "exit") \/ (kind = "exit" /\ Clear(ring, p))
    BY <1>1, <1>2, <1>7, Zenon DEF RingAt
  <2>2. live'[p] = 0 /\ ~(live'[p] > 0)
    BY <1>7
  <2> QED  BY <1>6, <2>1, <2>2, Zenon DEF RingNow, ring
<1>8. CASE live[p] > 0 /\ execing[p] = NoObj
  <2>1. Armed(ring, p, cache'[p] # NoObj) \/ (kind = "end" /\ cache[p] # NoObj /\ Clear(ring, p))
    BY <1>1, <1>3, <1>8, Zenon DEF RingAt
  <2>2. live'[p] > 0 /\ execing'[p] = NoObj /\ live'[p] # 0
    BY <1>8
  <2> QED  BY <1>5, <2>1, <2>2, Zenon DEF RingNow, ring
<1>9. CASE live[p] > 0 /\ execing[p] # NoObj
  <2>1. EndsWith(ring, p, "start") \/ (kind = "start" /\ Clear(ring, p))
    BY <1>1, <1>2, <1>9, Zenon DEF RingAt
  <2>2. live'[p] > 0 /\ execing'[p] # NoObj /\ live'[p] # 0
    BY <1>9
  <2> QED  BY <1>4, <2>1, <2>2, Zenon DEF RingNow, ring
<1> QED
  <2>1. CASE ~(live[p] = 0) /\ ~(live[p] > 0)
    BY <2>1, Zenon DEF RingNow
  <2> QED  BY <1>7, <1>8, <1>9, <2>1

\* The manager handles the records, and finds what they stand for.
LEMMA RingReaderStep ==
    ASSUME KernelType, ManagerType, ObjectType, ObjInv, KeepInv, ReaderStep, Attached,
           NEW p \in Pids, RingAt(p)
    PROVE  RingNow(p)
<1>0. /\ 1 .. made \subseteq Objs /\ made \in Nat /\ NoObj \notin Objs
      /\ obj \in [Objs -> ProcessObjects] /\ reader \in Readers
      /\ procs \in [Pids -> MaybeObj] /\ cache \in [Pids -> MaybeObj]
      /\ proc_events \in Seq(ProcRecords)
  BY MadeIn DEF ObjectType, ManagerType, KernelType
<1>b. procs[p] # NoObj => procs[p] \in 1 .. made /\ procs[p] \in Objs /\ obj[procs[p]].pid = p
  BY <1>0 DEF ObjInv
<1>c. UNCHANGED <<live, image, execing>> /\ mgr = "running" /\ mgr # "preload"
  BY OthersFrame DEF Attached
<1> DEFINE q == Head(proc_events).pid
<1>1. CASE handleExecStartEvent
  <2>1. /\ q \in Pids /\ proc_events # <<>> /\ proc_events' = Tail(proc_events)
        /\ Head(proc_events).kind = "start" /\ reader.at = "idle" /\ reader' = reader /\ procs' = procs
    BY <1>1, RingTail DEF handleExecStartEvent, ProcRecords, Reads
  <2>2. /\ made < MaxObjs /\ made' = made + 1
        /\ obj' = [obj EXCEPT ![made'] = [Unmade EXCEPT !.pid = q, !.notifier = TRUE]]
        /\ cache' = [cache EXCEPT ![q] = made']
    BY <1>1, Zenon DEF handleExecStartEvent
  <2> HIDE DEF q
  <2>3. ExeKept
    BY <1>0, <2>2 DEF ExeKept
  <2>4. ~BusyNow(p)
    BY <2>1, Zenon DEF BusyNow
  <2>5. CASE p # q
    <3>1. cache'[p] = cache[p]
      BY <1>0, <2>2, <2>5
    <3> QED  BY <1>0, <1>c, <2>1, <2>3, <2>4, <2>5, <3>1, RingOther, Zenon DEF q
  <2>6. CASE p = q
    <3>1. made' \in Objs
      BY <1>0, <2>2, MadeIn
    <3>2. cache'[p] # NoObj
      BY <1>0, <2>1, <2>2, <2>6, <3>1
    <3>3. Head(proc_events).kind # "end" /\ Head(proc_events).kind # "exit"
      BY <2>1, Zenon
    <3> QED  BY <1>0, <1>c, <2>1, <2>6, <3>2, <3>3, RingHandled, Zenon DEF q
  <2> QED  BY <2>5, <2>6
<1>2. CASE handleExecEndEvent
  <2>1. /\ q \in Pids /\ proc_events # <<>> /\ proc_events' = Tail(proc_events)
        /\ Head(proc_events).kind = "end" /\ reader.at = "idle" /\ procs' = procs /\ made' = made
    BY <1>2, RingTail DEF handleExecEndEvent, ProcRecords, Reads
  <2> DEFINE o == IF procs[q] = NoObj THEN cache[q] ELSE procs[q]
  <2>2. /\ cache' = [cache EXCEPT ![q] = NoObj]
        /\ \/ cache[q] = NoObj /\ UNCHANGED <<reader, obj>>
           \/ /\ cache[q] # NoObj /\ obj' = [obj EXCEPT ![o].locked = TRUE]
              /\ reader' = [at |-> "discover", obj |-> o, exists |-> procs[q] # NoObj, data |-> NoObj]
    BY <1>2, Zenon DEF handleExecEndEvent
  <2>3. cache[q] # NoObj => o \in 1 .. made /\ o \in Objs /\ obj[o].pid = q
    BY <1>0, <2>1 DEF ObjInv
  <2> HIDE DEF q, o
  <2>4. ExeKept
    <3>1. \A x \in Objs : obj[x] \in ProcessObjects
      BY <1>0
    <3>2. CASE obj' = obj
      BY <3>2 DEF ExeKept
    <3>3. CASE obj' = [obj EXCEPT ![o].locked = TRUE]
      BY <1>0, <3>3 DEF ExeKept, ProcessObjects
    <3> QED  BY <2>2, <3>2, <3>3
  <2>5. BusyNow(p) => p = q
    <3>1. CASE reader' = reader
      BY <2>1, <3>1, Zenon DEF BusyNow
    <3>2. CASE cache[q] # NoObj /\ reader' = [at |-> "discover", obj |-> o, exists |-> procs[q] # NoObj, data |-> NoObj]
      BY <2>3, <2>4, <3>2 DEF BusyNow, ExeKept
    <3> QED  BY <2>2, <3>1, <3>2, Zenon
  <2>6. CASE p # q
    <3>1. cache'[p] = cache[p]
      BY <1>0, <2>2, <2>6
    <3> QED  BY <1>0, <1>c, <2>1, <2>4, <2>5, <2>6, <3>1, RingOther, Zenon DEF q
  <2>7. CASE p = q
    <3>1. ASSUME cache[p] # NoObj PROVE SettledNow(p)
      <4>1. reader'.at = "discover" /\ reader'.obj = o
        BY <2>2, <2>7, <3>1
      <4>2. obj'[o].pid = p
        BY <2>3, <2>4, <2>7, <3>1 DEF ExeKept
      <4> QED  BY <4>1, <4>2 DEF SettledNow, BusyNow
    <3>2. Head(proc_events).kind # "start" /\ Head(proc_events).kind # "exit"
      BY <2>1
    <3> QED  BY <1>0, <1>c, <2>1, <2>7, <3>1, <3>2, RingHandled, Zenon DEF q
  <2> QED  BY <2>6, <2>7
<1>3. CASE handleExitEvent
  <2>1. /\ q \in Pids /\ proc_events # <<>> /\ proc_events' = Tail(proc_events)
        /\ Head(proc_events).kind = "exit" /\ reader.at = "idle" /\ reader' = reader /\ made' = made
        /\ cache' = cache
    BY <1>3, RingTail DEF handleExitEvent, ProcRecords, Reads
  <2>2. \/ procs[q] = NoObj /\ UNCHANGED <<procs, obj>>
        \/ /\ obj' = [obj EXCEPT ![procs[q]].exited = TRUE] /\ procs' = [procs EXCEPT ![q] = NoObj]
    BY <1>3, Zenon DEF handleExitEvent
  <2> HIDE DEF q
  <2>3. ExeKept
    <3>1. CASE obj' = obj
      BY <3>1 DEF ExeKept
    <3>2. CASE obj' = [obj EXCEPT ![procs[q]].exited = TRUE]
      BY <1>0, <3>2 DEF ExeKept, ProcessObjects
    <3> QED  BY <2>2, <3>1, <3>2
  <2>4. ~BusyNow(p)
    BY <2>1, Zenon DEF BusyNow
  <2>5. CASE p # q
    <3>1. procs'[p] = procs[p]
      BY <1>0, <2>2, <2>5
    <3>2. cache'[p] = cache[p]
      BY <2>1
    <3> QED  BY <1>0, <1>c, <2>1, <2>3, <2>4, <2>5, <3>1, <3>2, RingOther, Zenon DEF q
  <2>6. CASE p = q
    <3>1. procs'[p] = NoObj
      BY <1>0, <2>2, <2>6
    <3>2. Head(proc_events).kind # "start" /\ Head(proc_events).kind # "end"
      BY <2>1
    <3> QED  BY <1>0, <1>c, <2>1, <2>4, <2>6, <3>1, <3>2, RingHandled, Zenon DEF q
  <2> QED  BY <2>5, <2>6
<1> HIDE DEF q
<1>4. CASE Discover \/ DiscoverPut \/ Store
  <2>1. reader.at # "idle" /\ UNCHANGED <<proc_events, cache, made>>
    BY <1>4, Zenon DEF Discover, DiscoverPut, Store, probeVars
  <2> DEFINE o == reader.obj
             r == obj[o].pid
  <2>2. o \in 1 .. made /\ o \in Objs /\ r \in Pids
    BY <1>0, <2>1, Zenon DEF ObjInv
  <2>3. /\ \A x \in Objs : x # o => obj'[x] = obj[x]
        /\ obj'[o].pid = r
        /\ reader'.at = "idle" \/ reader'.obj = o
        /\ \A x \in Pids : x # r => procs'[x] = procs[x]
    <3> HIDE DEF o, r
    <3>0. o = reader.obj /\ r = obj[o].pid /\ obj[o] \in ProcessObjects
      BY <1>0, <2>2 DEF o, r
    <3>1. CASE Discover
      <4> DEFINE now == Discovered(obj[o], r)
      <4>1. /\ \/ obj' = [obj EXCEPT ![o].locked = FALSE]
               \/ obj' = [obj EXCEPT ![o] = [now EXCEPT !.locked = obj[o].notifier]]
            /\ reader'.at = "idle" \/ reader'.obj = reader.obj
            /\ procs' = procs
        <5>1. /\ \/ obj' = [obj EXCEPT ![o].locked = FALSE]
                 \/ obj' = [obj EXCEPT ![o] = [now EXCEPT !.locked = obj[o].notifier]]
              /\ \/ \E d : reader' = [reader EXCEPT !.at = "put", !.data = d]
                 \/ reader' = [reader EXCEPT !.at = "store"]
                 \/ reader' = Reading
              /\ procs' = procs
          BY <3>0, <3>1, Zenon DEF Discover
        <5> HIDE DEF now
        <5>2. ASSUME NEW d, reader' = [reader EXCEPT !.at = "put", !.data = d] PROVE reader'.obj = reader.obj
          BY <1>0, <5>2 DEF Readers
        <5>3. reader' = [reader EXCEPT !.at = "store"] => reader'.obj = reader.obj
          BY <1>0 DEF Readers
        <5>4. reader' = Reading => reader'.at = "idle"
          BY DEF Reading
        <5> QED  BY <5>1, <5>2, <5>3, <5>4, Zenon
      <4>2. now.pid = r /\ "pid" \in DOMAIN now /\ DOMAIN now = DOMAIN obj[o]
        BY <3>0 DEF Discovered, ProcessObjects
      <4> HIDE DEF now
      <4>3. CASE obj' = [obj EXCEPT ![o].locked = FALSE]
        BY <1>0, <2>2, <3>0, <4>1, <4>3 DEF ProcessObjects
      <4>4. CASE obj' = [obj EXCEPT ![o] = [now EXCEPT !.locked = obj[o].notifier]]
        BY <1>0, <2>2, <3>0, <4>1, <4>2, <4>4
      <4> QED  BY <4>1, <4>3, <4>4
    <3>2. CASE DiscoverPut
      BY <1>0, <1>c, <2>2, <3>0, <3>2 DEF DiscoverPut, ProcessObjects, Readers, Reading
    <3>3. CASE Store
      BY <1>0, <1>c, <2>2, <3>0, <3>3 DEF Store, Reading
    <3> QED  BY <1>4, <3>1, <3>2, <3>3
  <2>4. CASE p # r
    <3>1. ~Busy(p) /\ ~BusyNow(p)
      BY <2>3, <2>4, Zenon DEF Busy, BusyNow
    <3>2. procs'[p] = procs[p] /\ (procs[p] # NoObj => procs[p] # o /\ obj'[procs[p]] = obj[procs[p]])
      BY <1>b, <2>3, <2>4
    <3>3. Settled(p) => SettledNow(p)
      BY <1>c, <3>1, <3>2, Zenon DEF Settled, SettledNow
    <3> QED  BY <1>c, <2>1, <3>1, <3>2, <3>3, RingSame, Zenon
  <2>5. CASE p = r
    <3>1. Busy(p)
      BY <2>1, <2>5 DEF Busy
    <3>2. live[p] > 0 => (Settled(p) => SettledNow(p))
      <4> SUFFICES ASSUME live[p] > 0, Settled(p) PROVE SettledNow(p)
        OBVIOUS
      <4>0. reader.at = "discover" \/ obj[o].exe = image[p]
        BY <3>1, Zenon DEF Settled
      <4>1. CASE Discover
        <5>0. live[p] # 0 /\ obj[o] \in ProcessObjects /\ live[p] \in Nat
          BY <1>0, <2>2 DEF KernelType
        <5> HIDE DEF o
        <5>1. reader'.at # "idle" /\ reader'.obj = o
          BY <1>0, <2>5, <4>1, <5>0, Zenon DEF Discover, Readers, o
        <5>2. obj'[o].exe = image[p]
          BY <1>0, <2>2, <2>5, <4>1, <5>0, ZenonT(30) DEF Discover, Discovered, ProcessObjects, o
        <5>3. obj'[o].pid = p
          BY <2>3, <2>5
        <5> QED  BY <1>c, <5>1, <5>2, <5>3 DEF SettledNow, BusyNow
      <4>2. CASE DiscoverPut
        <5>1. reader'.at # "idle" /\ reader'.obj = o /\ reader.at # "discover"
          BY <1>0, <1>c, <4>2 DEF DiscoverPut, Readers
        <5>2. obj'[o].exe = obj[o].exe
          BY <1>0, <1>c, <2>2, <4>2, ZenonT(30) DEF DiscoverPut, ProcessObjects
        <5> HIDE DEF o
        <5> QED  BY <1>c, <2>3, <2>5, <4>0, <5>1, <5>2 DEF SettledNow, BusyNow
      <4>3. CASE Store
        <5>1. reader'.at = "idle" /\ procs'[p] = o /\ obj' = obj /\ reader.at # "discover"
          BY <1>0, <1>c, <2>2, <2>5, <4>3 DEF Store, Reading
        <5>2. o # NoObj
          BY <1>0, <2>2
        <5> HIDE DEF o
        <5> QED  BY <1>c, <4>0, <5>1, <5>2 DEF SettledNow, BusyNow
      <4> QED  BY <1>4, <4>1, <4>2, <4>3
    <3> HIDE DEF o, r
    <3> QED  BY <1>c, <2>1, <3>1, <3>2, RingSame, Zenon
  <2> QED  BY <2>4, <2>5
<1> QED  BY <1>1, <1>2, <1>3, <1>4, Zenon DEF ReaderStep

\* Those who change a process, or wait for one, leave it the executable it has.
LEMMA RingOthers ==
    ASSUME KernelType, ManagerType, ObjectType, ObjInv, ChangeStep \/ ObserverStep,
           NEW p \in Pids, RingAt(p)
    PROVE  RingNow(p)
<1>0. 1 .. made \subseteq Objs /\ obj \in [Objs -> ProcessObjects]
  BY MadeIn DEF ObjectType
<1>1. UNCHANGED <<live, image, execing, proc_events, reader, procs, cache>>
  <2>1. UNCHANGED <<live, image, execing>>
    BY OthersFrame, Zenon
  <2>2. UNCHANGED <<proc_events, reader, procs, cache>>
    BY Zenon DEF ChangeStep, ObserverStep, SetTlsOkPut, SetTlsOk, SetConfig, UpdateFilterPut, UpdateFilter,
       AwaitSelect, AwaitTimeout, Await, NotifyWaiters, InitObserver, TellObserver, probeVars
  <2> QED  BY <2>1, <2>2
<1>2. ASSUME NEW o \in Objs, NEW v \in BOOLEAN, SetTlsOk(o, v) PROVE ExeKept
  <2>1. PICK l : obj' = [obj EXCEPT ![o] = [[obj[o] EXCEPT !.tls_ok = v] EXCEPT !.locked = l]]
    BY <1>2, Zenon DEF SetTlsOk
  <2> DEFINE n == [[obj[o] EXCEPT !.tls_ok = v] EXCEPT !.locked = l]
  <2>2. n.pid = obj[o].pid /\ n.exe = obj[o].exe
    BY <1>0 DEF ProcessObjects
  <2>3. obj' = [obj EXCEPT ![o] = n]
    BY <2>1
  <2> HIDE DEF n
  <2>4. \A x \in Objs : obj'[x] = IF x = o THEN n ELSE obj[x]
    BY <1>0, <2>3
  <2> QED  BY <1>0, <2>2, <2>4 DEF ExeKept
<1>3. ASSUME SetTlsOkPut PROVE ExeKept
  BY <1>0, <1>3 DEF SetTlsOkPut, ExeKept, ProcessObjects
<1>4. ASSUME NEW q \in Pids, UpdateFilter(q) PROVE ExeKept
  <2>1. obj' = obj \/ obj' = [obj EXCEPT ![procs[q]] = [obj[procs[q]] EXCEPT !.filter = TRUE]]
    BY <1>4, Zenon DEF UpdateFilter
  <2> QED  BY <1>0, <2>1 DEF ExeKept, ProcessObjects
<1>5. UpdateFilterPut \/ ObserverStep \/ (\E s \in SUBSET Images : SetConfig(s)) => ExeKept
  <2>1. UpdateFilterPut \/ ObserverStep \/ (\E s \in SUBSET Images : SetConfig(s)) => obj' = obj
    BY Zenon DEF ObserverStep, SetConfig, UpdateFilterPut,
       AwaitSelect, AwaitTimeout, Await, NotifyWaiters, InitObserver, TellObserver
  <2> QED  BY <2>1, Zenon DEF ExeKept
<1>6. ExeKept
  BY <1>2, <1>3, <1>4, <1>5, Zenon DEF ChangeStep
<1> QED  BY <1>1, <1>6, RingQuiet, Zenon

LEMMA RingStep ==
    ASSUME KernelType, ManagerType, ObjectType, ObjInv, KeepInv, CodeInv, RingInv, ProcNext
    PROVE  RingInv'
<1> SUFFICES ASSUME ~lost', Attached', NEW p \in whole' PROVE RingNow(p)
  <2> SUFFICES ASSUME ~lost', Attached' PROVE \A p \in whole' : RingAt(p)'
    BY Zenon DEF RingInv
  <2> QED  BY RingNowIs, Zenon
<1>0. whole \subseteq Pids
  BY DEF KernelType
<1>1. CASE KernelStep
  BY <1>0, <1>1, RingKernelStep, Zenon
<1>2. CASE StartStep
  <2>1. whole' = whole /\ ~Attached
    BY <1>2, OthersFrame, Zenon DEF StartStep, StartManager, Attach, Preload, Attached
  <2> QED  BY <2>1 DEF CodeInv
<1>3. CASE ReaderStep \/ ChangeStep \/ ObserverStep
  <2>0. lost' = lost /\ whole' = whole
    BY <1>3, OthersFrame
  <2>1. ~lost /\ p \in whole
    BY <2>0, Zenon
  <2>2. Attached
    BY <1>3, Zenon DEF Attached, ReaderStep, ChangeStep, ObserverStep,
           handleExecStartEvent, handleExecEndEvent, handleExitEvent, Discover, DiscoverPut, Store,
           SetTlsOkPut, SetTlsOk, SetConfig, UpdateFilterPut, UpdateFilter, AwaitSelect, AwaitTimeout,
           Await, NotifyWaiters, InitObserver, TellObserver
  <2>3. RingAt(p) /\ p \in Pids
    BY <1>0, <2>1, <2>2, Zenon DEF RingInv
  <2> QED  BY <1>3, <2>2, <2>3, RingReaderStep, RingOthers, Zenon
<1> QED  BY <1>1, <1>2, <1>3, StepKinds, Zenon

KnownInv == KeepInv /\ SetterInv /\ StartInv /\ MetaInv /\ RingInv

LEMMA KnownInitial == ProcInit => KnownInv
<1> SUFFICES ASSUME ProcInit PROVE KnownInv
  BY ZenonT(30)
<1>1. KeepInv
  BY Zenon DEF ProcInit, KeepInv, Reading, NoConfig, NotSetting
<1>2. SetterInv
  BY Zenon DEF ProcInit, SetterInv
<1>3. StartInv
  BY DEF ProcInit, StartInv, Reading, Attached
<1>4. MetaInv
  BY DEF ProcInit, MetaInv, Reading
<1>5. RingInv
  BY Zenon DEF ProcInit, RingInv
<1> QED  BY <1>1, <1>2, <1>3, <1>4, <1>5 DEF KnownInv

LEMMA KnownStutter ==
    ASSUME UNCHANGED procVars, KnownInv
    PROVE  KnownInv'
<1>1. KeepInv => KeepInv'
  BY Zenon DEF procVars, KeepInv, Stored
<1>2. SetterInv => SetterInv'
  BY Zenon DEF procVars, SetterInv
<1>3. StartInv => StartInv'
  BY Zenon DEF procVars, StartInv, Attached
<1>4. MetaInv => MetaInv'
  BY Zenon DEF procVars, MetaInv, KernelKnows, Pending, AllNotify, MetaOf
<1>5. RingInv => RingInv'
  <2>1. ASSUME NEW p, RingAt(p) PROVE RingAt(p)'
    <3>1. UNCHANGED <<live, execing, image, proc_events, reader, obj, procs, cache>>
      BY Zenon DEF procVars
    <3>2. RingNow(p)
      BY <2>1, <3>1, RingUser, RingSame, Zenon
    <3> QED  BY <3>2, RingNowIs, Zenon
  <2>2. lost' = lost /\ mgr' = mgr /\ whole' = whole
    BY Zenon DEF procVars
  <2> QED  BY <2>1, <2>2, Zenon DEF RingInv, Attached
<1> QED  BY <1>1, <1>2, <1>3, <1>4, <1>5, Zenon DEF KnownInv

LEMMA KnownInvariant == ProcSpec => [](TypeInv /\ ObjInv /\ CodeInv /\ KnownInv)
<1>1. TypeInv /\ ObjInv /\ CodeInv /\ KnownInv /\ [ProcNext]_procVars => KnownInv'
  <2>1. ASSUME TypeInv, ObjInv, CodeInv, KnownInv, ProcNext PROVE KnownInv'
    <3>0. /\ KernelType /\ ManagerType /\ ObjectType /\ MetaType /\ ObserverType
          /\ KeepInv /\ SetterInv /\ StartInv /\ MetaInv /\ RingInv
      BY <2>1 DEF TypeInv, KnownInv
    <3>1. KeepInv' /\ StartInv'
      BY <2>1, <3>0, KeepStep, StartInvStep, Zenon
    <3>2. SetterInv'
      BY <2>1, <3>0, SetterStep, Zenon
    <3>3. MetaInv' /\ RingInv'
      BY <2>1, <3>0, MetaStep, RingStep, Zenon
    <3> QED  BY <3>1, <3>2, <3>3, Zenon DEF KnownInv
  <2> QED  BY <2>1, KnownStutter, Zenon
<1> QED  BY <1>1, KnownInitial, ToldInvariant, PTL DEF ProcSpec

\* What the manager and process_meta_map know when nothing is under way:
\* handleExecStartEvent, handleExecEndEvent, handleExitEvent, addProc and the Puts
\* of SetMeta against the probes on execve and on the end of a task, for any number
\* of pids, images and Process objects.
THEOREM ProcessKnownWhenQuiet == ProcSpec => []KnownWhenQuiet
<1>1. TypeInv /\ ObjInv /\ CodeInv /\ KnownInv => KnownWhenQuiet
  <2> SUFFICES ASSUME TypeInv, ObjInv, CodeInv, KnownInv, ProcQuiet PROVE KnownWhenQuiet
    BY Zenon DEF KnownWhenQuiet
  <2>0. /\ Attached /\ proc_events = <<>> /\ reader.at = "idle"
        /\ setter.obj = NoObj /\ config.obj = NoObj
        /\ procs \in [Pids -> MaybeObj] /\ 1 .. made \subseteq Objs /\ NoObj \notin Objs
    BY MadeIn DEF ProcQuiet, Reading, NoConfig, NotSetting, TypeInv, ManagerType
  <2>1. ASSUME ~lost, NEW p \in whole
        PROVE  /\ live[p] = 0 => procs[p] = NoObj
               /\ live[p] > 0 /\ execing[p] = NoObj => procs[p] # NoObj /\ obj[procs[p]].exe = image[p]
    <3>1. RingAt(p)
      BY <2>0, <2>1, Zenon DEF KnownInv, RingInv
    <3>2. DOMAIN proc_events = {}
      BY <2>0
    <3>3. ~EndsWith(proc_events, p, "exit") /\ ~Armed(proc_events, p, cache[p] # NoObj) /\ ~Busy(p)
      BY <2>0, <3>2, Zenon DEF EndsWith, Armed, Busy
    <3> QED  BY <3>1, <3>3, Zenon DEF RingAt, Settled
  <2>2. ASSUME ~overtaken, NEW p \in Pids
        PROVE  /\ procs[p] # NoObj => (obj[procs[p]].notifier => meta[p] = MetaOf(obj[procs[p]]))
               /\ procs[p] = NoObj /\ (\A o \in 1 .. made : obj[o].pid = p => obj[o].notifier) => meta[p] = NoObj
    <3>1. MetaInv
      BY DEF KnownInv
    <3>2. procs[p] # NoObj => ~Pending(procs[p])
      BY <2>0, Zenon DEF Pending
    <3> QED  BY <2>0, <2>2, <3>1, <3>2, Zenon DEF MetaInv, KernelKnows, AllNotify
  <2> QED  BY <2>1, <2>2, ZenonT(30) DEF KnownWhenQuiet
<1> QED  BY <1>1, KnownInvariant, PTL
=============================================================================
