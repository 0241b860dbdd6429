------------------------- MODULE ConnManagerProofs --------------------------
(***************************************************************************)
(* Proofs about ConnManager for any sets of cookies and events and any     *)
(* number of connections.  The inductive invariant and its first two parts *)
(* come first: every step keeps the types, and the map holds exactly the   *)
(* connections that have not removed themselves.                           *)
(***************************************************************************)
EXTENDS ConnManager, PriorityListProofs

-----------------------------------------------------------------------------
(* The inductive invariant.                                                *)

\* A number that has not been given to a connection yet.
Unborn(i) ==
    /\ wpc[i] = "none" /\ items[i] = <<>>
    /\ ~closed[i] /\ ~draining[i]
    /\ lost[i] = {} /\ ~held[i] /\ ~released[i]

\* The map holds exactly the connections that have not removed themselves.
MapInv ==
    /\ \A i \in Instances : i > made => Unborn(i)
    /\ \A k \in Cookies : connections[k] # None =>
          LET i == connections[k]
          IN  key[i] = k /\ ~closed[i] /\ wpc[i] \in {"none", "next", "finalize"}
    /\ \A i \in 1 .. made :
          (wpc[i] = "finalize" \/ (wpc[i] \in {"none", "next"} /\ ~closed[i]))
              => connections[key[i]] = i
    /\ call[Reader].at = "await" => connections[call[Reader].key] = None /\ made < MaxConns
    /\ call[Reader].at = "open" => wpc[call[Reader].conn] = "none"

\* A closed queue is empty, and is closed by Connection.Close only.
ClosedInv ==
    /\ \A i \in Instances : closed[i] =>
          items[i] = <<>> /\ wpc[i] \in {"stream", "services", "next", "exit"}
    /\ \A i \in Instances : wpc[i] \in {"stream", "services", "exit"} => closed[i]

\* The hold of a redirected connection ends with its done event.
HoldInv ==
    \A i \in 1 .. made : key[i] \in Redirected =>
        /\ held[i] \/ released[i]
        /\ (wpc[i] \in Closing \cup {"exit"} \/ closed[i]) => released[i]

\* The queue is sorted, and from the moment Connection.Close begins it holds
\* no older event but close and done events.
Late(i, item) == item.id > began[i] \/ item.ev.kind \in {"Close", "Done"}
Backlog == {"finalize", "drain", "draining", "shut"}
QueueInv ==
    /\ \A i \in Instances : Ordered(items[i]) /\ DistinctIds(items[i])
    /\ \A i \in Instances : began[i] <= pushed[i]
    /\ \A i \in Instances : wpc[i] \in Backlog =>
          \A j \in 1 .. Len(items[i]) : Late(i, items[i][j])
    /\ \A i \in Instances : ~closed[i] => lost[i] = {}
    /\ \A i \in Instances : \A item \in lost[i] : Late(i, item)

IInv == TypeOK /\ MapInv /\ ClosedInv /\ HoldInv /\ QueueInv

-----------------------------------------------------------------------------
(* Type correctness.                                                       *)

\* An event has the priority of one of the five classes.
LEMMA Priorities ==
    /\ \A kind : QueuePriority(kind) \in {1, 3, 5, 10, Lowest}
    /\ Numbered(Item)
<1>1. \A kind : QueuePriority(kind) \in {1, 3, 5, 10, Lowest}
  BY Zenon DEF QueuePriority
<1>2. \A x \in Item : x.prio \in {1, 3, 5, 10, Lowest} /\ x.id \in Nat
  BY Zenon DEF Item
<1>3. {1, 3, 5, 10, Lowest} \subseteq Int
  BY ManagerAssumption
<1>4. QED
  BY <1>1, <1>2, <1>3 DEF Numbered

LEMMA InitTypes == Init => TypeOK
<1> SUFFICES ASSUME Init PROVE TypeOK
  BY Zenon
<1>1. MapType
  <2>1. made = 0 /\ connections = [k \in Cookies |-> 0] /\ DOMAIN key = Instances
    BY Zenon DEF Init, None
  <2>2. MaxConns \in Nat
    BY ManagerAssumption, Zenon
  <2>3. made \in 0 .. MaxConns
    BY <2>1, <2>2
  <2>4. connections \in [Cookies -> 0 .. made]
    BY <2>1
  <2>5. 1 .. made = {}
    BY <2>1
  <2>6. QED
    BY <2>1, <2>3, <2>4, <2>5, Zenon DEF MapType
<1>2. QueueType
  <2>1. <<>> \in Seq(Item) /\ Len(<<>>) = 0
    BY EmptySeq, Zenon
  <2>2. items \in [Instances -> Seq(Item)]
    BY <2>1, Zenon DEF Init
  <2>3. \A i \in Instances : Len(items[i]) = 0
    BY <2>1, Zenon DEF Init
  <2>4. /\ draining \in [Instances -> BOOLEAN] /\ closed \in [Instances -> BOOLEAN]
        /\ pushed \in [Instances -> Nat] /\ began \in [Instances -> Nat]
    BY Zenon DEF Init
  <2>5. QED
    BY <2>2, <2>3, <2>4 DEF QueueType
<1>3. ConnType
  BY Zenon DEF Init, ConnType, HandlerTypes, Protocols
<1>4. CallType
  <2>1. Idle \in Call /\ Idle.at = "idle"
    BY ManagerAssumption DEF Call, Idle, InCall, Ev, None
  <2>2. call = [s \in Sources |-> Idle] /\ sent = 0 /\ finished = {}
    BY Zenon DEF Init
  <2>3. QED
    BY <2>1, <2>2, Zenon DEF CallType
<1>5. QED
  BY <1>1, <1>2, <1>3, <1>4, Zenon DEF TypeOK

\* A call of HandleEvent by any of the sources.
Handle(s, k, e) == HandleEvent(s, k, e) /\ finished' \subseteq Redirected

\* The handlers that keep watch waiting for events.
Quiet(i) ==
    \/ ProcessProtocolEvent(i) \/ ProcessDataEvent(i)
    \/ ProcessHandlerTypeEvent(i) \/ ProcessInfoEvent(i)

\* What a step can be.
LEMMA StepKinds ==
    ASSUME TypeOK, [Next]_vars
    PROVE  \/ \E k \in Cookies : OpenEvent(k)
           \/ \E found \in BOOLEAN : NewConnection(found)
           \/ Open
           \/ SetupReporters
           \/ \E s \in Sources, k \in Cookies, e \in Event : Handle(s, k, e)
           \/ \E s \in Sources : PushEvent(s)
           \/ \E i \in Instances : Quiet(i)
           \/ \E i \in Instances : ProcessReturns(i)
           \/ \E i \in Instances : ProcessCloseEvent(i) \/ ProcessDoneEvent(i)
           \/ \E i \in Instances : CloseSteps(i)
           \/ \E i \in Instances : WatchReturns(i)
           \/ UNCHANGED vars
<1>1. /\ Redirected \subseteq Cookies /\ ReaderEvents \subseteq Event /\ MainEvents \subseteq Event
      /\ EngineEvents \subseteq Event
  BY ManagerAssumption, Zenon
<1>2. Ev("Done") \in Event /\ Ev("Data") \in Event
  BY Zenon DEF Ev, Event
<1>3. finished \subseteq Redirected
  BY Zenon DEF TypeOK, CallType
<1>4. ASSUME NEW k \in Redirected
      PROVE  Main(k) \in Sources /\ \A dir \in Directions : Tee(k, dir) \in Sources
  BY Zenon DEF Sources, Directions
<1>5. Reader \in Sources /\ Engine \in Sources
  BY Zenon DEF Sources
<1>6. ASSUME NEW k \in Cookies, NEW e \in ReaderEvents, ReaderEvent(k, e)
      PROVE  \E s \in Sources, kk \in Cookies, ee \in Event : Handle(s, kk, ee)
  BY <1>1, <1>3, <1>5, <1>6, Zenon DEF ReaderEvent, Handle
<1>7. ASSUME NEW k \in Redirected, NEW k2 \in Cookies, NEW e \in MainEvents, MainEvent(k, k2, e)
      PROVE  \E s \in Sources, kk \in Cookies, ee \in Event : Handle(s, kk, ee)
  <2>1. Handle(Main(k), k2, e)
    BY <1>3, <1>7, Zenon DEF MainEvent, Handle
  <2>2. QED
    BY <2>1, <1>1, <1>4, Zenon
<1>8. ASSUME NEW k \in Redirected, DoneEvent(k)
      PROVE  \E s \in Sources, kk \in Cookies, ee \in Event : Handle(s, kk, ee)
  <2>1. Handle(Main(k), k, Ev("Done"))
    BY <1>3, <1>8, Zenon DEF DoneEvent, Handle
  <2>2. QED
    BY <2>1, <1>1, <1>2, <1>4, Zenon
<1>9. ASSUME NEW k \in Redirected, NEW dir \in Directions, TeeEvent(k, dir)
      PROVE  \E s \in Sources, kk \in Cookies, ee \in Event : Handle(s, kk, ee)
  <2>1. Handle(Tee(k, dir), k, Ev("Data"))
    BY <1>3, <1>9, Zenon DEF TeeEvent, Handle
  <2>2. QED
    BY <2>1, <1>1, <1>2, <1>4, Zenon
<1>10. ASSUME NEW k \in Cookies, NEW e \in EngineEvents, EngineEvent(k, e)
       PROVE  \E s \in Sources, kk \in Cookies, ee \in Event : Handle(s, kk, ee)
  BY <1>1, <1>3, <1>5, <1>10, Zenon DEF EngineEvent, Handle
<1>11. QED
  BY <1>6, <1>7, <1>8, <1>9, <1>10, Zenon DEF Next, ReaderSteps, Watch, Quiet

\* The return of the stream's Process.
LEMMA ReturnFrame ==
    ASSUME NEW i, ProcessReturns(i)
    PROVE  UNCHANGED <<mapvars, queuevars, held, closeEvent, handler, protocol, svcvars, wpc,
                       call, sent, finished, began, lost, released>>
  BY Zenon DEF ProcessReturns, srcvars, histvars

\* The numbers of connections, and the bound.
LEMMA Numbers ==
    ASSUME MapType
    PROVE  /\ MaxConns \in Nat /\ made \in Nat /\ made <= MaxConns
           /\ 1 .. made \subseteq Instances
  BY ManagerAssumption DEF MapType, Instances

\* Steps that leave the map alone.
LEMMA MapUnchanged ==
    /\ \A k : OpenEvent(k) => UNCHANGED mapvars
    /\ Open \/ SetupReporters => UNCHANGED mapvars
    /\ \A s, k, e : Handle(s, k, e) => UNCHANGED mapvars
    /\ \A s : PushEvent(s) => UNCHANGED mapvars
    /\ \A i : Quiet(i) \/ ProcessCloseEvent(i) \/ ProcessDoneEvent(i) => UNCHANGED mapvars
    /\ \A i : ProcessReturns(i) => UNCHANGED mapvars
    /\ \A i : CloseSteps(i) => Finalize(i) \/ UNCHANGED mapvars
    /\ \A i : WatchReturns(i) => UNCHANGED mapvars
    /\ UNCHANGED vars => UNCHANGED mapvars
<1>1. \A k : OpenEvent(k) => UNCHANGED mapvars
  BY Zenon DEF OpenEvent
<1>2. Open \/ SetupReporters => UNCHANGED mapvars
  BY Zenon DEF Open, SetupReporters
<1>3. \A s, k, e : Handle(s, k, e) => UNCHANGED mapvars
  BY Zenon DEF Handle, HandleEvent
<1>4. \A s : PushEvent(s) => UNCHANGED mapvars
  BY Zenon DEF PushEvent
<1>5. \A i : Quiet(i) \/ ProcessCloseEvent(i) \/ ProcessDoneEvent(i) => UNCHANGED mapvars
  BY Zenon DEF Quiet, ProcessProtocolEvent, ProcessDataEvent, ProcessHandlerTypeEvent,
         ProcessInfoEvent, ProcessCloseEvent, ProcessDoneEvent, Take
<1>6. \A i : CloseSteps(i) => Finalize(i) \/ UNCHANGED mapvars
  BY Zenon DEF CloseSteps, Drain, DrainReturn, CloseQueue, CloseStream, CloseServices
<1>7. \A i : WatchReturns(i) => UNCHANGED mapvars
  BY Zenon DEF WatchReturns
<1>8. UNCHANGED vars => UNCHANGED mapvars
  BY Zenon DEF vars
<1>9. \A i : ProcessReturns(i) => UNCHANGED mapvars
  BY ReturnFrame, Zenon
<1>10. QED
  BY <1>1, <1>2, <1>3, <1>4, <1>5, <1>6, <1>7, <1>8, <1>9, Zenon

LEMMA NewConnectionMap ==
    ASSUME TypeOK, MapInv, NEW found \in BOOLEAN, NewConnection(found)
    PROVE  /\ made' = made + 1 /\ made' \in Instances
           /\ call[Reader].key \in Cookies
           /\ connections' = [connections EXCEPT ![call[Reader].key] = made']
           /\ key' = [key EXCEPT ![made'] = call[Reader].key]
           /\ \A i \in 1 .. made : key'[i] = key[i]
           /\ key'[made'] = call[Reader].key
           /\ MapType'
<1>1. made < MaxConns /\ call[Reader].key \in Cookies
  BY Zenon DEF MapInv, NewConnection, TypeOK, CallType, Sources
<1>2. made' = made + 1 /\ made \in Nat /\ MaxConns \in Nat
  BY Numbers, Zenon DEF NewConnection, TypeOK
<1>3. made' \in Instances /\ made' \in 0 .. MaxConns
  BY <1>1, <1>2 DEF Instances
<1>4. /\ connections' = [connections EXCEPT ![call[Reader].key] = made']
      /\ key' = [key EXCEPT ![made'] = call[Reader].key]
  BY Zenon DEF NewConnection
<1>5. connections' \in [Cookies -> 0 .. made']
  <2>1. connections \in [Cookies -> 0 .. made]
    BY Zenon DEF TypeOK, MapType
  <2>2. 0 .. made \subseteq 0 .. made' /\ made' \in 0 .. made'
    BY <1>2
  <2>3. QED
    BY <2>1, <2>2, <1>4, Zenon
<1>6. DOMAIN key = Instances /\ \A i \in 1 .. made : key[i] \in Cookies
  BY Zenon DEF TypeOK, MapType
<1>7. \A i \in 1 .. made : key'[i] = key[i]
  BY <1>2, <1>4, <1>6, Numbers DEF TypeOK
<1>8. key'[made'] = call[Reader].key
  BY <1>3, <1>4, <1>6, Zenon
<1>9. DOMAIN key' = Instances /\ \A i \in 1 .. made' : key'[i] \in Cookies
  BY <1>1, <1>2, <1>4, <1>6, <1>7, <1>8
<1>10. QED
  BY <1>1, <1>2, <1>3, <1>4, <1>5, <1>7, <1>8, <1>9, Zenon DEF MapType

LEMMA MapTypeStep ==
    ASSUME TypeOK, MapInv, [Next]_vars
    PROVE  MapType'
<1>1. ASSUME UNCHANGED mapvars PROVE MapType'
  BY <1>1, Zenon DEF mapvars, MapType, TypeOK
<1>2. ASSUME NEW found \in BOOLEAN, NewConnection(found) PROVE MapType'
  BY <1>2, NewConnectionMap, Zenon
<1>3. ASSUME NEW i \in Instances, Finalize(i) PROVE MapType'
  <2>1. /\ connections' = [connections EXCEPT ![key[i]] = 0]
        /\ made' = made /\ key' = key
    BY <1>3, Zenon DEF Finalize, None
  <2>2. connections \in [Cookies -> 0 .. made] /\ 0 \in 0 .. made
    BY Numbers DEF TypeOK, MapType
  <2>3. connections' \in [Cookies -> 0 .. made]
    BY <2>1, <2>2, Zenon
  <2>4. QED
    BY <2>1, <2>3, Zenon DEF TypeOK, MapType
<1>4. QED
  BY <1>1, <1>2, <1>3, MapUnchanged, StepKinds, Zenon

\* What Next leaves in the queues.
LEMMA TakeQueues ==
    ASSUME TypeOK, NEW i \in Instances, items[i] # <<>>,
           items' = [items EXCEPT ![i] = Tail(items[i])]
    PROVE  /\ items' \in [Instances -> Seq(Item)]
           /\ items'[i] = Tail(items[i])
           /\ \A n \in Instances : n # i => items'[n] = items[n]
           /\ \A n \in Instances : \A j \in 1 .. Len(items'[n]) :
                 \E l \in 1 .. Len(items[n]) : items'[n][j] = items[n][l]
<1>1. items \in [Instances -> Seq(Item)]
  BY Zenon DEF TypeOK, QueueType
<1>2. /\ Tail(items[i]) \in Seq(Item) /\ Len(Tail(items[i])) = Len(items[i]) - 1
      /\ \A j \in 1 .. Len(items[i]) - 1 : Tail(items[i])[j] = items[i][j + 1]
      /\ Len(items[i]) \in Nat
  BY <1>1, TailElements
<1>3. /\ items' \in [Instances -> Seq(Item)]
      /\ items'[i] = Tail(items[i])
      /\ \A n \in Instances : n # i => items'[n] = items[n]
  BY <1>1, <1>2, Zenon
<1>4. ASSUME NEW j \in 1 .. Len(items'[i])
      PROVE  \E l \in 1 .. Len(items[i]) : items'[i][j] = items[i][l]
  <2>1. j + 1 \in 1 .. Len(items[i]) /\ items'[i][j] = items[i][j + 1]
    BY <1>2, <1>3
  <2>2. QED
    BY <2>1, Zenon
<1>5. QED
  BY <1>3, <1>4

\* What Push leaves in the queues: one more event, with the next number.
LEMMA PushQueues ==
    ASSUME TypeOK, QueueInv, NEW s \in Sources, PushEvent(s), ~ UNCHANGED <<items, pushed>>
    PROVE  LET i == call[s].conn
               item == [id |-> pushed[i] + 1, prio |-> QueuePriority(call[s].ev.kind),
                        ev |-> call[s].ev]
           IN  /\ i \in 1 .. made /\ i \in Instances /\ ~draining[i] /\ ~closed[i]
               /\ item \in Item
               /\ pushed' = [pushed EXCEPT ![i] = @ + 1]
               /\ items' \in [Instances -> Seq(Item)]
               /\ \A n \in Instances : n # i => items'[n] = items[n]
               /\ Ordered(items'[i]) /\ DistinctIds(items'[i])
               /\ \A j \in 1 .. Len(items'[i]) :
                     \/ items'[i][j] = item
                     \/ \E l \in 1 .. Len(items[i]) : items'[i][j] = items[i][l]
<1> DEFINE i == call[s].conn
           e == call[s].ev
           item == [id |-> pushed[i] + 1, prio |-> QueuePriority(e.kind), ev |-> e]
<1>1. /\ i \in 1 .. made /\ e \in Event /\ i \in Instances
  BY Numbers, Zenon DEF PushEvent, TypeOK, CallType
<1>2. /\ ~draining[i] /\ ~closed[i]
      /\ pushed' = [pushed EXCEPT ![i] = @ + 1]
  BY Zenon DEF PushEvent
<1>3. PICK pos \in 1 .. Len(items[i]) + 1 :
          /\ InsertionPoint(items[i], item.prio, pos)
          /\ items' = [items EXCEPT ![i] = LinkAt(items[i], pos, item)]
  BY Zenon DEF PushEvent
<1>4. /\ items \in [Instances -> Seq(Item)] /\ items[i] \in Seq(Item)
      /\ pushed[i] \in Nat
      /\ \A j \in 1 .. Len(items[i]) : items[i][j].id <= pushed[i]
  BY <1>1, Zenon DEF TypeOK, QueueType
<1>5. item \in Item /\ item.id = pushed[i] + 1
  BY <1>1, <1>4, Priorities DEF Item
<1> DEFINE list == LinkAt(items[i], pos, item)
<1> HIDE DEF item, i, e
<1>6. \A j \in 1 .. Len(items[i]) : items[i][j] \in Item /\ items[i][j].id \in Int
  BY <1>4, Priorities, ElementOfSeq, Zenon DEF Numbered
<1>7. \A j \in 1 .. Len(items[i]) : items[i][j].id < item.id
  BY <1>4, <1>5, <1>6
<1>8. Ordered(items[i]) /\ DistinctIds(items[i])
  BY <1>1, Zenon DEF QueueInv
<1>9. InsertWithPriority(items[i], item, list)
  BY <1>3, Zenon DEF InsertWithPriority
<1>10. items' = [items EXCEPT ![i] = list]
  BY <1>3, Zenon
<1> HIDE DEF list
<1>11. /\ list \in Seq(Item)
       /\ Ordered(list) /\ DistinctIds(list)
       /\ Range(list) = Range(items[i]) \cup {item}
  BY <1>4, <1>5, <1>7, <1>8, <1>9, Priorities, InsertKeepsOrder, Zenon
<1>12. /\ items'[i] = list
       /\ items' \in [Instances -> Seq(Item)]
       /\ \A n \in Instances : n # i => items'[n] = items[n]
  BY <1>1, <1>4, <1>10, <1>11, Zenon
<1>13. DOMAIN list = 1 .. Len(list) /\ DOMAIN items[i] = 1 .. Len(items[i])
  BY <1>4, <1>11
<1>14. ASSUME NEW j \in 1 .. Len(list)
       PROVE  list[j] = item \/ \E l \in 1 .. Len(items[i]) : list[j] = items[i][l]
  BY <1>11, <1>13, Zenon DEF Range
<1>15. QED
  BY <1>1, <1>2, <1>5, <1>11, <1>12, <1>14, Zenon DEF i, item, e

qbvars == <<queuevars, began>>

\* Steps that leave the queues alone.
LEMMA QueueUnchanged ==
    /\ \A k : OpenEvent(k) => UNCHANGED qbvars
    /\ \A found : NewConnection(found) => UNCHANGED qbvars
    /\ Open \/ SetupReporters => UNCHANGED qbvars
    /\ \A s, k, e : Handle(s, k, e) => UNCHANGED qbvars
    /\ \A i : CloseSteps(i) => Drain(i) \/ CloseQueue(i) \/ UNCHANGED qbvars
    /\ \A i : WatchReturns(i) => UNCHANGED qbvars
    /\ \A i : ProcessReturns(i) => UNCHANGED qbvars
    /\ UNCHANGED vars => UNCHANGED qbvars
<1>1. \A k : OpenEvent(k) => UNCHANGED qbvars
  BY Zenon DEF OpenEvent, qbvars, histvars
<1>2. \A found : NewConnection(found) => UNCHANGED qbvars
  BY Zenon DEF NewConnection, qbvars, histvars
<1>3. Open \/ SetupReporters => UNCHANGED qbvars
  BY Zenon DEF Open, SetupReporters, qbvars, histvars
<1>4. \A s, k, e : Handle(s, k, e) => UNCHANGED qbvars
  BY Zenon DEF Handle, HandleEvent, qbvars, histvars
<1>5. \A i : CloseSteps(i) => Drain(i) \/ CloseQueue(i) \/ UNCHANGED qbvars
  BY Zenon DEF CloseSteps, Finalize, DrainReturn, CloseStream, CloseServices, qbvars, histvars
<1>6. \A i : WatchReturns(i) => UNCHANGED qbvars
  BY Zenon DEF WatchReturns, qbvars, histvars
<1>7. UNCHANGED vars => UNCHANGED qbvars
  BY Zenon DEF vars, qbvars, histvars
<1>8. \A i : ProcessReturns(i) => UNCHANGED qbvars
  BY ReturnFrame, Zenon DEF qbvars
<1>9. QED
  BY <1>1, <1>2, <1>3, <1>4, <1>5, <1>6, <1>7, <1>8, Zenon

\* What the handlers do to the queue and to watch.
LEMMA TakeStep ==
    ASSUME NEW i \in Instances, Quiet(i) \/ ProcessCloseEvent(i) \/ ProcessDoneEvent(i)
    PROVE  /\ wpc[i] = "next" /\ items[i] # <<>>
           /\ items' = [items EXCEPT ![i] = Tail(items[i])]
           /\ UNCHANGED <<mapvars, draining, closed, pushed, srcvars, svcvars, lost>>
           /\ \/ UNCHANGED <<wpc, began>>
              \/ /\ wpc' = [wpc EXCEPT ![i] = "finalize"]
                 /\ began' = [began EXCEPT ![i] = pushed[i]]
                 /\ \/ Head(items[i]).ev.kind = "Close" /\ ~held[i]
                    \/ Head(items[i]).ev.kind = "Done"
<1>1. CASE Quiet(i)
  BY <1>1, Zenon DEF Quiet, ProcessProtocolEvent, ProcessDataEvent, ProcessHandlerTypeEvent,
              ProcessInfoEvent, IsNext, Take, Stay, histvars
<1>2. CASE ProcessCloseEvent(i)
  BY <1>2, Zenon DEF ProcessCloseEvent, EnterClose, IsNext, Take
<1>3. CASE ProcessDoneEvent(i)
  BY <1>3, Zenon DEF ProcessDoneEvent, EnterClose, IsNext, Take
<1>4. QED
  BY <1>1, <1>2, <1>3, Zenon

QueueElements(i) ==
    \A j \in 1 .. Len(items[i]) :
        /\ items[i][j].prio = QueuePriority(items[i][j].ev.kind)
        /\ items[i][j].id <= pushed[i]

LEMMA QueueTypeStep ==
    ASSUME TypeOK, QueueInv, [Next]_vars
    PROVE  QueueType'
<1>0. /\ items \in [Instances -> Seq(Item)]
      /\ draining \in [Instances -> BOOLEAN] /\ closed \in [Instances -> BOOLEAN]
      /\ pushed \in [Instances -> Nat] /\ began \in [Instances -> Nat]
      /\ \A n \in Instances : QueueElements(n)
  BY Zenon DEF TypeOK, QueueType, QueueElements
<1>1. ASSUME UNCHANGED qbvars PROVE QueueType'
  BY <1>1, Zenon DEF qbvars, queuevars, QueueType, TypeOK
<1>2. ASSUME NEW s \in Sources, PushEvent(s) PROVE QueueType'
  <2>1. UNCHANGED <<draining, closed, began>>
    BY <1>2, Zenon DEF PushEvent, histvars
  <2>2. CASE UNCHANGED <<items, pushed>>
    BY <1>1, <2>1, <2>2, Zenon DEF qbvars, queuevars
  <2>3. CASE ~ UNCHANGED <<items, pushed>>
    <3>0. PICK i \in Instances : i = call[s].conn
      BY <1>2, <2>3, PushQueues, Zenon
    <3> DEFINE item == [id |-> pushed[i] + 1, prio |-> QueuePriority(call[s].ev.kind),
                       ev |-> call[s].ev]
    <3>1. /\ i \in Instances /\ item \in Item
          /\ pushed' = [pushed EXCEPT ![i] = @ + 1]
          /\ items' \in [Instances -> Seq(Item)]
          /\ \A n \in Instances : n # i => items'[n] = items[n]
          /\ \A j \in 1 .. Len(items'[i]) :
                \/ items'[i][j] = item
                \/ \E l \in 1 .. Len(items[i]) : items'[i][j] = items[i][l]
      BY <1>2, <2>3, <3>0, PushQueues, Zenon
    <3>2. item.id = pushed[i] + 1 /\ item.prio = QueuePriority(item.ev.kind)
      BY Zenon
    <3>3. \A n \in Instances : \A j \in 1 .. Len(items[n]) : items[n][j].id \in Int
      BY <1>0, Priorities, ElementOfSeq, Zenon DEF Numbered
    <3> HIDE DEF item
    <3>4. pushed' \in [Instances -> Nat] /\ pushed'[i] = pushed[i] + 1
          /\ \A n \in Instances : n # i => pushed'[n] = pushed[n]
      BY <1>0, <3>1
    <3>5. ASSUME NEW n \in Instances, n # i PROVE QueueElements(n)'
      <4>1. items'[n] = items[n] /\ pushed'[n] = pushed[n] /\ QueueElements(n)
        BY <1>0, <3>1, <3>4, <3>5, Zenon
      <4>2. QED
        BY <4>1, Zenon DEF QueueElements
    <3>6. QueueElements(i)'
      <4> SUFFICES ASSUME NEW j \in 1 .. Len(items'[i])
                   PROVE  /\ items'[i][j].prio = QueuePriority(items'[i][j].ev.kind)
                          /\ items'[i][j].id <= pushed'[i]
        BY Zenon DEF QueueElements
      <4>1. CASE items'[i][j] = item
        BY <4>1, <3>1, <3>2, <3>4, <1>0
      <4>2. ASSUME NEW l \in 1 .. Len(items[i]), items'[i][j] = items[i][l]
            PROVE  /\ items'[i][j].prio = QueuePriority(items'[i][j].ev.kind)
                   /\ items'[i][j].id <= pushed'[i]
        <5>1. /\ items[i][l].prio = QueuePriority(items[i][l].ev.kind)
              /\ items[i][l].id <= pushed[i] /\ items[i][l].id \in Int
          BY <1>0, <3>1, <3>3, Zenon DEF QueueElements
        <5>2. pushed[i] \in Nat
          BY <1>0, <3>1, Zenon
        <5>3. QED
          BY <4>2, <5>1, <5>2, <3>4
      <4>3. QED
        BY <4>1, <4>2, <3>1, Zenon
    <3>7. \A n \in Instances : QueueElements(n)'
      BY <3>5, <3>6, Zenon
    <3>8. QED
      BY <1>0, <2>1, <3>1, <3>4, <3>7, Zenon DEF QueueType, QueueElements
  <2>4. QED
    BY <2>2, <2>3, Zenon
<1>3. ASSUME NEW i \in Instances, Quiet(i) \/ ProcessCloseEvent(i) \/ ProcessDoneEvent(i)
      PROVE  QueueType'
  <2>1. /\ items[i] # <<>> /\ items' = [items EXCEPT ![i] = Tail(items[i])]
        /\ UNCHANGED <<draining, closed, pushed>>
        /\ UNCHANGED began \/ began' = [began EXCEPT ![i] = pushed[i]]
    BY <1>3, TakeStep, Zenon
  <2>2. /\ items' \in [Instances -> Seq(Item)]
        /\ \A n \in Instances : \A j \in 1 .. Len(items'[n]) :
              \E l \in 1 .. Len(items[n]) : items'[n][j] = items[n][l]
    BY <2>1, TakeQueues, Zenon
  <2>3. \A n \in Instances : QueueElements(n)'
    BY <1>0, <2>1, <2>2 DEF QueueElements
  <2>4. began' \in [Instances -> Nat]
    BY <1>0, <2>1, Zenon
  <2>5. QED
    BY <1>0, <2>1, <2>2, <2>3, <2>4, Zenon DEF QueueType, QueueElements
<1>4. ASSUME NEW i \in Instances, Drain(i) PROVE QueueType'
  BY <1>0, <1>4, Zenon DEF Drain, QueueType, QueueElements, histvars
<1>5. ASSUME NEW i \in Instances, CloseQueue(i) PROVE QueueType'
  <2>1. /\ items' = [items EXCEPT ![i] = <<>>] /\ closed' = [closed EXCEPT ![i] = TRUE]
        /\ UNCHANGED <<draining, pushed, began>>
    BY <1>5, Zenon DEF CloseQueue
  <2>2. <<>> \in Seq(Item) /\ Len(<<>>) = 0
    BY EmptySeq, Zenon
  <2>3. /\ items' \in [Instances -> Seq(Item)] /\ Len(items'[i]) = 0
        /\ \A n \in Instances : n # i => items'[n] = items[n]
    BY <1>0, <2>1, <2>2, Zenon
  <2>4. \A n \in Instances : QueueElements(n)'
    BY <1>0, <2>1, <2>3 DEF QueueElements
  <2>5. QED
    BY <1>0, <2>1, <2>3, <2>4, Zenon DEF QueueType, QueueElements
<1>6. QED
  BY <1>1, <1>2, <1>3, <1>4, <1>5, QueueUnchanged, StepKinds, Zenon

LEMMA ConnTypeStep ==
    ASSUME TypeOK, [Next]_vars
    PROVE  ConnType'
<1>0. ConnType
  BY Zenon DEF TypeOK
<1> USE DEF HandlerTypes, Protocols
<1>1. ASSUME NEW k \in Cookies, OpenEvent(k) PROVE ConnType'
  BY <1>0, <1>1, Zenon DEF ConnType, OpenEvent, connvars, svcvars, histvars
<1>2. ASSUME NEW found \in BOOLEAN, NewConnection(found) PROVE ConnType'
  <2>1. /\ held' \in [Instances -> BOOLEAN] /\ process' \in [Instances -> BOOLEAN]
        /\ UNCHANGED <<closeEvent, protocol, stream, skip, reporter, wpc, lost, released>>
    <3>1. PICK b \in BOOLEAN : held' = [held EXCEPT ![made + 1] = b]
      <4>1. held' = [held EXCEPT ![made + 1] = (call[Reader].key \in Redirected)]
        BY <1>2, Zenon DEF NewConnection
      <4>2. (call[Reader].key \in Redirected) \in BOOLEAN
        OBVIOUS
      <4>3. QED
        BY <4>1, <4>2, Zenon
    <3>2. held' \in [Instances -> BOOLEAN]
      BY <1>0, <3>1, Zenon DEF ConnType
    <3>3. process' = [process EXCEPT ![made + 1] = found]
      BY <1>2, Zenon DEF NewConnection
    <3>4. process' \in [Instances -> BOOLEAN]
      BY <1>0, <3>3, Zenon DEF ConnType
    <3>5. UNCHANGED <<closeEvent, protocol, stream, skip, reporter, wpc, lost, released>>
      BY <1>2, Zenon DEF NewConnection, histvars
    <3>6. QED
      BY <3>2, <3>4, <3>5, Zenon
  <2>2. handler' \in [Instances -> HandlerTypes]
    <3>1. PICK h \in HandlerTypes : handler' = [handler EXCEPT ![made + 1] = h]
      BY <1>2, Zenon DEF NewConnection
    <3>2. QED
      BY <1>0, <3>1, Zenon DEF ConnType
  <2>3. QED
    BY <1>0, <2>1, <2>2, Zenon DEF ConnType
<1>3. ASSUME Open PROVE ConnType'
  BY <1>0, <1>3, Zenon DEF ConnType, Open, connvars, svcvars, histvars
<1>4. ASSUME SetupReporters PROVE ConnType'
  BY <1>0, <1>4, Zenon DEF ConnType, SetupReporters, connvars, histvars
<1>5. ASSUME NEW s \in Sources, NEW k \in Cookies, NEW e \in Event, Handle(s, k, e)
      PROVE  ConnType'
  BY <1>0, <1>5, Zenon DEF ConnType, Handle, HandleEvent, connvars, histvars
<1>6. ASSUME NEW s \in Sources, PushEvent(s) PROVE ConnType'
  BY <1>0, <1>6, Zenon DEF ConnType, PushEvent, connvars, svcvars, histvars
<1>7. ASSUME NEW i \in Instances, Quiet(i) PROVE ConnType'
  <2>1. UNCHANGED <<wpc, lost, released, process, reporter, held, closeEvent>>
    BY <1>7, Zenon DEF Quiet, ProcessProtocolEvent, ProcessDataEvent, ProcessHandlerTypeEvent,
                ProcessInfoEvent, Take, Stay, connvars, svcvars, histvars
  <2>2. CASE ProcessProtocolEvent(i)
    <3>1. Head(items[i]).ev.arg \in Protocols
      <4>1. Head(items[i]) \in Item
        BY <2>2, TailElements, Zenon DEF ProcessProtocolEvent, IsNext, TypeOK, QueueType
      <4>2. Head(items[i]).ev \in Event /\ Head(items[i]).ev.kind = "Protocol"
        BY <2>2, <4>1, Zenon DEF Item, ProcessProtocolEvent, IsNext
      <4>3. QED
        BY <4>2, Zenon DEF Event
    <3>2. protocol' \in [Instances -> Protocols]
      BY <1>0, <2>2, <3>1, Zenon DEF ConnType, ProcessProtocolEvent
    <3>3. stream' \in [Instances -> {"nil", "fresh", "busy", "live", "closed"}]
      <4>1. \/ UNCHANGED stream
            \/ \E st \in {"nil", "fresh"} : stream' = [stream EXCEPT ![i] = st]
        BY <2>2, Zenon DEF ProcessProtocolEvent
      <4>2. QED
        BY <1>0, <4>1, Zenon DEF ConnType
    <3>4. UNCHANGED <<handler, skip>>
      BY <2>2, Zenon DEF ProcessProtocolEvent
    <3>5. QED
      BY <1>0, <2>1, <3>2, <3>3, <3>4, Zenon DEF ConnType
  <2>3. CASE ProcessDataEvent(i)
    BY <1>0, <2>1, <2>3 DEF ConnType, ProcessDataEvent
  <2>4. CASE ProcessHandlerTypeEvent(i)
    <3>1. Head(items[i]).ev.arg \in HandlerTypes
      <4>1. Head(items[i]) \in Item
        BY <2>4, TailElements, Zenon DEF ProcessHandlerTypeEvent, IsNext, TypeOK, QueueType
      <4>2. Head(items[i]).ev \in Event /\ Head(items[i]).ev.kind = "HandlerType"
        BY <2>4, <4>1, Zenon DEF Item, ProcessHandlerTypeEvent, IsNext
      <4>3. QED
        BY <4>2, Zenon DEF Event
    <3>2. handler' \in [Instances -> HandlerTypes]
      BY <1>0, <2>4, <3>1, Zenon DEF ConnType, ProcessHandlerTypeEvent
    <3>3. UNCHANGED <<protocol, stream, skip>>
      BY <2>4, Zenon DEF ProcessHandlerTypeEvent
    <3>4. QED
      BY <1>0, <2>1, <3>2, <3>3, Zenon DEF ConnType
  <2>5. CASE ProcessInfoEvent(i)
    BY <1>0, <2>1, <2>5, Zenon DEF ConnType, ProcessInfoEvent, connvars
  <2>6. QED
    BY <1>7, <2>2, <2>3, <2>4, <2>5, Zenon DEF Quiet
<1>8. ASSUME NEW i \in Instances, ProcessCloseEvent(i) PROVE ConnType'
  BY <1>0, <1>8, Zenon DEF ConnType, ProcessCloseEvent, EnterClose, Take, Closing, svcvars
<1>9. ASSUME NEW i \in Instances, ProcessDoneEvent(i) PROVE ConnType'
  BY <1>0, <1>9, Zenon DEF ConnType, ProcessDoneEvent, EnterClose, Take, Closing, svcvars
<1>10. ASSUME NEW i \in Instances, CloseSteps(i) PROVE ConnType'
  <2>1. CASE Finalize(i) \/ Drain(i) \/ DrainReturn(i)
    <3>1. \E to \in Closing : wpc' = [wpc EXCEPT ![i] = to]
      BY <2>1, Zenon DEF Finalize, Drain, DrainReturn, At, Closing
    <3>2. UNCHANGED <<connvars, svcvars, lost, released>>
      BY <2>1, Zenon DEF Finalize, Drain, DrainReturn, histvars
    <3>3. wpc' \in [Instances -> {"none", "next", "exit"} \cup Closing]
      BY <1>0, <3>1, Zenon DEF ConnType
    <3>4. QED
      BY <1>0, <3>2, <3>3, Zenon DEF ConnType, connvars, svcvars
  <2>2. CASE CloseQueue(i)
    <3>1. Range(items[i]) \subseteq Item
      <4>1. items[i] \in Seq(Item)
        BY Zenon DEF TypeOK, QueueType
      <4>2. QED
        BY <4>1, ElementOfSeq DEF Range
    <3>2. lost' \in [Instances -> SUBSET Item]
      BY <1>0, <2>2, <3>1, Zenon DEF ConnType, CloseQueue
    <3>3. wpc' \in [Instances -> {"none", "next", "exit"} \cup Closing]
      BY <1>0, <2>2, Zenon DEF ConnType, CloseQueue, At, Closing
    <3>4. UNCHANGED <<held, closeEvent, handler, protocol, stream, skip, process, reporter, released>>
      BY <2>2, Zenon DEF CloseQueue, connvars, svcvars
    <3>5. QED
      BY <1>0, <3>2, <3>3, <3>4, Zenon DEF ConnType
  <2>3. CASE CloseStream(i)
    BY <1>0, <2>3, Zenon DEF ConnType, CloseStream, At, Closing, svcvars, histvars
  <2>4. CASE CloseServices(i)
    BY <1>0, <2>4, Zenon DEF ConnType, CloseServices, At, Closing, connvars, histvars
  <2>5. QED
    BY <1>10, <2>1, <2>2, <2>3, <2>4, Zenon DEF CloseSteps
<1>11. ASSUME NEW i \in Instances, WatchReturns(i) PROVE ConnType'
  BY <1>0, <1>11, Zenon DEF ConnType, WatchReturns, At, connvars, svcvars, histvars
<1>12. ASSUME UNCHANGED vars PROVE ConnType'
  BY <1>0, <1>12, Zenon DEF ConnType, vars, connvars, svcvars, histvars
<1>13. ASSUME NEW i \in Instances, ProcessReturns(i) PROVE ConnType'
  BY <1>0, <1>13, Zenon DEF ConnType, ProcessReturns, svcvars, histvars
<1>14. QED
  BY <1>1, <1>2, <1>3, <1>4, <1>5, <1>6, <1>7, <1>8, <1>9, <1>10, <1>11, <1>12, <1>13, StepKinds, Zenon

\* The fields of a call that is in progress.
CallOK(s) ==
    /\ call[s].at \in {"await", "open", "report"} => s = Reader
    /\ call[s].at = "await" => call[s].key \in Cookies
    /\ call[s].at \in {"open", "report", "push"} => call[s].conn \in 1 .. made
    /\ call[s].at = "push" => call[s].ev \in Event

LEMMA CallTypeStep ==
    ASSUME TypeOK, MapInv, [Next]_vars
    PROVE  CallType'
<1>0. /\ call \in [Sources -> Call] /\ finished \subseteq Redirected /\ sent \in Nat
      /\ \A s \in Sources : CallOK(s)
  BY Zenon DEF TypeOK, CallType, CallOK
<1>1. Idle \in Call /\ Idle.at = "idle" /\ Reader \in Sources
  <2>1. Idle = [at |-> "idle", conn |-> 0, key |-> "", ev |-> Ev("")]
    BY Zenon DEF Idle, InCall, None
  <2>2. 0 \in 0 .. MaxConns
    BY ManagerAssumption
  <2>3. QED
    BY <2>1, <2>2, Zenon DEF Call, Sources
<1>2. MapType /\ made \in Nat
  BY Numbers, Zenon DEF TypeOK
<1>3. ASSUME UNCHANGED <<srcvars, made>> PROVE CallType'
  BY <1>3, Zenon DEF TypeOK, CallType, srcvars
<1>4. ASSUME NEW k \in Cookies, OpenEvent(k) PROVE CallType'
  <2>1. PICK c : c = InCall("await", None, k, Ev(""))
    BY Zenon
  <2>2. c \in Call /\ c.at = "await" /\ c.key = k
    <3>1. 0 \in 0 .. MaxConns
      BY <1>2, Numbers
    <3>2. QED
      BY <2>1, <3>1, Zenon DEF InCall, Call, Ev, None
  <2>3. UNCHANGED <<sent, finished, made>> /\ call' = [call EXCEPT ![Reader] = c]
    BY <1>4, <2>1, Zenon DEF OpenEvent, mapvars
  <2>4. QED
    BY <1>0, <1>1, <2>2, <2>3, Zenon DEF CallType, CallOK
<1>5. ASSUME NEW found \in BOOLEAN, NewConnection(found) PROVE CallType'
  <2>1. made' = made + 1 /\ made' \in Instances
    BY <1>5, NewConnectionMap, Zenon
  <2>2. PICK c : c = InCall("open", made + 1, call[Reader].key, Ev(""))
    BY Zenon
  <2>3. c \in Call /\ c.at = "open" /\ c.conn = made + 1
    <3>1. call[Reader].key \in Cookies /\ made + 1 \in 0 .. MaxConns
      BY <1>5, NewConnectionMap DEF Instances
    <3>2. QED
      BY <3>1, <2>2, Zenon DEF InCall, Call, Ev
  <2>4. UNCHANGED <<sent, finished>> /\ call' = [call EXCEPT ![Reader] = c]
    BY <1>5, <2>2, Zenon DEF NewConnection
  <2>5. ASSUME NEW s \in Sources PROVE CallOK(s)'
    <3>1. CASE s = Reader
      <4>1. call'[s] = c
        BY <1>0, <2>4, <3>1, Zenon
      <4>2. QED
        BY <1>2, <2>1, <2>3, <3>1, <4>1 DEF CallOK
    <3>2. CASE s # Reader
      <4>1. call'[s] = call[s] /\ CallOK(s)
        BY <1>0, <2>4, <3>2, Zenon
      <4>2. 1 .. made \subseteq 1 .. made'
        BY <1>2, <2>1
      <4>3. QED
        BY <4>1, <4>2, Zenon DEF CallOK
    <3>3. QED
      BY <3>1, <3>2, Zenon
  <2>6. QED
    BY <1>0, <2>3, <2>4, <2>5, Zenon DEF CallType, CallOK
<1>6. ASSUME Open PROVE CallType'
  <2>1. UNCHANGED <<sent, finished, made>> /\ call' = [call EXCEPT ![Reader].at = "report"]
        /\ call[Reader].at = "open"
    BY <1>6, Zenon DEF Open, mapvars
  <2>2. call'[Reader] \in Call /\ call'[Reader].at = "report" /\ call'[Reader].conn = call[Reader].conn
    BY <1>0, <1>1, <2>1, Zenon DEF Call
  <2>3. \A s \in Sources : s # Reader => call'[s] = call[s]
    BY <1>0, <2>1, Zenon
  <2>4. call' \in [Sources -> Call]
    BY <1>0, <2>1, <2>2, <2>3, Zenon
  <2>5. QED
    BY <1>0, <1>1, <2>1, <2>2, <2>3, <2>4, Zenon DEF CallType, CallOK
<1>7. ASSUME SetupReporters PROVE CallType'
  BY <1>0, <1>1, <1>7, Zenon DEF SetupReporters, mapvars, CallType, CallOK
<1>8. ASSUME NEW s \in Sources, NEW k \in Cookies, NEW e \in Event, Handle(s, k, e)
      PROVE  CallType'
  <2>1. UNCHANGED made /\ sent' \in Nat /\ finished' \subseteq Redirected
    BY <1>0, <1>8 DEF Handle, HandleEvent, mapvars
  <2>2. CASE UNCHANGED call
    BY <1>0, <2>1, <2>2, Zenon DEF CallType, CallOK
  <2>3. CASE ~ UNCHANGED call
    <3>1. PICK c : c = InCall("push", connections[k], k, e)
      BY Zenon
    <3>2. call' = [call EXCEPT ![s] = c] /\ connections[k] # 0
      BY <1>8, <2>3, <3>1, Zenon DEF Handle, HandleEvent, None
    <3>3. connections[k] \in 1 .. made /\ connections[k] \in 0 .. MaxConns
      BY <1>2, <3>2, Numbers DEF MapType
    <3>4. c \in Call /\ c.at = "push" /\ c.conn \in 1 .. made /\ c.ev \in Event
      BY <3>1, <3>3, Zenon DEF InCall, Call
    <3>5. QED
      BY <1>0, <2>1, <3>2, <3>4, Zenon DEF CallType, CallOK
  <2>4. QED
    BY <2>2, <2>3, Zenon
<1>9. ASSUME NEW s \in Sources, PushEvent(s) PROVE CallType'
  BY <1>0, <1>1, <1>9, Zenon DEF PushEvent, mapvars, CallType, CallOK
<1>10. ASSUME NEW i \in Instances, Quiet(i) \/ ProcessCloseEvent(i) \/ ProcessDoneEvent(i)
       PROVE  CallType'
  BY <1>3, <1>10, TakeStep, Zenon DEF mapvars
<1>11. ASSUME NEW i \in Instances, CloseSteps(i) \/ WatchReturns(i) PROVE CallType'
  BY <1>3, <1>11, Zenon DEF CloseSteps, Finalize, Drain, DrainReturn, CloseQueue, CloseStream,
                     CloseServices, WatchReturns, mapvars
<1>12. ASSUME UNCHANGED vars PROVE CallType'
  BY <1>3, <1>12, Zenon DEF vars, mapvars
<1>13. ASSUME NEW i \in Instances, ProcessReturns(i) PROVE CallType'
  BY <1>3, <1>13, ReturnFrame, Zenon DEF srcvars, mapvars
<1>14. QED
  BY <1>4, <1>5, <1>6, <1>7, <1>8, <1>9, <1>10, <1>11, <1>12, <1>13, StepKinds, Zenon

LEMMA TypeStep ==
    ASSUME TypeOK, MapInv, QueueInv, [Next]_vars
    PROVE  TypeOK'
  BY MapTypeStep, QueueTypeStep, ConnTypeStep, CallTypeStep, Zenon DEF TypeOK
-----------------------------------------------------------------------------
(* The map.                                                                *)

Mapped(k) ==
    connections[k] # None =>
        /\ key[connections[k]] = k /\ ~closed[connections[k]]
        /\ wpc[connections[k]] \in {"none", "next", "finalize"}
Present(i) ==
    (wpc[i] = "finalize" \/ (wpc[i] \in {"none", "next"} /\ ~closed[i]))
        => connections[key[i]] = i
ReaderOK ==
    /\ call[Reader].at = "await" => connections[call[Reader].key] = None /\ made < MaxConns
    /\ call[Reader].at = "open" => wpc[call[Reader].conn] = "none"

LEMMA MapInvParts ==
    MapInv <=> /\ \A i \in Instances : i > made => Unborn(i)
               /\ \A k \in Cookies : Mapped(k)
               /\ \A i \in 1 .. made : Present(i)
               /\ ReaderOK
  BY Zenon DEF MapInv, Mapped, Present, ReaderOK

\* Only connections that exist run watch.
LEMMA Born ==
    ASSUME TypeOK, MapInv, NEW i \in Instances, wpc[i] # "none"
    PROVE  i \in 1 .. made
<1>1. made \in Nat /\ i \in Nat /\ i >= 1
  BY Numbers DEF TypeOK, Instances
<1>2. ~ (i > made)
  BY Zenon DEF MapInv, Unborn
<1>3. QED
  BY <1>1, <1>2

LEMMA MapInvNew ==
    ASSUME TypeOK, MapInv, NEW found \in BOOLEAN, NewConnection(found)
    PROVE  MapInv'
<1>1. /\ made' = made + 1 /\ made' \in Instances
      /\ call[Reader].key \in Cookies
      /\ connections' = [connections EXCEPT ![call[Reader].key] = made']
      /\ \A i \in 1 .. made : key'[i] = key[i]
      /\ key'[made'] = call[Reader].key
  BY NewConnectionMap, Zenon
<1>2. /\ UNCHANGED <<items, draining, closed, wpc, lost, released>>
      /\ call' = [call EXCEPT ![Reader] = InCall("open", made', call[Reader].key, Ev(""))]
      /\ call[Reader].at = "await"
  BY Zenon DEF NewConnection, queuevars, histvars
<1>3. /\ made \in Nat /\ connections \in [Cookies -> 0 .. made]
      /\ connections[call[Reader].key] = 0
      /\ \A i \in 1 .. made : key[i] \in Cookies
      /\ call \in [Sources -> Call] /\ Reader \in Sources
      /\ held \in [Instances -> BOOLEAN]
  BY <1>2, Numbers, Zenon DEF MapInv, TypeOK, MapType, CallType, ConnType, Sources, None
<1>31. \A i \in Instances : i # made' => held'[i] = held[i]
  <2>1. held' = [held EXCEPT ![made'] = (call[Reader].key \in Redirected)]
    BY Zenon DEF NewConnection
  <2>2. DOMAIN held = Instances
    BY <1>3, Zenon
  <2>3. QED
    BY <2>1, <2>2, Zenon
<1>4. Unborn(made')
  BY <1>1, <1>3 DEF MapInv
<1>5. \A i \in Instances : i > made' => Unborn(i)'
  <2> SUFFICES ASSUME NEW i \in Instances, i > made'
               PROVE  Unborn(i)'
    BY Zenon
  <2>1. Unborn(i)
    BY <1>1, <1>3 DEF MapInv, Instances
  <2>2. held'[i] = held[i]
    BY <1>1, <1>3, <1>31 DEF Instances
  <2>3. QED
    BY <2>1, <2>2, <1>2, Zenon DEF Unborn
<1>6. \A k \in Cookies : Mapped(k)'
  <2> SUFFICES ASSUME NEW k \in Cookies, connections'[k] # None
               PROVE  /\ key'[connections'[k]] = k /\ ~closed'[connections'[k]]
                      /\ wpc'[connections'[k]] \in {"none", "next", "finalize"}
    BY Zenon DEF Mapped, None
  <2>1. CASE k = call[Reader].key
    <3>1. connections'[k] = made'
      BY <1>1, <1>3, <2>1, Zenon
    <3>2. QED
      BY <3>1, <2>1, <1>1, <1>2, <1>4, Zenon DEF Unborn
  <2>2. CASE k # call[Reader].key
    <3>1. connections'[k] = connections[k] /\ connections[k] \in 1 .. made
      BY <1>1, <1>3, <2>2 DEF None
    <3>2. Mapped(k)
      BY MapInvParts, Zenon
    <3>3. key'[connections[k]] = key[connections[k]]
      BY <3>1, <1>1, Zenon
    <3>4. connections[k] # None
      BY <3>1, Zenon DEF None
    <3>5. QED
      BY <3>1, <3>2, <3>3, <3>4, <1>2, Zenon DEF Mapped
  <2>3. QED
    BY <2>1, <2>2, Zenon
<1>7. \A i \in 1 .. made' : Present(i)'
  <2> SUFFICES ASSUME NEW i \in 1 .. made',
                      wpc[i] = "finalize" \/ (wpc[i] \in {"none", "next"} /\ ~closed[i])
               PROVE  connections'[key'[i]] = i
    BY <1>2, Zenon DEF Present
  <2>1. CASE i = made'
    BY <2>1, <1>1, <1>3, Zenon
  <2>2. CASE i # made'
    <3>1. i \in 1 .. made
      BY <2>2, <1>1, <1>3
    <3>2. connections[key[i]] = i
      BY <3>1, MapInvParts, Zenon DEF Present
    <3>3. key[i] # call[Reader].key /\ key[i] \in Cookies /\ key'[i] = key[i]
      BY <3>1, <3>2, <1>1, <1>3
    <3>4. QED
      BY <3>2, <3>3, <1>1, <1>3, Zenon
  <2>3. QED
    BY <2>1, <2>2, Zenon
<1>8. ReaderOK'
  <2>0. PICK c : c = InCall("open", made', call[Reader].key, Ev(""))
    BY Zenon
  <2>1. c.at = "open" /\ c.conn = made'
    BY <2>0, Zenon DEF InCall
  <2>11. call' = [call EXCEPT ![Reader] = c]
    BY <1>2, <2>0, Zenon
  <2>12. call \in [Sources -> Call] /\ Reader \in Sources
    BY <1>3, Zenon
  <2>13. call'[Reader] = c
    BY <2>11, <2>12, Zenon
  <2>2. call'[Reader].at = "open" /\ call'[Reader].conn = made'
    BY <2>1, <2>13, Zenon
  <2>3. QED
    BY <2>2, <1>2, <1>4, Zenon DEF ReaderOK, Unborn
<1>9. MapInv' <=> /\ \A i \in Instances : i > made' => Unborn(i)'
                  /\ \A k \in Cookies : Mapped(k)'
                  /\ \A i \in 1 .. made' : Present(i)'
                  /\ ReaderOK'
  BY Zenon DEF MapInv, Mapped, Present, ReaderOK
<1>10. QED
  BY <1>5, <1>6, <1>7, <1>8, <1>9, Zenon

\* Steps outside the map and outside watch.
LEMMA MapInvCalls ==
    ASSUME TypeOK, MapInv, UNCHANGED <<mapvars, closed, draining, wpc, lost, released, held>>,
           \A i \in Instances : i > made => items'[i] = items[i],
           \/ call'[Reader].at \in {"idle", "report", "push"}
           \/ call'[Reader] = call[Reader]
           \/ /\ call'[Reader].at = "await"
              /\ connections[call'[Reader].key] = None /\ made < MaxConns
    PROVE  MapInv'
<1>1. \A i \in Instances : i > made' => Unborn(i)'
  BY Zenon DEF MapInv, Unborn, mapvars
<1>2. \A k \in Cookies : Mapped(k)'
  BY MapInvParts, Zenon DEF Mapped, mapvars
<1>3. \A i \in 1 .. made' : Present(i)'
  BY MapInvParts, Zenon DEF Present, mapvars
<1>4. ReaderOK'
  BY Zenon DEF MapInv, ReaderOK, mapvars
<1>5. QED
  BY <1>1, <1>2, <1>3, <1>4, Zenon DEF MapInv, Mapped, Present, ReaderOK

\* Steps of watch: i moves, the other connections stay.
LEMMA MapInvWatch ==
    ASSUME TypeOK, MapInv, NEW i \in 1 .. made,
           wpc[i] # "none", UNCHANGED <<connections, made, key, call>>,
           \A n \in Instances : n # i =>
              /\ items'[n] = items[n] /\ draining'[n] = draining[n] /\ closed'[n] = closed[n]
              /\ wpc'[n] = wpc[n] /\ lost'[n] = lost[n] /\ held'[n] = held[n]
              /\ released'[n] = released[n],
           Present(i)',
           connections[key[i]] = i => ~closed'[i] /\ wpc'[i] \in {"next", "finalize"}
    PROVE  MapInv'
<1>0. made \in Nat /\ i \in Instances /\ 1 .. made \subseteq Instances
  BY Numbers, Zenon DEF TypeOK
<1>1. \A n \in Instances : n > made' => Unborn(n)'
  BY <1>0 DEF MapInv, Unborn
<1>2. ASSUME NEW k \in Cookies PROVE Mapped(k)'
  <2>1. CASE connections[k] = i
    BY <2>1, MapInvParts, Zenon DEF Mapped
  <2>2. CASE connections[k] # i
    <3>1. connections[k] \in 0 .. made
      BY Zenon DEF TypeOK, MapType
    <3>2. CASE connections[k] = 0
      BY <3>2, Zenon DEF Mapped, None
    <3>3. CASE connections[k] # 0
      <4>1. connections[k] \in Instances
        BY <3>1, <3>3, <1>0
      <4>2. Mapped(k)
        BY MapInvParts, Zenon
      <4>3. QED
        BY <2>2, <4>1, <4>2, Zenon DEF Mapped
    <3>4. QED
      BY <3>2, <3>3, Zenon
  <2>3. QED
    BY <2>1, <2>2, Zenon
<1>3. ASSUME NEW n \in 1 .. made' PROVE Present(n)'
  <2>1. CASE n = i
    BY <2>1, Zenon
  <2>2. CASE n # i
    <3>1. n \in Instances /\ Present(n)
      BY <1>0, MapInvParts, Zenon
    <3>2. QED
      BY <2>2, <3>1, Zenon DEF Present
  <2>3. QED
    BY <2>1, <2>2, Zenon
<1>4. ReaderOK'
  <2>1. ReaderOK
    BY MapInvParts, Zenon
  <2>2. call[Reader].at = "open" => call[Reader].conn \in Instances /\ call[Reader].conn # i
    BY <1>0, <2>1, Zenon DEF TypeOK, CallType, Sources, ReaderOK
  <2>3. QED
    BY <2>1, <2>2, Zenon DEF ReaderOK
<1>5. QED
  BY <1>1, <1>2, <1>3, <1>4, Zenon DEF MapInv, Mapped, Present, ReaderOK

\* Connection.Open.
LEMMA MapInvOpen ==
    ASSUME TypeOK, MapInv, Open
    PROVE  MapInv'
<1>1. /\ UNCHANGED <<connections, made, key, items, draining, closed, held, lost, released>>
      /\ wpc' = [wpc EXCEPT ![call[Reader].conn] = "next"]
      /\ call' = [call EXCEPT ![Reader].at = "report"]
      /\ call[Reader].at = "open"
  BY Zenon DEF Open, mapvars, queuevars, connvars, histvars
<1>2. /\ made \in Nat /\ 1 .. made \subseteq Instances
      /\ connections \in [Cookies -> 0 .. made]
      /\ call \in [Sources -> Call] /\ Reader \in Sources
      /\ call[Reader].conn \in 1 .. made
      /\ DOMAIN wpc = Instances
  BY <1>1, Numbers, Zenon DEF TypeOK, MapType, CallType, ConnType, Sources
<1>3. PICK i \in 1 .. made : i = call[Reader].conn
  BY <1>2, Zenon
<1>4. /\ wpc'[i] = "next" /\ wpc[i] = "none"
      /\ \A n \in Instances : n # i => wpc'[n] = wpc[n]
  BY <1>1, <1>2, <1>3, Zenon DEF MapInv
<1>5. call'[Reader].at = "report"
  BY <1>1, <1>2, Zenon DEF Call
<1>6. \A n \in Instances : n > made' => Unborn(n)'
  BY <1>1, <1>2, <1>4 DEF MapInv, Unborn
<1>7. ASSUME NEW k \in Cookies PROVE Mapped(k)'
  <2>1. Mapped(k) /\ connections[k] \in 0 .. made
    BY <1>2, MapInvParts, Zenon
  <2>2. connections[k] # 0 => connections[k] \in Instances
    BY <2>1, <1>2
  <2>3. QED
    BY <1>1, <1>4, <2>1, <2>2, Zenon DEF Mapped, None
<1>8. ASSUME NEW n \in 1 .. made' PROVE Present(n)'
  <2>1. Present(n) /\ n \in Instances
    BY <1>1, <1>2, MapInvParts, Zenon
  <2>2. QED
    BY <1>1, <1>4, <2>1, Zenon DEF Present
<1>9. ReaderOK'
  BY <1>5, Zenon DEF ReaderOK
<1>10. QED
  BY <1>6, <1>7, <1>8, <1>9, Zenon DEF MapInv, Mapped, Present, ReaderOK

\* finalizeConnection.
LEMMA MapInvFinalize ==
    ASSUME TypeOK, MapInv, ClosedInv, NEW i \in Instances, Finalize(i)
    PROVE  MapInv'
<1>1. /\ UNCHANGED <<made, key, items, draining, closed, held, lost, released, call>>
      /\ wpc' = [wpc EXCEPT ![i] = "drain"] /\ wpc[i] = "finalize"
      /\ connections' = [connections EXCEPT ![key[i]] = 0]
  BY Zenon DEF Finalize, At, queuevars, connvars, histvars, srcvars, None
<1>2. /\ made \in Nat /\ 1 .. made \subseteq Instances
      /\ connections \in [Cookies -> 0 .. made]
      /\ DOMAIN wpc = Instances
      /\ \A n \in 1 .. made : key[n] \in Cookies
      /\ call \in [Sources -> Call] /\ Reader \in Sources
      /\ call[Reader].at = "open" => call[Reader].conn \in 1 .. made
      /\ call[Reader].at = "await" => call[Reader].key \in Cookies
  BY Numbers, Zenon DEF TypeOK, MapType, CallType, ConnType, Sources
<1>3. i \in 1 .. made
  BY <1>1, Born, Zenon
<1>4. /\ connections[key[i]] = i /\ key[i] \in Cookies
  BY <1>1, <1>2, <1>3, MapInvParts, Zenon DEF Present
<1>5. /\ wpc'[i] = "drain"
      /\ \A n \in Instances : n # i => wpc'[n] = wpc[n]
      /\ connections'[key[i]] = 0
      /\ \A k \in Cookies : k # key[i] => connections'[k] = connections[k]
  BY <1>1, <1>2, <1>4, Zenon
<1>6. \A n \in Instances : n > made' => Unborn(n)'
  BY <1>1, <1>2, <1>3, <1>5, Zenon DEF MapInv, Unborn
<1>7. ASSUME NEW k \in Cookies PROVE Mapped(k)'
  <2>1. Mapped(k) /\ connections[k] \in 0 .. made
    BY <1>2, MapInvParts, Zenon
  <2>2. connections[k] # 0 => connections[k] \in Instances
    BY <2>1, <1>2
  <2>3. CASE k = key[i]
    BY <1>5, <2>3, Zenon DEF Mapped, None
  <2>4. CASE k # key[i]
    <3>1. connections'[k] = connections[k]
      BY <1>5, <2>4, Zenon
    <3>2. connections[k] # i \/ connections[k] = 0
      BY <2>1, <2>4, Zenon DEF Mapped, None
    <3>3. QED
      BY <1>1, <1>5, <2>1, <2>2, <3>1, <3>2, Zenon DEF Mapped, None
  <2>5. QED
    BY <2>3, <2>4, Zenon
<1>8. ASSUME NEW n \in 1 .. made' PROVE Present(n)'
  <2>1. Present(n) /\ n \in Instances /\ key[n] \in Cookies
    BY <1>1, <1>2, MapInvParts, Zenon
  <2>2. CASE n = i
    BY <1>5, <2>2, Zenon DEF Present
  <2>3. CASE n # i
    <3>1. connections[key[n]] = n => key[n] # key[i]
      BY <1>4, <2>3, Zenon
    <3>2. QED
      BY <1>1, <1>5, <2>1, <2>3, <3>1, Zenon DEF Present
  <2>4. QED
    BY <2>2, <2>3, Zenon
<1>9. ReaderOK'
  <2>1. ReaderOK
    BY MapInvParts, Zenon
  <2>2. call[Reader].at = "open" => call[Reader].conn \in Instances /\ call[Reader].conn # i
    BY <1>1, <1>2, <2>1, Zenon DEF ReaderOK
  <2>3. call[Reader].at = "await" => connections'[call[Reader].key] = 0
    BY <1>2, <1>5, <2>1, Zenon DEF ReaderOK, None
  <2>4. QED
    BY <1>1, <1>5, <2>1, <2>2, <2>3, Zenon DEF ReaderOK, None
<1>10. QED
  BY <1>6, <1>7, <1>8, <1>9, Zenon DEF MapInv, Mapped, Present, ReaderOK

\* What the handlers do to the hold.
LEMMA HoldStep ==
    ASSUME TypeOK, NEW i \in Instances,
           Quiet(i) \/ ProcessCloseEvent(i) \/ ProcessDoneEvent(i)
    PROVE  \/ UNCHANGED <<held, released>> /\ (wpc' = wpc \/ ~held[i])
           \/ /\ held' = [held EXCEPT ![i] = FALSE]
              /\ released' = [released EXCEPT ![i] = TRUE]
<1>1. CASE Quiet(i)
  BY <1>1, Zenon DEF Quiet, ProcessProtocolEvent, ProcessDataEvent, ProcessHandlerTypeEvent,
              ProcessInfoEvent, Stay, histvars, connvars
<1>2. CASE ProcessCloseEvent(i)
  BY <1>2, Zenon DEF ProcessCloseEvent
<1>3. CASE ProcessDoneEvent(i)
  BY <1>3, Zenon DEF ProcessDoneEvent
<1>4. QED
  BY <1>1, <1>2, <1>3, Zenon

\* A handler leaves the other connections alone.
LEMMA HoldOthers ==
    ASSUME TypeOK, NEW i \in Instances,
           Quiet(i) \/ ProcessCloseEvent(i) \/ ProcessDoneEvent(i)
    PROVE  \A n \in Instances : n # i => held'[n] = held[n] /\ released'[n] = released[n]
<1>1. held \in [Instances -> BOOLEAN] /\ released \in [Instances -> BOOLEAN]
  BY Zenon DEF TypeOK, ConnType
<1>2. QED
  BY <1>1, HoldStep, Zenon

LEMMA MapInvTake ==
    ASSUME TypeOK, MapInv, ClosedInv, NEW i \in Instances,
           Quiet(i) \/ ProcessCloseEvent(i) \/ ProcessDoneEvent(i)
    PROVE  MapInv'
<1>1. /\ wpc[i] = "next" /\ items[i] # <<>>
      /\ items' = [items EXCEPT ![i] = Tail(items[i])]
      /\ UNCHANGED <<connections, made, key, draining, closed, call, lost>>
      /\ wpc' = wpc \/ wpc' = [wpc EXCEPT ![i] = "finalize"]
  BY TakeStep, Zenon DEF mapvars, srcvars
<1>2. i \in 1 .. made
  BY <1>1, Born, Zenon
<1>3. \A n \in Instances : n # i => items'[n] = items[n]
  BY <1>1, TakeQueues, Zenon
<1>4. wpc \in [Instances -> {"none", "next", "exit"} \cup Closing]
  BY Zenon DEF TypeOK, ConnType
<1>5. wpc'[i] \in {"next", "finalize"} /\ \A n \in Instances : n # i => wpc'[n] = wpc[n]
  BY <1>1, <1>4, Zenon
<1>6. ~closed[i]
  BY <1>1, Zenon DEF ClosedInv
<1>7. connections[key[i]] = i
  BY <1>1, <1>2, <1>6, MapInvParts, Zenon DEF Present
<1>8. Present(i)'
  BY <1>1, <1>7, Zenon DEF Present
<1>9. wpc[i] # "none"
  BY <1>1, Zenon
<1>10. QED
  BY <1>1, <1>2, <1>3, <1>5, <1>6, <1>8, <1>9, HoldOthers, MapInvWatch, Zenon

\* Connection.Close after finalizeConnection, and the return of watch.
LEMMA MapInvClose ==
    ASSUME TypeOK, MapInv, ClosedInv, NEW i \in Instances,
           CloseSteps(i) \/ WatchReturns(i), ~ Finalize(i)
    PROVE  MapInv'
<1>1. /\ wpc[i] \in {"drain", "draining", "shut", "stream", "services", "next"}
      /\ wpc[i] = "next" => closed[i]
      /\ UNCHANGED <<connections, made, key, call, held, released>>
      /\ \/ wpc' = [wpc EXCEPT ![i] = "draining"]
         \/ wpc' = [wpc EXCEPT ![i] = "shut"]
         \/ wpc' = [wpc EXCEPT ![i] = "stream"]
         \/ wpc' = [wpc EXCEPT ![i] = "services"]
         \/ wpc' = [wpc EXCEPT ![i] = "exit"]
         \/ wpc' = [wpc EXCEPT ![i] = "next"] /\ wpc[i] \in {"stream", "services"}
                /\ closed' = closed
  BY Zenon DEF CloseSteps, Drain, DrainReturn, CloseQueue, CloseStream, CloseServices,
         WatchReturns, At, mapvars, srcvars, connvars, histvars, queuevars
<1>2. /\ items' = items \/ items' = [items EXCEPT ![i] = <<>>]
      /\ draining' = draining \/ draining' = [draining EXCEPT ![i] = TRUE]
      /\ closed' = closed \/ closed' = [closed EXCEPT ![i] = TRUE]
      /\ lost' = lost \/ lost' = [lost EXCEPT ![i] = Range(items[i])]
  BY Zenon DEF CloseSteps, Drain, DrainReturn, CloseQueue, CloseStream, CloseServices,
         WatchReturns, queuevars, histvars
<1>3. /\ DOMAIN wpc = Instances /\ DOMAIN items = Instances /\ DOMAIN draining = Instances
      /\ DOMAIN closed = Instances /\ DOMAIN lost = Instances
  BY Zenon DEF TypeOK, ConnType, QueueType
<1>4. i \in 1 .. made
  BY <1>1, Born, Zenon
<1>5. \A n \in Instances : n # i =>
          /\ items'[n] = items[n] /\ draining'[n] = draining[n] /\ closed'[n] = closed[n]
          /\ wpc'[n] = wpc[n] /\ lost'[n] = lost[n]
  BY <1>1, <1>2, <1>3, Zenon
<1>6. key[i] \in Cookies
  BY <1>4, Zenon DEF TypeOK, MapType
<1>7. connections[key[i]] # i
  <2>1. SUFFICES ASSUME connections[key[i]] = i PROVE FALSE
    BY Zenon
  <2>2. i # None
    BY <1>4, Numbers DEF None, TypeOK
  <2>3. ~closed[i] /\ wpc[i] \in {"none", "next", "finalize"}
    BY <1>6, <2>1, <2>2, MapInvParts, Zenon DEF Mapped
  <2>4. QED
    BY <2>3, <1>1, Zenon
<1>8. Present(i)'
  <2>1. \/ wpc'[i] \in {"draining", "shut", "stream", "services", "exit"}
        \/ wpc'[i] = "next" /\ closed'[i]
    <3>1. wpc[i] \in {"stream", "services"} => closed[i]
      BY Zenon DEF ClosedInv
    <3>2. QED
      BY <1>1, <1>3, <3>1, Zenon
  <2>2. QED
    BY <2>1, Zenon DEF Present
<1>9. wpc[i] # "none"
  BY <1>1, Zenon
<1>10. QED
  BY <1>1, <1>4, <1>5, <1>7, <1>8, <1>9, MapInvWatch, Zenon

LEMMA MapInvStep ==
    ASSUME TypeOK, MapInv, ClosedInv, QueueInv, [Next]_vars
    PROVE  MapInv'
<1>0. /\ call \in [Sources -> Call] /\ Reader \in Sources
      /\ 1 .. made \subseteq Instances /\ made \in Nat
  BY Numbers, Zenon DEF TypeOK, CallType, Sources
<1>1. ASSUME NEW k \in Cookies, OpenEvent(k) PROVE MapInv'
  <2>1. PICK c : c = InCall("await", None, k, Ev(""))
    BY Zenon
  <2>2. /\ call' = [call EXCEPT ![Reader] = c]
        /\ connections[k] = None /\ made < MaxConns
        /\ UNCHANGED <<mapvars, items, closed, draining, wpc, lost, released, held>>
    BY <1>1, <2>1, Zenon DEF OpenEvent, queuevars, connvars, histvars
  <2>3. c.at = "await" /\ c.key = k
    BY <2>1, Zenon DEF InCall
  <2>4. call'[Reader] = c
    BY <1>0, <2>2, Zenon
  <2>5. QED
    BY <2>2, <2>3, <2>4, MapInvCalls, Zenon
<1>2. ASSUME SetupReporters PROVE MapInv'
  <2>1. /\ call' = [call EXCEPT ![Reader] = Idle]
        /\ UNCHANGED <<mapvars, items, closed, draining, wpc, lost, released, held>>
    BY <1>2, Zenon DEF SetupReporters, queuevars, connvars, histvars
  <2>2. call'[Reader] = Idle
    BY <1>0, <2>1, Zenon
  <2>3. Idle.at = "idle"
    BY Zenon DEF Idle, InCall
  <2>4. QED
    BY <2>1, <2>2, <2>3, MapInvCalls, Zenon
<1>3. ASSUME NEW s \in Sources, NEW k \in Cookies, NEW e \in Event, Handle(s, k, e)
      PROVE  MapInv'
  <2>1. PICK c : c = InCall("push", connections[k], k, e)
    BY Zenon
  <2>2. /\ call' = call \/ call' = [call EXCEPT ![s] = c]
        /\ UNCHANGED <<mapvars, items, closed, draining, wpc, lost, released, held>>
    BY <1>3, <2>1, Zenon DEF Handle, HandleEvent, queuevars, connvars, histvars
  <2>3. c.at = "push"
    BY <2>1, Zenon DEF InCall
  <2>4. call'[Reader] = call[Reader] \/ call'[Reader] = c
    BY <1>0, <2>2, Zenon
  <2>5. QED
    BY <2>2, <2>3, <2>4, MapInvCalls, Zenon
<1>4. ASSUME NEW s \in Sources, PushEvent(s) PROVE MapInv'
  <2>1. /\ call' = [call EXCEPT ![s] = Idle]
        /\ UNCHANGED <<mapvars, closed, draining, wpc, lost, released, held>>
    BY <1>4, Zenon DEF PushEvent, connvars, histvars
  <2>2. call'[Reader] = call[Reader] \/ call'[Reader] = Idle
    BY <1>0, <2>1, Zenon
  <2>3. Idle.at = "idle"
    BY Zenon DEF Idle, InCall
  <2>4. \A i \in Instances : i > made => items'[i] = items[i]
    <3>1. CASE UNCHANGED <<items, pushed>>
      BY <3>1, Zenon
    <3>2. CASE ~ UNCHANGED <<items, pushed>>
      <4>1. PICK n \in 1 .. made : \A i \in Instances : i # n => items'[i] = items[i]
        BY <1>4, <3>2, PushQueues, Zenon
      <4>2. QED
        BY <4>1, <1>0 DEF Instances
    <3>3. QED
      BY <3>1, <3>2, Zenon
  <2>5. QED
    BY <2>1, <2>2, <2>3, <2>4, MapInvCalls, Zenon
<1>5. ASSUME UNCHANGED vars PROVE MapInv'
  BY <1>5, MapInvCalls, Zenon DEF vars, mapvars, queuevars, connvars, histvars, srcvars
<1>6. ASSUME NEW i \in Instances, ProcessReturns(i) PROVE MapInv'
  <2>1. UNCHANGED <<mapvars, items, closed, draining, wpc, lost, released, held, call>>
    BY <1>6, ReturnFrame, Zenon DEF queuevars
  <2>2. QED
    BY <2>1, MapInvCalls, Zenon
<1>7. QED
  BY <1>1, <1>2, <1>3, <1>4, <1>5, <1>6, MapInvNew, MapInvOpen, MapInvFinalize, MapInvTake,
     MapInvClose, StepKinds, Zenon

-----------------------------------------------------------------------------
(* The closed queue.                                                       *)

ClosedOK(i) ==
    /\ closed[i] => items[i] = <<>> /\ wpc[i] \in {"stream", "services", "next", "exit"}
    /\ wpc[i] \in {"stream", "services", "exit"} => closed[i]

\* What Connection.Open does to watch.
LEMMA OpenStep ==
    ASSUME TypeOK, MapInv, Open
    PROVE  \E i \in 1 .. made :
              /\ i \in Instances /\ wpc[i] = "none" /\ wpc' = [wpc EXCEPT ![i] = "next"]
              /\ UNCHANGED <<mapvars, items, pushed, closed, lost, held, released, began>>
<1>1. /\ call[Reader].at = "open"
      /\ wpc' = [wpc EXCEPT ![call[Reader].conn] = "next"]
      /\ UNCHANGED <<mapvars, items, pushed, closed, lost, held, released, began>>
  BY Zenon DEF Open, queuevars, connvars, histvars
<1>2. call[Reader].conn \in 1 .. made /\ call[Reader].conn \in Instances
  BY <1>1, Numbers, Zenon DEF TypeOK, CallType, Sources
<1>3. wpc[call[Reader].conn] = "none"
  BY <1>1, Zenon DEF MapInv
<1>4. QED
  BY <1>1, <1>2, <1>3, Zenon

\* What Connection.Close and the return of watch do, without the map.
LEMMA CloseStep ==
    ASSUME NEW i \in Instances, CloseSteps(i) \/ WatchReturns(i)
    PROVE  /\ UNCHANGED <<made, key, held, released, pushed, began>>
           /\ \/ /\ wpc' = [wpc EXCEPT ![i] = "drain"] /\ wpc[i] = "finalize"
                 /\ UNCHANGED <<items, closed, lost>>
              \/ /\ wpc' = [wpc EXCEPT ![i] = "draining"] /\ wpc[i] = "drain"
                 /\ UNCHANGED <<items, closed, lost>>
              \/ /\ wpc' = [wpc EXCEPT ![i] = "shut"] /\ wpc[i] = "draining"
                 /\ UNCHANGED <<items, closed, lost>>
              \/ /\ wpc' = [wpc EXCEPT ![i] = "stream"] /\ wpc[i] = "shut"
                 /\ closed' = [closed EXCEPT ![i] = TRUE]
                 /\ items' = [items EXCEPT ![i] = <<>>]
                 /\ lost' = [lost EXCEPT ![i] = Range(items[i])]
              \/ /\ wpc' = [wpc EXCEPT ![i] = "services"] /\ wpc[i] = "stream"
                 /\ UNCHANGED <<items, closed, lost>>
              \/ /\ wpc' = [wpc EXCEPT ![i] = "next"] /\ wpc[i] \in {"stream", "services"}
                 /\ UNCHANGED <<items, closed, lost>>
              \/ /\ wpc' = [wpc EXCEPT ![i] = "exit"] /\ wpc[i] = "next" /\ closed[i]
                 /\ UNCHANGED <<items, closed, lost>>
  BY Zenon DEF CloseSteps, Finalize, Drain, DrainReturn, CloseQueue, CloseStream, CloseServices,
         WatchReturns, At, mapvars, connvars, histvars, queuevars

LEMMA ClosedInvStep ==
    ASSUME TypeOK, MapInv, ClosedInv, QueueInv, [Next]_vars
    PROVE  ClosedInv'
<1>0. /\ \A n \in Instances : ClosedOK(n)
      /\ items \in [Instances -> Seq(Item)] /\ closed \in [Instances -> BOOLEAN]
      /\ DOMAIN wpc = Instances /\ DOMAIN items = Instances /\ DOMAIN closed = Instances
  BY Zenon DEF ClosedInv, ClosedOK, TypeOK, QueueType, ConnType
<1>1. ASSUME UNCHANGED <<items, closed, wpc>> PROVE ClosedInv'
  BY <1>1, Zenon DEF ClosedInv
<1>2. SUFFICES ASSUME ~ UNCHANGED <<items, closed, wpc>>
               PROVE  \A n \in Instances : ClosedOK(n)'
  BY <1>1, Zenon DEF ClosedInv, ClosedOK
<1>3. ASSUME Open PROVE \A n \in Instances : ClosedOK(n)'
  BY <1>0, <1>3, OpenStep, Zenon DEF ClosedOK
<1>4. ASSUME NEW s \in Sources, PushEvent(s) PROVE \A n \in Instances : ClosedOK(n)'
  <2>1. UNCHANGED <<closed, wpc>> /\ ~ UNCHANGED <<items, pushed>>
    BY <1>2, <1>4, Zenon DEF PushEvent
  <2>2. PICK i \in Instances :
            ~closed[i] /\ \A n \in Instances : n # i => items'[n] = items[n]
    BY <1>4, <2>1, PushQueues, Zenon
  <2>3. QED
    BY <1>0, <2>1, <2>2, Zenon DEF ClosedOK
<1>5. ASSUME NEW i \in Instances, Quiet(i) \/ ProcessCloseEvent(i) \/ ProcessDoneEvent(i)
      PROVE  \A n \in Instances : ClosedOK(n)'
  <2>1. /\ wpc[i] = "next" /\ items[i] # <<>> /\ closed' = closed
        /\ items' = [items EXCEPT ![i] = Tail(items[i])]
        /\ wpc' = wpc \/ wpc' = [wpc EXCEPT ![i] = "finalize"]
    BY <1>5, TakeStep, Zenon
  <2>2. \A n \in Instances : n # i => items'[n] = items[n]
    BY <2>1, TakeQueues, Zenon
  <2>3. ~closed[i]
    BY <1>0, <2>1, Zenon DEF ClosedOK
  <2>4. wpc'[i] \in {"next", "finalize"} /\ \A n \in Instances : n # i => wpc'[n] = wpc[n]
    BY <1>0, <2>1, Zenon
  <2>5. QED
    BY <1>0, <2>1, <2>2, <2>3, <2>4, Zenon DEF ClosedOK
<1>6. ASSUME NEW i \in Instances, CloseSteps(i) \/ WatchReturns(i)
      PROVE  \A n \in Instances : ClosedOK(n)'
  <2>1. CASE UNCHANGED <<items, closed>>
    <3>1. /\ wpc'[i] \in {"drain", "draining", "shut"} => wpc[i] \in {"finalize", "drain", "draining"}
          /\ wpc'[i] \in {"stream", "services", "next", "exit"} => closed[i]
          /\ wpc'[i] \in {"drain", "draining", "shut", "stream", "services", "next", "exit"}
          /\ \A n \in Instances : n # i => wpc'[n] = wpc[n]
      <4>1. ClosedOK(i) /\ closed[i] \in BOOLEAN
        BY <1>0, Zenon
      <4>2. /\ wpc'[i] = "stream" => closed'[i]
        BY <1>0, <1>6, <2>1, CloseStep, Zenon
      <4>3. QED
        BY <1>0, <1>6, <2>1, <4>1, <4>2, CloseStep, Zenon DEF ClosedOK
    <3>2. QED
      BY <1>0, <2>1, <3>1, Zenon DEF ClosedOK
  <2>2. CASE ~ UNCHANGED <<items, closed>>
    <3>1. /\ wpc' = [wpc EXCEPT ![i] = "stream"]
          /\ closed' = [closed EXCEPT ![i] = TRUE]
          /\ items' = [items EXCEPT ![i] = <<>>]
      BY <1>6, <2>2, CloseStep, Zenon
    <3>2. QED
      BY <1>0, <3>1, Zenon DEF ClosedOK
  <2>3. QED
    BY <2>1, <2>2, Zenon
<1>7. ASSUME NEW k \in Cookies, OpenEvent(k) PROVE FALSE
  BY <1>2, <1>7, Zenon DEF OpenEvent, queuevars
<1>8. ASSUME NEW found \in BOOLEAN, NewConnection(found) PROVE FALSE
  BY <1>2, <1>8, Zenon DEF NewConnection, queuevars
<1>9. ASSUME SetupReporters PROVE FALSE
  BY <1>2, <1>9, Zenon DEF SetupReporters, queuevars
<1>10. ASSUME NEW s, NEW k, NEW e, Handle(s, k, e) PROVE FALSE
  BY <1>2, <1>10, Zenon DEF Handle, HandleEvent, queuevars
<1>11. ASSUME UNCHANGED vars PROVE FALSE
  BY <1>2, <1>11, Zenon DEF vars, queuevars
<1>12. ASSUME NEW i \in Instances, ProcessReturns(i) PROVE FALSE
  BY <1>2, <1>12, ReturnFrame, Zenon DEF queuevars
<1>13. QED
  BY <1>3, <1>4, <1>5, <1>6, <1>7, <1>8, <1>9, <1>10, <1>11, <1>12, StepKinds, Zenon

-----------------------------------------------------------------------------
(* The hold.                                                               *)

HoldOK(i) ==
    key[i] \in Redirected =>
        /\ held[i] \/ released[i]
        /\ (wpc[i] \in Closing \cup {"exit"} \/ closed[i]) => released[i]

LEMMA HoldInvNew ==
    ASSUME TypeOK, MapInv, HoldInv, NEW found \in BOOLEAN, NewConnection(found)
    PROVE  \A n \in 1 .. made' : HoldOK(n)'
<1>1. /\ made' = made + 1 /\ made' \in Instances /\ made \in Nat
      /\ \A i \in 1 .. made : key'[i] = key[i]
      /\ key'[made'] = call[Reader].key
      /\ 1 .. made \subseteq Instances
  BY NewConnectionMap, Numbers, Zenon DEF TypeOK
<1>2. UNCHANGED <<closed, wpc, released>>
  BY Zenon DEF NewConnection, queuevars, histvars
<1>3. Unborn(made')
  BY <1>1 DEF MapInv
<1>5. held' = [held EXCEPT ![made'] = (call[Reader].key \in Redirected)]
  BY Zenon DEF NewConnection
<1>6. DOMAIN held = Instances
  BY Zenon DEF TypeOK, ConnType
<1>7. /\ held'[made'] = (call[Reader].key \in Redirected)
      /\ \A n \in Instances : n # made' => held'[n] = held[n]
  <2>1. made' \in Instances
    BY <1>1, Zenon
  <2>2. QED
    BY <1>5, <1>6, <2>1, Zenon
<1>70. PICK m \in Instances : m = made'
  BY <1>1, Zenon
<1>8. HoldOK(m)'
  <2>1. key'[made'] \in Redirected => held'[made']
    <3>1. key'[made'] = call[Reader].key
      BY <1>1, Zenon
    <3>2. QED
      BY <3>1, <1>7, Zenon
  <2>2. wpc'[made'] = "none" /\ ~closed'[made']
    BY <1>2, <1>3, Zenon DEF Unborn
  <2>3. wpc'[made'] \notin Closing \cup {"exit"}
    BY <2>2, Zenon DEF Closing
  <2>4. QED
    BY <1>70, <2>1, <2>2, <2>3, Zenon DEF HoldOK
<1>9. ASSUME NEW n \in 1 .. made PROVE HoldOK(n)'
  <2>1. HoldOK(n) /\ n \in Instances /\ n # made'
    BY <1>1 DEF HoldInv, HoldOK
  <2>2. QED
    BY <1>1, <1>2, <1>7, <2>1, Zenon DEF HoldOK
<1>10. \A n \in 1 .. made' : n \in 1 .. made \/ n = m
  BY <1>1, <1>70
<1>11. QED
  BY <1>8, <1>9, <1>10, Zenon

LEMMA HoldInvStep ==
    ASSUME TypeOK, MapInv, ClosedInv, HoldInv, QueueInv, [Next]_vars
    PROVE  HoldInv'
<1>0. /\ \A n \in 1 .. made : HoldOK(n)
      /\ held \in [Instances -> BOOLEAN] /\ released \in [Instances -> BOOLEAN]
      /\ closed \in [Instances -> BOOLEAN]
      /\ DOMAIN wpc = Instances
      /\ 1 .. made \subseteq Instances
  BY Numbers, Zenon DEF HoldInv, HoldOK, TypeOK, QueueType, ConnType
<1>1. ASSUME UNCHANGED <<made, key, closed, wpc, held, released>> PROVE HoldInv'
  BY <1>1, Zenon DEF HoldInv
<1>2. SUFFICES ASSUME ~ UNCHANGED <<made, key, closed, wpc, held, released>>
               PROVE  \A n \in 1 .. made' : HoldOK(n)'
  BY <1>1, Zenon DEF HoldInv, HoldOK
<1>3. ASSUME Open PROVE \A n \in 1 .. made' : HoldOK(n)'
  <2>1. PICK i \in 1 .. made :
            /\ i \in Instances /\ wpc[i] = "none" /\ wpc' = [wpc EXCEPT ![i] = "next"]
            /\ UNCHANGED <<made, key, closed, held, released>>
    BY <1>3, OpenStep, Zenon DEF mapvars
  <2>2. wpc'[i] = "next" /\ \A n \in 1 .. made : n # i => wpc'[n] = wpc[n]
    BY <1>0, <2>1, Zenon
  <2>3. wpc'[i] \notin Closing \cup {"exit"}
    BY <2>2, Zenon DEF Closing
  <2>4. QED
    BY <1>0, <2>1, <2>2, <2>3, Zenon DEF HoldOK
<1>4. ASSUME NEW i \in Instances, Quiet(i) \/ ProcessCloseEvent(i) \/ ProcessDoneEvent(i)
      PROVE  \A n \in 1 .. made' : HoldOK(n)'
  <2>1. /\ wpc[i] = "next" /\ items[i] # <<>> /\ UNCHANGED <<made, key, closed>>
        /\ wpc' = wpc \/ wpc' = [wpc EXCEPT ![i] = "finalize"]
    BY <1>4, TakeStep, Zenon DEF mapvars
  <2>2. i \in 1 .. made /\ HoldOK(i)
    BY <1>0, <2>1, Born, Zenon
  <2>3. wpc'[i] \in {"next", "finalize"} /\ \A n \in 1 .. made : n # i => wpc'[n] = wpc[n]
    BY <1>0, <2>1, Zenon
  <2>4. \A n \in 1 .. made : n # i => HoldOK(n)'
    BY <1>0, <1>4, <2>1, <2>3, HoldOthers DEF HoldOK
  <2>5. HoldOK(i)'
    <3>1. CASE /\ held' = [held EXCEPT ![i] = FALSE]
               /\ released' = [released EXCEPT ![i] = TRUE]
      BY <1>0, <3>1, Zenon DEF HoldOK
    <3>2. CASE UNCHANGED <<held, released>> /\ (wpc' = wpc \/ ~held[i])
      BY <2>1, <2>2, <3>2, Zenon DEF HoldOK
    <3>3. QED
      BY <1>4, <3>1, <3>2, HoldStep, Zenon
  <2>6. QED
    BY <2>1, <2>4, <2>5, Zenon
<1>5. ASSUME NEW i \in Instances, CloseSteps(i) \/ WatchReturns(i)
      PROVE  \A n \in 1 .. made' : HoldOK(n)'
  <2>1. /\ UNCHANGED <<made, key, held, released>>
        /\ wpc[i] \in {"finalize", "drain", "draining", "shut", "stream", "services"} \/ closed[i]
        /\ \A n \in Instances : n # i => wpc'[n] = wpc[n] /\ closed'[n] = closed[n]
        /\ wpc[i] # "none"
    BY <1>0, <1>5, CloseStep
  <2>2. i \in 1 .. made /\ HoldOK(i)
    BY <1>0, <2>1, Born, Zenon
  <2>3. key[i] \in Redirected => released[i]
    BY <2>1, <2>2, Zenon DEF HoldOK, Closing
  <2>4. HoldOK(i)'
    BY <2>1, <2>3, Zenon DEF HoldOK
  <2>5. QED
    BY <1>0, <2>1, <2>4, Zenon DEF HoldOK
<1>6. ASSUME NEW s \in Sources, PushEvent(s) PROVE FALSE
  BY <1>2, <1>6, Zenon DEF PushEvent, mapvars, connvars, histvars
<1>7. ASSUME NEW k \in Cookies, OpenEvent(k) PROVE FALSE
  BY <1>2, <1>7, Zenon DEF OpenEvent, mapvars, queuevars, connvars, histvars
<1>8. ASSUME SetupReporters PROVE FALSE
  BY <1>2, <1>8, Zenon DEF SetupReporters, mapvars, queuevars, connvars, histvars
<1>9. ASSUME NEW s, NEW k, NEW e, Handle(s, k, e) PROVE FALSE
  BY <1>2, <1>9, Zenon DEF Handle, HandleEvent, mapvars, queuevars, connvars, histvars
<1>10. ASSUME UNCHANGED vars PROVE FALSE
  BY <1>2, <1>10, Zenon DEF vars, mapvars, queuevars, connvars, histvars
<1>11. ASSUME NEW i \in Instances, ProcessReturns(i) PROVE FALSE
  BY <1>2, <1>11, ReturnFrame, Zenon DEF mapvars, queuevars
<1>12. QED
  BY <1>3, <1>4, <1>5, <1>6, <1>7, <1>8, <1>9, <1>10, <1>11, HoldInvNew, StepKinds, Zenon

-----------------------------------------------------------------------------
(* The queues.                                                             *)

QueueOK(i) ==
    /\ Ordered(items[i]) /\ DistinctIds(items[i])
    /\ began[i] <= pushed[i]
    /\ wpc[i] \in Backlog => \A j \in 1 .. Len(items[i]) : Late(i, items[i][j])
    /\ ~closed[i] => lost[i] = {}
    /\ \A item \in lost[i] : Late(i, item)

LEMMA QueueInvParts == QueueInv <=> \A i \in Instances : QueueOK(i)
  BY Zenon DEF QueueInv, QueueOK

\* A connection whose queue is left alone.
LEMMA QueueFrame ==
    ASSUME NEW i, QueueOK(i),
           items'[i] = items[i], began'[i] = began[i], pushed'[i] = pushed[i],
           closed'[i] = closed[i], lost'[i] = lost[i],
           wpc'[i] \in Backlog => wpc[i] \in Backlog
    PROVE  QueueOK(i)'
  BY Zenon DEF QueueOK, Late

\* No event but a further close or done event has the priority of a close
\* event or a lower one.
LEMMA LastClasses ==
    /\ QueuePriority("Close") = 10 /\ QueuePriority("Done") = Lowest
    /\ \A e \in Event : QueuePriority(e.kind) >= 10 => e.kind \in {"Close", "Done"}
<1>1. QueuePriority("Close") = 10
  BY Zenon DEF QueuePriority
<1>2. QueuePriority("Done") = Lowest
  BY Zenon DEF QueuePriority
<1>3. ASSUME NEW e \in Event, e.kind \notin {"Close", "Done"}
      PROVE  QueuePriority(e.kind) \in {1, 3, 5}
  <2>1. e.kind \in {"Protocol", "HandlerType", "Error", "TLSClientHello", "TLSServerHello",
                    "Hostname", "OriginalDestination", "Data"}
    BY <1>3, Zenon DEF Event
  <2>2. QED
    BY <2>1, Zenon DEF QueuePriority
<1>4. ASSUME NEW e \in Event, QueuePriority(e.kind) >= 10
      PROVE  e.kind \in {"Close", "Done"}
  BY <1>3, <1>4
<1>5. QED
  BY <1>1, <1>2, <1>4, Zenon

\* Push.
LEMMA QueueInvPush ==
    ASSUME TypeOK, QueueInv, NEW s \in Sources, PushEvent(s)
    PROVE  \A n \in Instances : QueueOK(n)'
<1>0. \A n \in Instances : QueueOK(n)
  BY QueueInvParts, Zenon
<1>1. UNCHANGED <<began, closed, lost, wpc>>
  BY Zenon DEF PushEvent, histvars
<1>2. CASE UNCHANGED <<items, pushed>>
  BY <1>0, <1>1, <1>2, QueueFrame, Zenon
<1>3. CASE ~ UNCHANGED <<items, pushed>>
  <2>0. PICK i \in Instances : i = call[s].conn
    BY <1>3, PushQueues, Zenon
  <2> DEFINE item == [id |-> pushed[i] + 1, prio |-> QueuePriority(call[s].ev.kind),
                      ev |-> call[s].ev]
  <2>1. /\ item \in Item
        /\ pushed' = [pushed EXCEPT ![i] = @ + 1]
        /\ \A n \in Instances : n # i => items'[n] = items[n]
        /\ Ordered(items'[i]) /\ DistinctIds(items'[i])
        /\ \A j \in 1 .. Len(items'[i]) :
              \/ items'[i][j] = item
              \/ \E l \in 1 .. Len(items[i]) : items'[i][j] = items[i][l]
    BY <1>3, <2>0, PushQueues, Zenon
  <2>2. item.id = pushed[i] + 1
    BY Zenon
  <2> HIDE DEF item
  <2>3. pushed \in [Instances -> Nat] /\ began \in [Instances -> Nat]
    BY Zenon DEF TypeOK, QueueType
  <2>4. pushed'[i] = pushed[i] + 1 /\ \A n \in Instances : n # i => pushed'[n] = pushed[n]
    BY <2>1, <2>3, Zenon
  <2>5. ASSUME NEW n \in Instances, n # i PROVE QueueOK(n)'
    BY <1>0, <1>1, <2>1, <2>4, <2>5, QueueFrame, Zenon
  <2>6. QueueOK(i)'
    <3>1. began'[i] <= pushed'[i] /\ item.id > began[i]
      <4>1. began[i] <= pushed[i] /\ began[i] \in Nat /\ pushed[i] \in Nat
        BY <1>0, <2>3, Zenon DEF QueueOK
      <4>2. QED
        BY <1>1, <2>2, <2>4, <4>1
    <3>2. ASSUME wpc'[i] \in Backlog, NEW j \in 1 .. Len(items'[i])
          PROVE  items'[i][j].id > began'[i] \/ items'[i][j].ev.kind \in {"Close", "Done"}
      <4>1. \A l \in 1 .. Len(items[i]) : Late(i, items[i][l])
        BY <1>0, <1>1, <3>2, Zenon DEF QueueOK
      <4>2. Late(i, item)
        BY <3>1, Zenon DEF Late
      <4>3. Late(i, items'[i][j])
        BY <2>1, <4>1, <4>2, Zenon
      <4>4. QED
        BY <4>3, <1>1, Zenon DEF Late
    <3>3. (~closed[i] => lost[i] = {}) /\ \A x \in lost[i] : Late(i, x)
      BY <1>0, Zenon DEF QueueOK
    <3>4. QED
      BY <1>1, <2>1, <3>1, <3>2, <3>3, Zenon DEF QueueOK, Late
  <2>7. QED
    BY <2>5, <2>6, Zenon
<1>4. QED
  BY <1>2, <1>3, Zenon

\* What is behind a close or done event.
LEMMA BehindClose ==
    ASSUME TypeOK, QueueInv, NEW i \in Instances, items[i] # <<>>,
           Head(items[i]).ev.kind \in {"Close", "Done"}
    PROVE  \A x \in Range(Tail(items[i])) : x.ev.kind \in {"Close", "Done"}
<1>1. /\ items[i] \in Seq(Item) /\ Ordered(items[i]) /\ DistinctIds(items[i])
      /\ \A j \in 1 .. Len(items[i]) : items[i][j].prio = QueuePriority(items[i][j].ev.kind)
  BY Zenon DEF QueueInv, TypeOK, QueueType
<1>2. /\ Range(Tail(items[i])) = Range(items[i]) \ {Head(items[i])}
      /\ \A x \in Range(items[i]) \ {Head(items[i])} : Before(Head(items[i]), x)
      /\ Head(items[i]) \in Range(items[i])
  BY <1>1, Priorities, TailKeepsOrder, Zenon
<1>3. ASSUME NEW x \in Range(items[i])
      PROVE  x.prio = QueuePriority(x.ev.kind) /\ x \in Item
  <2>1. PICK j \in DOMAIN items[i] : x = items[i][j]
    BY Zenon DEF Range
  <2>2. j \in 1 .. Len(items[i])
    BY <1>1, <2>1
  <2>3. items[i][j] \in Item
    BY <1>1, <2>2, ElementOfSeq, Zenon
  <2>4. QED
    BY <1>1, <2>1, <2>2, <2>3, Zenon
<1>4. \A x \in Item : x.prio \in Int /\ x.ev \in Event
  BY Priorities, Zenon DEF Numbered, Item
<1>5. Head(items[i]).prio >= 10 /\ Head(items[i]).prio \in Int
  <2>1. Head(items[i]).prio \in {10, Lowest}
    BY <1>2, <1>3, LastClasses, Zenon
  <2>2. Lowest \in Int /\ Lowest > 10
    BY ManagerAssumption, Zenon
  <2>3. QED
    BY <2>1, <2>2
<1>6. ASSUME NEW x \in Range(Tail(items[i])) PROVE x.ev.kind \in {"Close", "Done"}
  <2>1. Before(Head(items[i]), x) /\ x \in Range(items[i])
    BY <1>2, Zenon
  <2>2. x.prio = QueuePriority(x.ev.kind) /\ x.prio \in Int /\ x.ev \in Event
    BY <1>3, <1>4, <2>1, Zenon
  <2>3. x.prio >= 10
    BY <1>5, <2>1, <2>2 DEF Before
  <2>4. QED
    BY <2>2, <2>3, LastClasses, Zenon
<1>7. QED
  BY <1>6, Zenon

\* Next and the handlers.
LEMMA QueueInvTake ==
    ASSUME TypeOK, ClosedInv, QueueInv, NEW i \in Instances,
           Quiet(i) \/ ProcessCloseEvent(i) \/ ProcessDoneEvent(i)
    PROVE  \A n \in Instances : QueueOK(n)'
<1>0. /\ \A n \in Instances : QueueOK(n)
      /\ DOMAIN wpc = Instances
      /\ items \in [Instances -> Seq(Item)]
      /\ pushed \in [Instances -> Nat] /\ began \in [Instances -> Nat]
  BY QueueInvParts, Zenon DEF TypeOK, ConnType, QueueType
<1>1. /\ wpc[i] = "next" /\ items[i] # <<>>
      /\ items' = [items EXCEPT ![i] = Tail(items[i])]
      /\ UNCHANGED <<closed, pushed, lost>>
      /\ \/ UNCHANGED <<wpc, began>>
         \/ /\ wpc' = [wpc EXCEPT ![i] = "finalize"]
            /\ began' = [began EXCEPT ![i] = pushed[i]]
            /\ Head(items[i]).ev.kind \in {"Close", "Done"}
  BY TakeStep, Zenon
<1>2. /\ items'[i] = Tail(items[i])
      /\ \A n \in Instances : n # i => items'[n] = items[n]
  BY <1>1, TakeQueues, Zenon
<1>3. \A n \in Instances : n # i => wpc'[n] = wpc[n] /\ began'[n] = began[n]
  BY <1>0, <1>1, Zenon
<1>4. ASSUME NEW n \in Instances, n # i PROVE QueueOK(n)'
  BY <1>0, <1>1, <1>2, <1>3, <1>4, QueueFrame, Zenon
<1>5. QueueOK(i)'
  <2>1. lost[i] = {}
    BY <1>0, <1>1, Zenon DEF ClosedInv, QueueOK
  <2>2. Ordered(items'[i]) /\ DistinctIds(items'[i]) /\ items'[i] \in Seq(Item)
    <3>1. items[i] \in Seq(Item) /\ Ordered(items[i]) /\ DistinctIds(items[i])
      BY <1>0, Zenon DEF QueueOK
    <3>2. Ordered(Tail(items[i])) /\ DistinctIds(Tail(items[i]))
      BY <1>1, <3>1, Priorities, TailKeepsOrder, Zenon
    <3>3. Tail(items[i]) \in Seq(Item)
      BY <1>1, <3>1
    <3>4. QED
      BY <1>2, <3>2, <3>3, Zenon
  <2>3. began'[i] <= pushed'[i]
    <3>1. began[i] <= pushed[i] /\ pushed[i] \in Nat
      BY <1>0, Zenon DEF QueueOK
    <3>2. QED
      BY <1>0, <1>1, <3>1
  <2>4. ASSUME wpc'[i] \in Backlog, NEW j \in 1 .. Len(items'[i])
        PROVE  items'[i][j].ev.kind \in {"Close", "Done"}
    <3>1. Head(items[i]).ev.kind \in {"Close", "Done"}
      <4>1. "next" \notin Backlog
        BY Zenon DEF Backlog
      <4>2. wpc'[i] # wpc[i]
        BY <1>1, <2>4, <4>1, Zenon
      <4>3. QED
        BY <1>1, <4>2, Zenon
    <3>2. items'[i][j] \in Range(Tail(items[i]))
      <4>1. PICK list \in Seq(Item) : list = items'[i]
        BY <2>2, Zenon
      <4>2. j \in DOMAIN list
        BY <4>1
      <4>3. list[j] \in Range(list)
        BY <4>2, Zenon DEF Range
      <4>4. QED
        BY <1>2, <4>1, <4>3, Zenon
    <3>3. QED
      BY <1>1, <3>1, <3>2, BehindClose, Zenon
  <2>5. QED
    BY <1>1, <2>1, <2>2, <2>3, <2>4, Zenon DEF QueueOK, Late
<1>6. QED
  BY <1>4, <1>5, Zenon

\* Connection.Close and the return of watch.
LEMMA QueueInvClose ==
    ASSUME TypeOK, QueueInv, NEW i \in Instances, CloseSteps(i) \/ WatchReturns(i)
    PROVE  \A n \in Instances : QueueOK(n)'
<1>0. /\ \A n \in Instances : QueueOK(n)
      /\ DOMAIN wpc = Instances /\ DOMAIN closed = Instances /\ DOMAIN lost = Instances
      /\ items \in [Instances -> Seq(Item)]
  BY QueueInvParts, Zenon DEF TypeOK, ConnType, QueueType
<1>1. UNCHANGED <<pushed, began>>
  BY CloseStep, Zenon
<1>2. CASE UNCHANGED <<items, closed, lost>>
  <2>1. \A n \in Instances : wpc'[n] \in Backlog => wpc[n] \in Backlog
    BY <1>0, CloseStep, Zenon DEF Backlog
  <2>2. QED
    BY <1>0, <1>1, <1>2, <2>1, QueueFrame, Zenon
<1>3. CASE ~ UNCHANGED <<items, closed, lost>>
  <2>1. /\ wpc[i] = "shut" /\ wpc' = [wpc EXCEPT ![i] = "stream"]
        /\ closed' = [closed EXCEPT ![i] = TRUE]
        /\ items' = [items EXCEPT ![i] = <<>>]
        /\ lost' = [lost EXCEPT ![i] = Range(items[i])]
    BY <1>3, CloseStep, Zenon
  <2>2. ASSUME NEW n \in Instances, n # i PROVE QueueOK(n)'
    BY <1>0, <1>1, <2>1, <2>2, QueueFrame, Zenon
  <2>3. QueueOK(i)'
    <3>1. closed'[i] /\ items'[i] = <<>> /\ lost'[i] = Range(items[i]) /\ wpc'[i] = "stream"
      BY <1>0, <2>1, Zenon
    <3>2. Len(items'[i]) = 0
      BY <3>1
    <3>3. Ordered(items'[i]) /\ DistinctIds(items'[i])
      BY <3>2 DEF Ordered, DistinctIds
    <3>4. \A j \in 1 .. Len(items[i]) : Late(i, items[i][j])
      BY <1>0, <2>1, Zenon DEF QueueOK, Backlog
    <3>5. \A x \in Range(items[i]) : Late(i, x)
      BY <1>0, <3>4 DEF Range
    <3>6. began'[i] <= pushed'[i]
      BY <1>0, <1>1, Zenon DEF QueueOK
    <3>7. QED
      BY <1>1, <3>1, <3>2, <3>3, <3>5, <3>6 DEF QueueOK, Late
  <2>4. QED
    BY <2>2, <2>3, Zenon
<1>4. QED
  BY <1>2, <1>3, Zenon

LEMMA QueueInvStep ==
    ASSUME TypeOK, MapInv, ClosedInv, QueueInv, [Next]_vars
    PROVE  QueueInv'
<1>0. \A n \in Instances : QueueOK(n)
  BY QueueInvParts, Zenon
<1>1. SUFFICES \A n \in Instances : QueueOK(n)'
  BY Zenon DEF QueueInv, QueueOK
<1>2. ASSUME UNCHANGED <<items, began, pushed, closed, lost, wpc>>
      PROVE  \A n \in Instances : QueueOK(n)'
  BY <1>0, <1>2, QueueFrame, Zenon
<1>3. ASSUME Open PROVE \A n \in Instances : QueueOK(n)'
  <2>1. PICK i \in Instances :
            /\ wpc' = [wpc EXCEPT ![i] = "next"]
            /\ UNCHANGED <<items, pushed, closed, lost, began>>
    BY <1>3, OpenStep, Zenon
  <2>2. DOMAIN wpc = Instances
    BY Zenon DEF TypeOK, ConnType
  <2>3. \A n \in Instances : wpc'[n] \in Backlog => wpc[n] \in Backlog
    BY <2>1, <2>2, Zenon DEF Backlog
  <2>4. QED
    BY <1>0, <2>1, <2>3, QueueFrame, Zenon
<1>4. ASSUME NEW k \in Cookies, OpenEvent(k)
      PROVE  UNCHANGED <<items, began, pushed, closed, lost, wpc>>
  BY <1>4, Zenon DEF OpenEvent, queuevars, histvars
<1>5. ASSUME NEW found \in BOOLEAN, NewConnection(found)
      PROVE  UNCHANGED <<items, began, pushed, closed, lost, wpc>>
  BY <1>5, Zenon DEF NewConnection, queuevars, histvars
<1>6. ASSUME SetupReporters
      PROVE  UNCHANGED <<items, began, pushed, closed, lost, wpc>>
  BY <1>6, Zenon DEF SetupReporters, queuevars, histvars
<1>7. ASSUME NEW s, NEW k, NEW e, Handle(s, k, e)
      PROVE  UNCHANGED <<items, began, pushed, closed, lost, wpc>>
  BY <1>7, Zenon DEF Handle, HandleEvent, queuevars, histvars
<1>8. ASSUME UNCHANGED vars
      PROVE  UNCHANGED <<items, began, pushed, closed, lost, wpc>>
  BY <1>8, Zenon DEF vars, queuevars, histvars
<1>9. ASSUME NEW i \in Instances, ProcessReturns(i)
      PROVE  UNCHANGED <<items, began, pushed, closed, lost, wpc>>
  BY <1>9, ReturnFrame, Zenon DEF queuevars
<1>10. QED
  BY <1>2, <1>3, <1>4, <1>5, <1>6, <1>7, <1>8, <1>9, QueueInvPush, QueueInvTake, QueueInvClose,
     StepKinds, Zenon

-----------------------------------------------------------------------------
(* The theorems.                                                           *)

LEMMA InitInv == Init => IInv
<1> SUFFICES ASSUME Init PROVE IInv
  BY Zenon
<1>1. TypeOK
  BY InitTypes, Zenon
<1>2. /\ connections = [k \in Cookies |-> 0] /\ made = 0
      /\ items = [i \in Instances |-> <<>>]
      /\ draining = [i \in Instances |-> FALSE] /\ closed = [i \in Instances |-> FALSE]
      /\ pushed = [i \in Instances |-> 0] /\ began = [i \in Instances |-> 0]
      /\ wpc = [i \in Instances |-> "none"]
      /\ call = [s \in Sources |-> Idle]
      /\ lost = [i \in Instances |-> {}]
      /\ released = [i \in Instances |-> FALSE] /\ held = [i \in Instances |-> FALSE]
  BY Zenon DEF Init, None
<1>3. 1 .. made = {}
  BY <1>2
<1>4. MapInv
  <2>1. call[Reader].at = "idle"
    BY <1>2, Zenon DEF Sources, Idle, InCall
  <2>2. \A i \in Instances : Unborn(i)
    BY <1>2, Zenon DEF Unborn
  <2>3. \A k \in Cookies : connections[k] = None
    BY <1>2, Zenon DEF None
  <2>4. QED
    BY <1>3, <2>1, <2>2, <2>3, Zenon DEF MapInv
<1>5. ClosedInv
  BY <1>2, Zenon DEF ClosedInv
<1>6. HoldInv
  BY <1>3, Zenon DEF HoldInv
<1>7. QueueInv
  <2>1. \A i \in Instances : Len(items[i]) = 0 /\ lost[i] = {}
    BY <1>2, Zenon
  <2>2. \A i \in Instances : Ordered(items[i]) /\ DistinctIds(items[i])
    BY <2>1 DEF Ordered, DistinctIds
  <2>3. \A i \in Instances : began[i] <= pushed[i]
    BY <1>2
  <2>4. QED
    BY <2>1, <2>2, <2>3 DEF QueueInv
<1>8. QED
  BY <1>1, <1>4, <1>5, <1>6, <1>7, Zenon DEF IInv

LEMMA StepInv ==
    ASSUME IInv, [Next]_vars
    PROVE  IInv'
  BY TypeStep, MapInvStep, ClosedInvStep, HoldInvStep, QueueInvStep, Zenon DEF IInv

\* The inductive invariant holds in every reachable state.
THEOREM ManagerInvariant == Spec => []IInv
  BY InitInv, StepInv, PTL DEF Spec

\* Every variable keeps its type, and a queued event the priority of its kind,
\* whatever events arrive (Manager, Connection and Queue structs).
THEOREM ManagerTypeCorrect == Spec => []TypeOK
<1>1. IInv => TypeOK
  BY Zenon DEF IInv
<1>2. QED
  BY <1>1, ManagerInvariant, PTL

\* A redirected connection is closed only after a done event of the forwarder
\* has been processed (processCloseEvent, processDoneEvent).
THEOREM ManagerHold == Spec => []HoldRespected
<1>1. IInv => HoldRespected
  BY Zenon DEF IInv, HoldInv, HoldRespected
<1>2. QED
  BY <1>1, ManagerInvariant, PTL

\* Connection.Close throws away no event that was accepted before it began, but
\* for further close and done events.
THEOREM ManagerBacklog == Spec => []BacklogBeforeClose
<1>1. IInv => BacklogBeforeClose
  BY Zenon DEF IInv, QueueInv, BacklogBeforeClose, Late
<1>2. QED
  BY <1>1, ManagerInvariant, PTL

\* While watch waits for events, the map holds the connection under its cookie.
THEOREM ManagerNoOrphan == Spec => []NoOrphan
<1>1. IInv => NoOrphan
  BY Zenon DEF IInv, MapInv, NoOrphan
<1>2. QED
  BY <1>1, ManagerInvariant, PTL

\* A map entry is made by a new connection and deleted only by the Close of the
\* connection it holds (processOpenEvent, finalizeConnection).
THEOREM ManagerOwnEntry == Spec => OwnEntryOnly
<1> DEFINE Own ==
        \A k \in Cookies :
          connections'[k] # connections[k] =>
              \/ connections[k] = None /\ connections'[k] = made'
              \/ /\ connections'[k] = None
                 /\ wpc[connections[k]] = "finalize" /\ wpc'[connections[k]] = "drain"
<1>1. ASSUME IInv, [Next]_vars PROVE Own
  <2>0. TypeOK /\ MapInv /\ connections \in [Cookies -> 0 .. made] /\ DOMAIN wpc = Instances
    BY <1>1, Zenon DEF IInv, TypeOK, MapType, ConnType
  <2>1. ASSUME UNCHANGED mapvars PROVE Own
    BY <2>1, Zenon DEF mapvars
  <2>2. ASSUME NEW found \in BOOLEAN, NewConnection(found) PROVE Own
    <3>1. /\ call[Reader].key \in Cookies
          /\ connections' = [connections EXCEPT ![call[Reader].key] = made']
          /\ connections[call[Reader].key] = None
      BY <2>0, <2>2, NewConnectionMap, Zenon DEF NewConnection, MapInv
    <3>2. QED
      BY <2>0, <3>1, Zenon
  <2>3. ASSUME NEW i \in Instances, Finalize(i) PROVE Own
    <3>1. /\ wpc' = [wpc EXCEPT ![i] = "drain"] /\ wpc[i] = "finalize"
          /\ connections' = [connections EXCEPT ![key[i]] = None]
      BY <2>3, Zenon DEF Finalize, At
    <3>2. i \in 1 .. made
      BY <2>0, <3>1, Born, Zenon
    <3>3. connections[key[i]] = i
      BY <2>0, <3>1, <3>2, MapInvParts, Zenon DEF Present
    <3>4. wpc'[i] = "drain"
      BY <2>0, <3>1, Zenon
    <3>5. ASSUME NEW k \in Cookies, connections'[k] # connections[k]
          PROVE  k = key[i] /\ connections'[k] = None
      BY <2>0, <3>1, <3>5, Zenon
    <3>6. QED
      BY <3>1, <3>3, <3>4, <3>5, Zenon
  <2>4. QED
    BY <1>1, <2>0, <2>1, <2>2, <2>3, MapUnchanged, StepKinds, Zenon
<1>2. IInv /\ [Next]_vars => [Own]_vars
  BY <1>1, Zenon
<1>3. QED
  BY <1>2, ManagerInvariant, PTL DEF Spec, OwnEntryOnly

\* Connection.Close is entered at most once, by a connection that is in the
\* map and whose queue is open (processCloseEvent, processDoneEvent).
THEOREM ManagerCloseOnce == Spec => CloseOnce
<1> DEFINE Once ==
        \A i \in Instances :
          (wpc'[i] = "finalize" /\ wpc[i] # "finalize") =>
              wpc[i] = "next" /\ ~closed[i] /\ connections[key[i]] = i
<1>1. ASSUME IInv, [Next]_vars PROVE Once
  <2>0. TypeOK /\ MapInv /\ ClosedInv /\ DOMAIN wpc = Instances
    BY <1>1, Zenon DEF IInv, TypeOK, ConnType
  <2>1. SUFFICES ASSUME NEW i \in Instances, wpc'[i] = "finalize", wpc[i] # "finalize"
                 PROVE  wpc[i] = "next" /\ ~closed[i] /\ connections[key[i]] = i
    BY Zenon
  <2>2. ASSUME NEW n \in Instances, Quiet(n) \/ ProcessCloseEvent(n) \/ ProcessDoneEvent(n)
        PROVE  wpc[i] = "next" /\ ~closed[i] /\ connections[key[i]] = i
    <3>1. /\ wpc[n] = "next" /\ items[n] # <<>>
          /\ wpc' = wpc \/ wpc' = [wpc EXCEPT ![n] = "finalize"]
      BY <2>2, TakeStep, Zenon
    <3>2. n = i
      BY <2>0, <2>1, <3>1, Zenon
    <3>3. ~closed[i]
      BY <2>0, <3>1, <3>2, Zenon DEF ClosedInv
    <3>4. i \in 1 .. made
      BY <2>0, <3>1, <3>2, Born, Zenon
    <3>5. QED
      BY <2>0, <3>1, <3>2, <3>3, <3>4, MapInvParts, Zenon DEF Present
  <2>3. ASSUME Open PROVE FALSE
    BY <2>0, <2>1, <2>3, OpenStep, Zenon
  <2>4. ASSUME NEW n \in Instances, CloseSteps(n) \/ WatchReturns(n) PROVE FALSE
    BY <2>0, <2>1, <2>4, CloseStep, Zenon
  <2>5. ASSUME UNCHANGED wpc PROVE FALSE
    BY <2>1, <2>5, Zenon
  <2>6. /\ \A k : OpenEvent(k) => UNCHANGED wpc
        /\ \A found : NewConnection(found) => UNCHANGED wpc
        /\ SetupReporters => UNCHANGED wpc
        /\ \A s, k, e : Handle(s, k, e) => UNCHANGED wpc
        /\ \A s : PushEvent(s) => UNCHANGED wpc
        /\ \A n : ProcessReturns(n) => UNCHANGED wpc
        /\ UNCHANGED vars => UNCHANGED wpc
    BY Zenon DEF OpenEvent, NewConnection, SetupReporters, Handle, HandleEvent, PushEvent,
           ProcessReturns, vars
  <2>7. QED
    BY <1>1, <2>0, <2>2, <2>3, <2>4, <2>5, <2>6, StepKinds, Zenon
<1>2. IInv /\ [Next]_vars => [Once]_vars
  BY <1>1, Zenon
<1>3. QED
  BY <1>2, ManagerInvariant, PTL DEF Spec, CloseOnce

-----------------------------------------------------------------------------
(* The services.                                                           *)

\* Nothing has asked to close the connection.
Unclosed(i) ==
    /\ ~closeEvent[i] /\ ~closed[i] /\ wpc[i] \in {"none", "next"}
    /\ \A j \in 1 .. Len(items[i]) : items[i][j].ev.kind # "Close"

\* The reader is inside the connection's processOpenEvent.
Opens(i) == call[Reader].at \in {"open", "report"} /\ call[Reader].conn = i

\* Watch is past Connection.Close.
Served(i) ==
    closed[i] /\ wpc[i] \in {"next", "exit"} /\ reporter[i] = "on" => stream[i] = "fresh"

\* Only the reader hands over a close event; so a connection is not closed while
\* the reader is about to set up its reporters.
ServicesInv ==
    /\ \A s \in Sources : s # Reader /\ call[s].at = "push" => call[s].ev.kind # "Close"
    /\ \A i \in Instances : i > made => ~closeEvent[i]
    /\ \A i \in Instances : Opens(i) => Unclosed(i)
    /\ \A i \in Instances : Served(i)

\* A connection whose queue, handlers and reporter are left alone.
LEMMA UnclosedFrame ==
    ASSUME NEW i, Unclosed(i), closeEvent'[i] = closeEvent[i], closed'[i] = closed[i],
           wpc'[i] \in {"none", "next"},
           \A j \in 1 .. Len(items'[i]) : items'[i][j].ev.kind # "Close"
    PROVE  Unclosed(i)'
  BY Zenon DEF Unclosed

\* The calls of the sources: a step of HandleEvent before the push.
LEMMA ServicesCalls ==
    ASSUME TypeOK, ServicesInv, UNCHANGED <<made, items, closed, wpc, closeEvent, stream, reporter>>,
           \A s \in Sources : s # Reader /\ call'[s].at = "push" =>
              call'[s].ev.kind # "Close",
           call'[Reader].at \in {"open", "report"} => call'[Reader] = call[Reader]
    PROVE  ServicesInv'
<1>1. \A i : Unclosed(i)' = Unclosed(i)
  BY Zenon DEF Unclosed
<1>2. \A i : Served(i)' = Served(i)
  BY Zenon DEF Served
<1>3. \A i : Opens(i)' => Opens(i)
  BY Zenon DEF Opens
<1>4. \A s \in Sources : s # Reader /\ call'[s].at = "push" => call'[s].ev.kind # "Close"
  OBVIOUS
<1> QED
  BY <1>1, <1>2, <1>3, <1>4, Zenon DEF ServicesInv

LEMMA ServicesHandle ==
    ASSUME TypeOK, ServicesInv, NEW s \in Sources, NEW k \in Cookies, NEW e \in Event,
           HandleEvent(s, k, e), s = Reader \/ e.kind # "Close"
    PROVE  ServicesInv'
<1>0. call \in [Sources -> Call] /\ Reader \in Sources
  BY Zenon DEF TypeOK, CallType, Sources
<1>1. UNCHANGED <<made, items, closed, wpc, closeEvent, stream, reporter>>
  BY Zenon DEF HandleEvent, mapvars, queuevars, connvars
<1>2. call' = call \/ \E i : call' = [call EXCEPT ![s] = [at |-> "push", conn |-> i, key |-> k, ev |-> e]]
  BY Zenon DEF HandleEvent, InCall
<1>3. \A t \in Sources : \/ call'[t] = call[t]
                         \/ /\ t = s /\ call'[t].at = "push" /\ call'[t].ev = e
  BY <1>0, <1>2
<1>4. \A t \in Sources : t # Reader /\ call'[t].at = "push" => call'[t].ev.kind # "Close"
  BY <1>3, Zenon DEF ServicesInv
<1>5. call'[Reader].at \in {"open", "report"} => call'[Reader] = call[Reader]
  BY <1>0, <1>3
<1> QED
  BY <1>1, <1>4, <1>5, ServicesCalls, Zenon

LEMMA ServicesPush ==
    ASSUME TypeOK, MapInv, QueueInv, ServicesInv, NEW s \in Sources, PushEvent(s)
    PROVE  ServicesInv'
<1>0. /\ call \in [Sources -> Call] /\ Reader \in Sources
      /\ call[Reader].at = "open" \/ call[Reader].at = "report" => call[Reader].conn \in Instances
  BY Numbers DEF TypeOK, CallType, Sources
<1>1. /\ UNCHANGED <<made, closed, wpc, closeEvent, stream, reporter>>
      /\ call' = [call EXCEPT ![s] = Idle] /\ call[s].at = "push"
  BY Zenon DEF PushEvent, mapvars, connvars, svcvars
<1>2. \A t \in Sources : call'[t] = call[t] \/ (t = s /\ call'[t].at = "idle")
  BY <1>0, <1>1, Zenon DEF Idle, InCall
<1>3. \A t \in Sources : t # Reader /\ call'[t].at = "push" => call'[t].ev.kind # "Close"
  BY <1>2, Zenon DEF ServicesInv
<1>4. CASE UNCHANGED items
  <2>1. call'[Reader].at \in {"open", "report"} => call'[Reader] = call[Reader]
    BY <1>0, <1>2
  <2> QED
    BY <1>1, <1>3, <1>4, <2>1, ServicesCalls, Zenon
<1>5. CASE ~ UNCHANGED items
  <2> DEFINE i == call[s].conn
             item == [id |-> pushed[i] + 1, prio |-> QueuePriority(call[s].ev.kind), ev |-> call[s].ev]
  <2>1. /\ i \in Instances /\ items' \in [Instances -> Seq(Item)]
        /\ \A n \in Instances : n # i => items'[n] = items[n]
        /\ \A j \in 1 .. Len(items'[i]) : items'[i][j] = item \/ \E l \in 1 .. Len(items[i]) : items'[i][j] = items[i][l]
    BY <1>5, PushQueues, Zenon
  <2>2. item.ev = call[s].ev
    BY Zenon
  <2> HIDE DEF item, i
  <2>3. ASSUME NEW n \in Instances, Opens(n)'
        PROVE  Unclosed(n)'
    <3>1. call'[Reader] = call[Reader] /\ s # Reader
      BY <1>0, <1>1, <1>2, <2>3 DEF Opens
    <3>2. Unclosed(n) /\ call[s].ev.kind # "Close"
      BY <1>1, <2>3, <3>1, Zenon DEF ServicesInv, Opens
    <3>3. \A j \in 1 .. Len(items'[n]) : items'[n][j].ev.kind # "Close"
      <4>1. ASSUME n = i, NEW j \in 1 .. Len(items'[i]) PROVE items'[i][j].ev.kind # "Close"
        <5>1. CASE items'[i][j] = item
          BY <2>2, <3>2, <5>1
        <5>2. CASE \E l \in 1 .. Len(items[i]) : items'[i][j] = items[i][l]
          BY <3>2, <4>1, <5>2, Zenon DEF Unclosed
        <5> QED
          BY <2>1, <5>1, <5>2, Zenon
      <4>2. CASE n # i
        BY <2>1, <3>2, <4>2, Zenon DEF Unclosed
      <4> QED
        BY <4>1, <4>2, Zenon
    <3> QED
      BY <1>1, <3>2, <3>3, UnclosedFrame, Zenon DEF Unclosed
  <2>4. \A n \in Instances : Served(n)'
    BY <1>1, Zenon DEF Served, ServicesInv
  <2> QED
    BY <1>1, <1>3, <2>3, <2>4, Zenon DEF ServicesInv
<1> QED
  BY <1>4, <1>5

LEMMA ServicesNew ==
    ASSUME TypeOK, MapInv, ServicesInv, NEW found \in BOOLEAN, NewConnection(found)
    PROVE  ServicesInv'
<1>0. /\ call \in [Sources -> Call] /\ Reader \in Sources /\ made \in Nat
      /\ made' = made + 1 /\ made' \in Instances
  BY NewConnectionMap, Numbers, Zenon DEF TypeOK, CallType, Sources
<1>1. /\ UNCHANGED <<items, closed, wpc, closeEvent, stream, reporter>>
      /\ call' = [call EXCEPT ![Reader] = InCall("open", made + 1, call[Reader].key, Ev(""))]
  BY Zenon DEF NewConnection, queuevars
<1>2. \A t \in Sources : t # Reader => call'[t] = call[t]
  BY <1>0, <1>1, Zenon
<1>3. call'[Reader].conn = made + 1
  BY <1>0, <1>1, Zenon DEF InCall
<1>4. Unborn(made') /\ ~closeEvent[made'] /\ \A i \in Instances : i > made' => i > made
  BY <1>0 DEF MapInv, ServicesInv, Instances
<1>5. ASSUME NEW i \in Instances, Opens(i)' PROVE Unclosed(i)'
  <2>1. i = made' /\ Len(<<>>) = 0 /\ 1 .. 0 = {}
    BY <1>0, <1>3, <1>5 DEF Opens
  <2> QED
    BY <1>1, <1>4, <2>1, Zenon DEF Unborn, Unclosed
<1>6. \A i \in Instances : Served(i)'
  BY <1>1, Zenon DEF Served, ServicesInv
<1> QED
  BY <1>1, <1>2, <1>4, <1>5, <1>6, Zenon DEF ServicesInv

LEMMA ServicesOpen ==
    ASSUME TypeOK, MapInv, ServicesInv, Open \/ SetupReporters
    PROVE  ServicesInv'
<1>0. /\ call \in [Sources -> Call] /\ Reader \in Sources
      /\ DOMAIN wpc = Instances /\ DOMAIN reporter = Instances
      /\ call[Reader].at \in {"open", "report"} => call[Reader].conn \in Instances
  <2>1. call \in [Sources -> Call] /\ Reader \in Sources
    BY Zenon DEF TypeOK, CallType, Sources
  <2>2. call[Reader].at \in {"open", "report"} => call[Reader].conn \in Instances
    BY <2>1, Numbers, Zenon DEF TypeOK, CallType
  <2> QED
    BY <2>1, <2>2, Zenon DEF TypeOK, ConnType
<1>1. UNCHANGED <<made, items, closed, closeEvent, stream>>
  BY Zenon DEF Open, SetupReporters, mapvars, queuevars, connvars
<1>2. CASE Open
  <2>1. /\ call[Reader].at = "open" /\ call' = [call EXCEPT ![Reader].at = "report"]
        /\ wpc' = [wpc EXCEPT ![call[Reader].conn] = "next"] /\ reporter' = reporter
    BY <1>2, Zenon DEF Open, svcvars
  <2>2. /\ call'[Reader].conn = call[Reader].conn /\ \A t \in Sources : t # Reader => call'[t] = call[t]
    BY <1>0, <2>1, Zenon DEF Call
  <2>3. ASSUME NEW i \in Instances, Opens(i)' PROVE Unclosed(i)'
    <3>1. Opens(i)
      BY <2>1, <2>2, <2>3, Zenon DEF Opens
    <3>2. wpc'[i] \in {"none", "next"} /\ Unclosed(i)
      BY <1>0, <2>1, <2>3, <3>1, Zenon DEF Opens, ServicesInv
    <3> QED
      BY <1>1, <3>2, UnclosedFrame, Zenon DEF Unclosed
  <2>4. ASSUME NEW i \in Instances PROVE Served(i)'
    <3>1. CASE i = call[Reader].conn
      <4>1. Unclosed(i)
        BY <2>1, <3>1, Zenon DEF Opens, ServicesInv
      <4> QED
        BY <1>1, <4>1, Zenon DEF Unclosed, Served
    <3>2. CASE i # call[Reader].conn
      BY <1>0, <1>1, <2>1, <3>2, Zenon DEF Served, ServicesInv
    <3> QED
      BY <3>1, <3>2
  <2> QED
    BY <1>1, <2>2, <2>3, <2>4, Zenon DEF ServicesInv
<1>3. CASE SetupReporters
  <2>1. /\ call[Reader].at = "report" /\ call' = [call EXCEPT ![Reader] = Idle] /\ wpc' = wpc
        /\ \A n \in Instances : n # call[Reader].conn => reporter'[n] = reporter[n]
    BY <1>0, <1>3, Zenon DEF SetupReporters
  <2>2. call'[Reader].at = "idle" /\ \A t \in Sources : t # Reader => call'[t] = call[t]
    BY <1>0, <2>1, Zenon DEF Idle, InCall
  <2>3. ASSUME NEW i \in Instances PROVE Served(i)'
    <3>1. CASE i = call[Reader].conn
      <4>1. Unclosed(i)
        BY <2>1, <3>1, Zenon DEF Opens, ServicesInv
      <4> QED
        BY <1>1, <4>1, Zenon DEF Unclosed, Served
    <3>2. CASE i # call[Reader].conn
      BY <1>1, <2>1, <3>2, Zenon DEF Served, ServicesInv
    <3> QED
      BY <3>1, <3>2
  <2>4. \A i \in Instances : ~Opens(i)'
    BY <2>2 DEF Opens
  <2> QED
    BY <1>1, <2>2, <2>3, <2>4, Zenon DEF ServicesInv
<1> QED
  BY <1>2, <1>3

LEMMA ServicesTake ==
    ASSUME TypeOK, MapInv, ClosedInv, ServicesInv, NEW i \in Instances,
           Quiet(i) \/ ProcessCloseEvent(i) \/ ProcessDoneEvent(i)
    PROVE  ServicesInv'
<1>0. /\ DOMAIN wpc = Instances /\ DOMAIN closeEvent = Instances /\ DOMAIN stream = Instances
      /\ items \in [Instances -> Seq(Item)]
  BY Zenon DEF TypeOK, ConnType, QueueType
<1>1. /\ wpc[i] = "next" /\ items[i] # <<>> /\ items' = [items EXCEPT ![i] = Tail(items[i])]
      /\ UNCHANGED <<made, closed, call, reporter>>
  BY TakeStep, Zenon DEF mapvars, srcvars, svcvars
<1>2. /\ \A n \in Instances : n # i => wpc'[n] = wpc[n] /\ closeEvent'[n] = closeEvent[n] /\ stream'[n] = stream[n]
      /\ (wpc' = wpc /\ closeEvent' = closeEvent) \/ Head(items[i]).ev.kind = "Close" \/ closeEvent[i]
  <2>1. CASE Quiet(i)
    BY <1>0, <2>1, Zenon DEF Quiet, ProcessProtocolEvent, ProcessDataEvent, ProcessHandlerTypeEvent,
       ProcessInfoEvent, connvars, Stay
  <2>2. CASE ProcessCloseEvent(i)
    BY <1>0, <2>2, Zenon DEF ProcessCloseEvent, IsNext, EnterClose
  <2>3. CASE ProcessDoneEvent(i)
    BY <1>0, <2>3, Zenon DEF ProcessDoneEvent, EnterClose
  <2> QED
    BY <2>1, <2>2, <2>3
<1>3. ~closed[i]
  BY <1>1, Zenon DEF ClosedInv
<1>4. \A n \in Instances : Served(n)'
  BY <1>1, <1>2, <1>3, Zenon DEF Served, ServicesInv
<1>5. \A n \in Instances : n > made => ~closeEvent'[n]
  <2>1. i \in 1 .. made /\ made \in Nat
    BY <1>1, Born, Numbers, Zenon DEF TypeOK
  <2>2. ~ (i > made)
    BY <2>1
  <2> QED
    BY <1>2, <2>2, Zenon DEF ServicesInv
<1>6. ASSUME NEW n \in Instances, Opens(n)' PROVE Unclosed(n)'
  <2>1. Unclosed(n)
    BY <1>1, <1>6, Zenon DEF Opens, ServicesInv
  <2>2. \A j \in 1 .. Len(items'[n]) : \E l \in 1 .. Len(items[n]) : items'[n][j] = items[n][l]
    BY <1>1, TakeQueues, Zenon
  <2>3. \A j \in 1 .. Len(items'[n]) : items'[n][j].ev.kind # "Close"
    BY <2>1, <2>2, Zenon DEF Unclosed
  <2>4. wpc'[n] = wpc[n] /\ closeEvent'[n] = closeEvent[n]
    <3>1. CASE n = i
      <4>1. Head(items[i]) = items[i][1] /\ 1 \in 1 .. Len(items[i])
        <5>1. items[i] \in Seq(Item)
          BY <1>0, Zenon
        <5> QED
          BY <1>1, <5>1, TailElements
      <4> QED
        BY <1>2, <2>1, <3>1, <4>1, Zenon DEF Unclosed
    <3> QED
      BY <1>2, <3>1
  <2> QED
    BY <1>1, <2>1, <2>3, <2>4, UnclosedFrame, Zenon DEF Unclosed
<1> QED
  BY <1>1, <1>4, <1>5, <1>6, Zenon DEF ServicesInv

LEMMA ServicesClose ==
    ASSUME TypeOK, MapInv, ClosedInv, ServicesInv, NEW i \in Instances,
           CloseSteps(i) \/ WatchReturns(i)
    PROVE  ServicesInv'
<1>0. /\ DOMAIN wpc = Instances /\ DOMAIN closed = Instances /\ DOMAIN items = Instances
      /\ DOMAIN stream = Instances /\ DOMAIN reporter = Instances
  BY Zenon DEF TypeOK, ConnType, QueueType
<1>1. /\ UNCHANGED <<made, call, closeEvent>>
      /\ wpc[i] \in Closing \/ (closed[i] /\ wpc[i] = "next")
  BY Zenon DEF CloseSteps, Finalize, Drain, DrainReturn, CloseQueue, CloseStream, CloseServices,
     WatchReturns, At, mapvars, srcvars, connvars, Closing
<1>2. \A n \in Instances : n # i =>
         /\ wpc'[n] = wpc[n] /\ closed'[n] = closed[n] /\ items'[n] = items[n]
         /\ stream'[n] = stream[n] /\ reporter'[n] = reporter[n]
  BY <1>0, Zenon DEF CloseSteps, Finalize, Drain, DrainReturn, CloseQueue, CloseStream, CloseServices,
     WatchReturns, At, queuevars, connvars, svcvars
<1>3. Served(i)'
  <2>1. CASE Finalize(i) \/ Drain(i) \/ DrainReturn(i) \/ CloseQueue(i)
    <3>1. wpc'[i] \in {"drain", "draining", "shut", "stream"}
      BY <1>0, <2>1, Zenon DEF Finalize, Drain, DrainReturn, CloseQueue, At
    <3> QED
      BY <3>1 DEF Served
  <2>2. CASE CloseStream(i)
    <3>1. wpc'[i] = "services" \/ (stream'[i] = stream[i] /\ stream[i] = "fresh")
      BY <1>0, <2>2, Zenon DEF CloseStream, Panics, At
    <3> QED
      BY <3>1 DEF Served
  <2>3. CASE CloseServices(i)
    <3>1. reporter'[i] # "on"
      BY <1>0, <2>3 DEF CloseServices
    <3> QED
      BY <3>1, Zenon DEF Served
  <2>4. CASE WatchReturns(i)
    <3>1. closed[i] /\ wpc[i] = "next" /\ stream' = stream /\ reporter' = reporter
      BY <2>4, Zenon DEF WatchReturns, At, connvars, svcvars
    <3> QED
      BY <3>1, Zenon DEF Served, ServicesInv
  <2> QED
    BY <2>1, <2>2, <2>3, <2>4 DEF CloseSteps
<1>4. \A n \in Instances : Served(n)'
  BY <1>2, <1>3, Zenon DEF Served, ServicesInv
<1>5. ASSUME NEW n \in Instances, Opens(n)' PROVE Unclosed(n)'
  <2>1. Unclosed(n)
    BY <1>1, <1>5, Zenon DEF Opens, ServicesInv
  <2>2. n # i
    BY <1>1, <2>1 DEF Unclosed, Closing
  <2> QED
    BY <1>1, <1>2, <2>1, <2>2, Zenon DEF Unclosed
<1> QED
  BY <1>1, <1>4, <1>5, Zenon DEF ServicesInv

LEMMA ServicesInvStep ==
    ASSUME IInv, ServicesInv, [Next]_vars
    PROVE  ServicesInv'
<1>0. TypeOK /\ MapInv /\ ClosedInv /\ QueueInv /\ call \in [Sources -> Call] /\ Reader \in Sources
  BY Zenon DEF IInv, TypeOK, CallType, Sources
<1>1. /\ Redirected \subseteq Cookies /\ ReaderEvents \subseteq Event /\ MainEvents \subseteq Event
      /\ \A e \in MainEvents : e.kind # "Close"
      /\ \A k \in Redirected : Main(k) \in Sources /\ \A dir \in Directions : Tee(k, dir) \in Sources
  BY ManagerAssumption, Zenon DEF Sources, Directions
<1>2. /\ Ev("Done") \in Event /\ Ev("Data") \in Event
      /\ Ev("Done").kind # "Close" /\ Ev("Data").kind # "Close"
  BY DEF Ev, Event
<1>3. ASSUME NEW k \in Cookies, OpenEvent(k) PROVE ServicesInv'
  <2>1. /\ UNCHANGED <<made, items, closed, wpc, closeEvent, stream, reporter>>
        /\ call' = [call EXCEPT ![Reader] = InCall("await", None, k, Ev(""))]
    BY <1>3, Zenon DEF OpenEvent, mapvars, queuevars, connvars, svcvars
  <2>2. call'[Reader].at = "await" /\ \A t \in Sources : t # Reader => call'[t] = call[t]
    BY <1>0, <2>1, Zenon DEF InCall
  <2>3. \A t \in Sources : t # Reader /\ call'[t].at = "push" => call'[t].ev.kind # "Close"
    BY <2>2, Zenon DEF ServicesInv
  <2>4. ~ (call'[Reader].at \in {"open", "report"})
    BY <2>2
  <2> QED
    BY <1>0, <2>1, <2>3, <2>4, ServicesCalls, Zenon
<1>4. ASSUME NEW k \in Cookies, NEW e \in ReaderEvents, ReaderEvent(k, e) PROVE ServicesInv'
  BY <1>0, <1>1, <1>4, ServicesHandle, Zenon DEF ReaderEvent
<1>5. ASSUME NEW k \in Redirected, NEW k2 \in Cookies, NEW e \in MainEvents, MainEvent(k, k2, e)
      PROVE  ServicesInv'
  <2>1. HandleEvent(Main(k), k2, e)
    BY <1>5, Zenon DEF MainEvent
  <2> QED
    BY <1>0, <1>1, <2>1, ServicesHandle, Zenon
<1>6. ASSUME NEW k \in Redirected,
             DoneEvent(k) \/ \E dir \in Directions : TeeEvent(k, dir)
      PROVE  ServicesInv'
  <2>1. \/ HandleEvent(Main(k), k, Ev("Done"))
        \/ \E dir \in Directions : HandleEvent(Tee(k, dir), k, Ev("Data"))
    BY <1>6, Zenon DEF DoneEvent, TeeEvent
  <2> QED
    BY <1>0, <1>1, <1>2, <2>1, ServicesHandle, Zenon
<1>8. ASSUME NEW k \in Cookies, NEW e \in EngineEvents, EngineEvent(k, e) PROVE ServicesInv'
  <2>1. e \in Event /\ e.kind # "Close" /\ Engine \in Sources
    BY ManagerAssumption DEF Sources
  <2> QED
    BY <1>0, <1>8, <2>1, ServicesHandle, Zenon DEF EngineEvent
<1>9. ASSUME NEW i \in Instances, ProcessReturns(i) PROVE ServicesInv'
  <2>1. UNCHANGED <<made, items, closed, wpc, closeEvent, reporter, call>>
    BY <1>9, ReturnFrame, Zenon DEF mapvars, queuevars, svcvars
  <2>2. stream[i] = "busy" /\ \A n \in Instances : n # i => stream'[n] = stream[n]
    BY <1>0, <1>9, Zenon DEF ProcessReturns, TypeOK, ConnType
  <2>3. \A n \in Instances : Served(n)'
    BY <2>1, <2>2, Zenon DEF Served, ServicesInv
  <2>4. \A n \in Instances : Opens(n)' => Unclosed(n)'
    BY <2>1, Zenon DEF Opens, Unclosed, ServicesInv
  <2> QED
    BY <2>1, <2>3, <2>4, Zenon DEF ServicesInv
<1>7. CASE UNCHANGED vars
  <2>1. UNCHANGED <<made, items, closed, wpc, closeEvent, stream, reporter, call>>
    BY <1>7, Zenon DEF vars, mapvars, queuevars, connvars, svcvars, srcvars
  <2>2. \A t \in Sources : t # Reader /\ call'[t].at = "push" => call'[t].ev.kind # "Close"
    BY <2>1, Zenon DEF ServicesInv
  <2> QED
    BY <1>0, <2>1, <2>2, ServicesCalls, Zenon
<1> QED
  BY <1>0, <1>3, <1>4, <1>5, <1>6, <1>7, <1>8, <1>9, ServicesNew, ServicesOpen, ServicesPush, ServicesTake, ServicesClose,
     Zenon DEF Next, ReaderSteps, Watch, Quiet

\* Watch returns with the reporter closed, except behind an HTTP/1 stream that has
\* seen no data (Connection.Close): a reporter is never set up behind the Close.
THEOREM ManagerServicesClosed == Spec => []ServicesClosed
<1>1. Init => ServicesInv
  <2>1. Reader \in Sources
    BY Zenon DEF Sources
  <2>2. Idle.at = "idle"
    BY DEF Idle, InCall
  <2> QED
    BY <2>1, <2>2, Zenon DEF Init, ServicesInv, Opens, Served
<1>2. IInv /\ ServicesInv => ServicesClosed
  BY Zenon DEF IInv, ClosedInv, ServicesInv, Served, ServicesClosed
<1> QED
  BY <1>1, <1>2, ServicesInvStep, ManagerInvariant, PTL DEF Spec

=============================================================================
