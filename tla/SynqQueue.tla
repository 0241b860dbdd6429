----------------------------- MODULE SynqQueue ------------------------------
(***************************************************************************)
(* synq.Queue (pkg/synq/queue.go): a priority queue shared by goroutines,  *)
(* guarded by a mutex, with one notification channel of capacity one that  *)
(* wakes both consumers (Next) and drainers (Drain).                       *)
(*                                                                         *)
(* Atomicity: a critical section without a loop is one step; a critical    *)
(* section with a loop (Push of several values, PopN) is one step per      *)
(* iteration with mu held, so that the accesses the code makes without mu  *)
(* (Drain sets draining, selects on the channel) may fall between them.    *)
(***************************************************************************)
EXTENDS PriorityList

CONSTANTS
    Producers,   \* goroutines that call Push
    Consumers,   \* goroutines that call Next, Pop and PopN
    Drainers,    \* goroutines that call Drain
    Priorities,  \* results of QueuePriority()
    Lowest,      \* math.MaxInt, the priority of a value without QueuePriority()
    Free,        \* the mutex is not held
    MaxBatch,    \* bound: values in one call of Push, items asked of PopN
    MaxItems     \* bound: items pushed in a behaviour

ASSUME QueueAssumption ==
    /\ Priorities \subseteq Int
    /\ Lowest \in Int
    /\ \A p \in Priorities : p <= Lowest
    /\ MaxBatch \in Nat /\ MaxItems \in Nat
    /\ Producers \cap Consumers = {}
    /\ Free \notin Producers \cup Consumers

VARIABLES
    items,      \* the list from head to tail
    mu,         \* the goroutine inside the mutex, or Free
    batch,      \* values the Push holding mu has still to insert
    want,       \* items the PopN holding mu has still to pop
    closed,     \* the atomic flag closed
    draining,   \* the atomic flag draining
    cancelled,  \* q.ctx is done
    notify,     \* contents of the notify channel
    cpc,        \* where each consumer is
    dpc,        \* where each drainer is
    pushed,     \* history: number of items inserted so far
    delivered,  \* history: items popped, in order; seen is the value of
                \* pushed when the item was popped
    discarded   \* history: items thrown away by Close

qvars == <<items, notify, pushed, delivered, discarded>>
vars == <<items, mu, batch, want, closed, draining, cancelled, notify,
          cpc, dpc, pushed, delivered, discarded>>

NoOp == "none"
Ops == {"Pushed", "Popped"}
Values == Priorities \cup {Lowest}
Item == [id : Nat, prio : Values]
Delivery == [id : Nat, prio : Values, seen : Nat]

Init ==
    /\ items = <<>>
    /\ mu = Free
    /\ batch = <<>>
    /\ want = 0
    /\ closed = FALSE /\ draining = FALSE /\ cancelled = FALSE
    /\ notify = NoOp
    /\ cpc = [c \in Consumers |-> "idle"]
    /\ dpc = [d \in Drainers |-> "idle"]
    /\ pushed = 0
    /\ delivered = <<>>
    /\ discarded = {}

-----------------------------------------------------------------------------

\* A send on notify inside a select with a default case: lost when it is full.
Signal(op) == IF notify = NoOp THEN op ELSE notify

\* Push takes the mutex.  While draining or closed it returns an error and
\* changes nothing.
Push(p, values) ==
    /\ mu = Free
    /\ ~draining /\ ~closed
    /\ pushed + Len(values) <= MaxItems
    /\ mu' = p
    /\ batch' = values
    /\ UNCHANGED <<qvars, want, closed, draining, cancelled, cpc, dpc>>

\* append: link the item in behind the tail.
AppendItem(item) == items' = Append(items, item)

\* insertWithPriority: link the item in behind the last node it may not pass.
InsertItem(item) == InsertWithPriority(items, item, items')

\* One iteration of Push's loop: push(v).
PushOne(p) ==
    /\ mu = p
    /\ batch # <<>>
    /\ LET item == [id |-> pushed + 1, prio |-> Head(batch)]
       IN  IF Head(batch) = Lowest THEN AppendItem(item) ELSE InsertItem(item)
    /\ pushed' = pushed + 1
    /\ batch' = Tail(batch)
    /\ UNCHANGED <<mu, want, closed, draining, cancelled, notify, cpc, dpc,
                   delivered, discarded>>

\* Mutant: Push signals only when the queue has a single item.
PushDoneIfSingle(p) ==
    /\ mu = p
    /\ batch = <<>>
    /\ notify' = IF Len(items) = 1 THEN Signal("Pushed") ELSE notify
    /\ mu' = Free
    /\ UNCHANGED <<items, batch, want, closed, draining, cancelled, cpc, dpc,
                   pushed, delivered, discarded>>

\* Push signals the waiting goroutines and returns.
PushDone(p) ==
    /\ mu = p
    /\ batch = <<>>
    /\ notify' = Signal("Pushed")
    /\ mu' = Free
    /\ UNCHANGED <<items, batch, want, closed, draining, cancelled, cpc, dpc,
                   pushed, delivered, discarded>>

\* pop (and the same lines inside Next): unlink the head, tell the drainers.
TakeHead ==
    /\ items # <<>>
    /\ items' = Tail(items)
    /\ delivered' = Append(delivered, [id   |-> Head(items).id,
                                       prio |-> Head(items).prio,
                                       seen |-> pushed])
    /\ notify' = IF draining THEN Signal("Popped") ELSE notify
    /\ UNCHANGED <<pushed, discarded>>

\* Pop on a queue that is not empty (on an empty one it returns nil).
Pop(c) ==
    /\ cpc[c] = "idle"
    /\ mu = Free
    /\ TakeHead
    /\ UNCHANGED <<mu, batch, want, closed, draining, cancelled, cpc, dpc>>

\* PopN takes the mutex and limits n to the length of the queue.
PopN(c, n) ==
    /\ cpc[c] = "idle"
    /\ mu = Free
    /\ mu' = c
    /\ want' = IF Len(items) < n THEN Len(items) ELSE n
    /\ UNCHANGED <<qvars, batch, closed, draining, cancelled, cpc, dpc>>

\* An iteration of PopN's loop.
PopNOne(c) ==
    /\ mu = c
    /\ want > 0
    /\ TakeHead
    /\ want' = want - 1
    /\ UNCHANGED <<mu, batch, closed, draining, cancelled, cpc, dpc>>

\* PopN returns.
PopNDone(c) ==
    /\ mu = c
    /\ want = 0
    /\ mu' = Free
    /\ UNCHANGED <<qvars, batch, want, closed, draining, cancelled, cpc, dpc>>

-----------------------------------------------------------------------------

\* Next is called.
NextCall(c) ==
    /\ cpc[c] = "idle"
    /\ mu # c
    /\ cpc' = [cpc EXCEPT ![c] = "check"]
    /\ UNCHANGED <<qvars, mu, batch, want, closed, draining, cancelled, dpc>>

\* The critical section of Next finds an item and returns it.
NextTake(c) ==
    /\ cpc[c] = "check"
    /\ mu = Free
    /\ TakeHead
    /\ cpc' = [cpc EXCEPT ![c] = "idle"]
    /\ UNCHANGED <<mu, batch, want, closed, draining, cancelled, dpc>>

\* It finds none: Next returns false if the queue is closed, else it waits.
NextEmpty(c) ==
    /\ cpc[c] = "check"
    /\ mu = Free
    /\ items = <<>>
    /\ cpc' = [cpc EXCEPT ![c] = IF closed THEN "stopped" ELSE "wait"]
    /\ UNCHANGED <<qvars, mu, batch, want, closed, draining, cancelled, dpc>>

\* Mutant: only a Popped notification makes Next look again.
NextWakePopped(c) ==
    /\ cpc[c] = "wait"
    /\ notify # NoOp
    /\ notify' = NoOp
    /\ cpc' = [cpc EXCEPT ![c] = IF notify = "Popped" THEN "check" ELSE "wait"]
    /\ UNCHANGED <<items, mu, batch, want, closed, draining, cancelled, dpc,
                   pushed, delivered, discarded>>

\* The select of Next: a notification of either kind sends it back to look,
\* the end of the context makes it return false.
NextWake(c) ==
    /\ cpc[c] = "wait"
    /\ notify # NoOp
    /\ notify' = NoOp
    /\ cpc' = [cpc EXCEPT ![c] = "check"]
    /\ UNCHANGED <<items, mu, batch, want, closed, draining, cancelled, dpc,
                   pushed, delivered, discarded>>

NextCancelled(c) ==
    /\ cpc[c] = "wait"
    /\ cancelled
    /\ cpc' = [cpc EXCEPT ![c] = "stopped"]
    /\ UNCHANGED <<qvars, mu, batch, want, closed, draining, cancelled, dpc>>

-----------------------------------------------------------------------------

\* Drain sets the flag without holding mu.
Drain(d) ==
    /\ dpc[d] = "idle"
    /\ draining' = TRUE
    /\ dpc' = [dpc EXCEPT ![d] = "check"]
    /\ UNCHANGED <<qvars, mu, batch, want, closed, cancelled, cpc>>

\* The critical section of Drain's loop.
DrainCheck(d) ==
    /\ dpc[d] = "check"
    /\ mu = Free
    /\ dpc' = [dpc EXCEPT ![d] =
                 IF items = <<>> \/ closed THEN "drained" ELSE "wait"]
    /\ UNCHANGED <<qvars, mu, batch, want, closed, draining, cancelled, cpc>>

\* The select of Drain: any notification sends it back to look.
DrainWake(d) ==
    /\ dpc[d] = "wait"
    /\ notify # NoOp
    /\ notify' = NoOp
    /\ dpc' = [dpc EXCEPT ![d] = "check"]
    /\ UNCHANGED <<items, mu, batch, want, closed, draining, cancelled, cpc,
                   pushed, delivered, discarded>>

\* The duration elapsed, or q.ctx is done: Drain returns ctx.Err().
DrainExpired(d) ==
    /\ dpc[d] = "wait"
    /\ dpc' = [dpc EXCEPT ![d] = "expired"]
    /\ UNCHANGED <<qvars, mu, batch, want, closed, draining, cancelled, cpc>>

\* Close forgets the items that are left and ends q.ctx.
Close ==
    /\ mu = Free
    /\ closed' = TRUE
    /\ items' = <<>>
    /\ discarded' = discarded \cup Range(items)
    /\ cancelled' = TRUE
    /\ UNCHANGED <<mu, batch, want, draining, notify, cpc, dpc, pushed, delivered>>

\* The context NewQueue was given is cancelled by its owner.
CancelParent ==
    /\ cancelled' = TRUE
    /\ UNCHANGED <<qvars, mu, batch, want, closed, draining, cpc, dpc>>

-----------------------------------------------------------------------------

PushBatches == UNION {[1 .. n -> Values] : n \in 1 .. MaxBatch}

ProducerStep(p) ==
    \/ \E values \in PushBatches : Push(p, values)
    \/ PushOne(p)
    \/ PushDone(p)

NextStep(c) ==
    \/ NextCall(c)
    \/ NextTake(c)
    \/ NextEmpty(c)
    \/ NextWake(c)
    \/ NextCancelled(c)

PopStep(c) ==
    \/ Pop(c)
    \/ \E n \in 1 .. MaxBatch : PopN(c, n)
    \/ PopNOne(c)
    \/ PopNDone(c)

DrainStep(d) ==
    \/ Drain(d)
    \/ DrainCheck(d)
    \/ DrainWake(d)
    \/ DrainExpired(d)

Next ==
    \/ \E p \in Producers : ProducerStep(p)
    \/ \E c \in Consumers : NextStep(c) \/ PopStep(c)
    \/ \E d \in Drainers : DrainStep(d)
    \/ Close
    \/ CancelParent

Spec == Init /\ [][Next]_vars

\* A goroutine inside a call goes on; a consumer calls Next again when it has
\* dealt with an item, as Connection.watch does; a timer that was set fires.
\* Nobody has to call Push, Pop, PopN, Drain or Close.
FairSpec ==
    /\ Spec
    /\ \A p \in Producers : WF_vars(PushOne(p) \/ PushDone(p))
    /\ \A c \in Consumers : WF_vars(NextStep(c))
    /\ \A c \in Consumers : WF_vars(PopNOne(c) \/ PopNDone(c))
    /\ \A d \in Drainers : WF_vars(DrainCheck(d) \/ DrainWake(d) \/ DrainExpired(d))

-----------------------------------------------------------------------------

TypeOK ==
    /\ items \in Seq(Item)
    /\ mu \in Producers \cup Consumers \cup {Free}
    /\ batch \in Seq(Values)
    /\ want \in Nat
    /\ closed \in BOOLEAN /\ draining \in BOOLEAN /\ cancelled \in BOOLEAN
    /\ notify \in Ops \cup {NoOp}
    /\ cpc \in [Consumers -> {"idle", "check", "wait", "stopped"}]
    /\ dpc \in [Drainers -> {"idle", "check", "wait", "drained", "expired"}]
    /\ pushed \in Nat
    /\ delivered \in Seq(Delivery)
    /\ discarded \subseteq Item

\* Whenever an item is popped, everything that was in the queue at that moment
\* and is popped later comes after it: a smaller priority number first, first
\* in first out within one (insertWithPriority, append and pop together,
\* whatever the interleaving of Push, Next, Pop and PopN).
NoOvertaking ==
    \A i, j \in 1 .. Len(delivered) :
        i < j /\ delivered[j].id <= delivered[i].seen
            => Before(delivered[i], delivered[j])

QueuedIds == {x.id : x \in Range(items)}
PoppedIds == {x.id : x \in Range(delivered)}
LostIds == {x.id : x \in discarded}

\* Every item Push accepted is in exactly one place: still queued, popped once,
\* or thrown away by Close.
ExactlyOnce ==
    /\ QueuedIds \cup PoppedIds \cup LostIds = 1 .. pushed
    /\ QueuedIds \cap PoppedIds = {}
    /\ QueuedIds \cap LostIds = {}
    /\ PoppedIds \cap LostIds = {}
    /\ DistinctIds(delivered)

\* "Drain is permanent": once some Drain has returned nil the queue is empty and
\* stays so, although draining is set without the mutex and a Push that read
\* the flag before may still be inserting.
DrainedForGood ==
    \A d \in Drainers : dpc[d] = "drained" => items = <<>>

\* As long as nobody has called Drain, the capacity of one of notify loses no
\* wake-up: if items are queued and no consumer is about to look, one is
\* signalled.  (Drain waits on the same channel and may take the signal.)
NoLostWakeup ==
    /\ mu = Free
    /\ items # <<>>
    /\ ~cancelled
    /\ ~draining
    /\ \A c \in Consumers : cpc[c] \notin {"idle", "check"}
    => notify # NoOp

\* Next blocks only "while the queue is empty and not closed" (the comment on
\* Next): a consumer that waits while items are queued does not wait for ever
\* unless someone else takes the items or Drain takes the signal.
NextUnblocks ==
    \A c \in Consumers :
        (cpc[c] = "wait" /\ items # <<>> /\ ~draining)
            ~> (cpc[c] # "wait" \/ items = <<>> \/ draining)

-----------------------------------------------------------------------------

\* What the queue promises: a bag that hands out its least item and, once it
\* stops accepting, never accepts again.
Promise == INSTANCE PriorityBag WITH
    bag       <- Range(items),
    accepting <- mu \in Producers \/ (~draining /\ ~closed)

PromiseSpec == Promise!Spec
=============================================================================
