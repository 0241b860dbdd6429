-------------------------- MODULE SynqQueueProofs ---------------------------
(***************************************************************************)
(* Proofs about SynqQueue for any number of producers, consumers, drainers *)
(* and items.                                                              *)
(***************************************************************************)
EXTENDS SynqQueue, PriorityListProofs

-----------------------------------------------------------------------------
(* The list.                                                               *)

\* The fields of an item are numbers.
LEMMA ItemFields ==
    \A item \in Item : item.prio \in Int /\ item.id \in Int
<1>1. Values \subseteq Int
  BY QueueAssumption, Zenon DEF Values
<1>2. \A item \in Item : item.prio \in Values /\ item.id \in Nat
  BY Zenon DEF Item
<1>3. \A item \in Item : item.prio \in Int
  BY <1>1, <1>2, Zenon
<1>4. \A item \in Item : item.id \in Int
  BY <1>2
<1>5. QED
  BY <1>3, <1>4, Zenon

\* So does linking it in behind the tail when its priority is the lowest.
LEMMA AppendKeepsOrder ==
    ASSUME NEW list \in Seq(Item), NEW item \in Item, item.prio = Lowest,
           Ordered(list), DistinctIds(list),
           \A i \in 1 .. Len(list) : list[i].id < item.id
    PROVE  /\ Append(list, item) \in Seq(Item)
           /\ Ordered(Append(list, item)) /\ DistinctIds(Append(list, item))
           /\ Range(Append(list, item)) = Range(list) \cup {item}
<1> DEFINE list2 == Append(list, item)
<1>1. /\ list2 \in Seq(Item)
      /\ Len(list2) = Len(list) + 1
      /\ list2[Len(list) + 1] = item
      /\ \A j \in 1 .. Len(list) : list2[j] = list[j]
  BY AppendProperties
<1>2. \A j \in 1 .. Len(list) : list[j] \in Item /\ list[j].prio \in Int /\ list[j].id \in Int
  BY ElementOfSeq, ItemFields, Zenon
<1>3. item.prio \in Int /\ item.id \in Int
  BY ItemFields, Zenon
<1>4. \A x \in Item : x.prio <= Lowest
  <2>1. \A v \in Values : v <= Lowest
    BY QueueAssumption DEF Values
  <2>2. \A x \in Item : x.prio \in Values
    BY Zenon DEF Item
  <2>3. QED
    BY <2>1, <2>2, Zenon
<1>5. \A j \in 1 .. Len(list) : Before(list[j], item)
  BY <1>2, <1>3, <1>4 DEF Before
<1> HIDE DEF list2
<1>6. Ordered(list2)
  BY <1>1, <1>5 DEF Ordered
<1>7. DistinctIds(list2)
  BY <1>1, <1>2, <1>3 DEF DistinctIds
<1>8. Range(list2) = Range(list) \cup {item}
  <2>1. DOMAIN list2 = 1 .. Len(list) + 1 /\ DOMAIN list = 1 .. Len(list)
    BY <1>1
  <2>2. QED
    BY <2>1, <1>1 DEF Range
<1>9. QED
  BY <1>1, <1>6, <1>7, <1>8, Zenon DEF list2

-----------------------------------------------------------------------------
(* Type correctness.                                                       *)

\* Every value Push is given is a value of the model.
LEMMA BatchType == PushBatches \subseteq Seq(Values)
<1>1. \A n \in Nat : [1 .. n -> Values] \subseteq Seq(Values)
  BY SeqDef, Zenon
<1>2. QED
  BY <1>1, QueueAssumption DEF PushBatches

\* Taking the head keeps the types of what it changes.
LEMMA TakeHeadType ==
    ASSUME TypeOK, TakeHead
    PROVE  /\ items' \in Seq(Item)
           /\ delivered' \in Seq(Delivery)
           /\ notify' \in Ops \cup {NoOp}
           /\ pushed' \in Nat
           /\ discarded' \subseteq Item
<1>1. Head(items) \in Item /\ Tail(items) \in Seq(Item)
  BY TailElements, Zenon DEF TypeOK, TakeHead
<1>2. [id |-> Head(items).id, prio |-> Head(items).prio, seen |-> pushed] \in Delivery
  BY <1>1, Zenon DEF Item, Delivery, TypeOK
<1>3. QED
  BY <1>1, <1>2 DEF TakeHead, TypeOK, Signal, Ops, NoOp

\* The step of Push's loop keeps the types and the order of the list.
LEMMA PushOneList ==
    ASSUME NEW p, TypeOK, Ordered(items), DistinctIds(items),
           \A i \in 1 .. Len(items) : items[i].id \in 1 .. pushed,
           PushOne(p)
    PROVE  /\ items' \in Seq(Item)
           /\ Ordered(items') /\ DistinctIds(items')
           /\ Range(items') = Range(items)
                                 \cup {[id |-> pushed + 1, prio |-> Head(batch)]}
           /\ Head(batch) \in Values
           /\ batch' \in Seq(Values)
<1> DEFINE item == [id |-> pushed + 1, prio |-> Head(batch)]
<1>1. Head(batch) \in Values /\ Tail(batch) \in Seq(Values)
  BY TailElements, Zenon DEF TypeOK, PushOne
<1>2. item \in Item /\ item.id = pushed + 1 /\ item.prio = Head(batch)
  BY <1>1 DEF Item, TypeOK
<1>3. \A i \in 1 .. Len(items) : items[i].id < item.id
  BY <1>2 DEF TypeOK
<1>4. items \in Seq(Item)
  BY Zenon DEF TypeOK
<1>5. CASE Head(batch) = Lowest
  <2>1. items' = Append(items, item)
    BY <1>5, Zenon DEF PushOne, AppendItem
  <2>2. QED
    BY <2>1, <1>1, <1>2, <1>3, <1>4, <1>5, AppendKeepsOrder, Zenon DEF PushOne
<1>6. CASE Head(batch) # Lowest
  <2>1. InsertWithPriority(items, item, items')
    BY <1>6, Zenon DEF PushOne, InsertItem
  <2> HIDE DEF item
  <2>2. /\ items' \in Seq(Item)
        /\ Ordered(items') /\ DistinctIds(items')
        /\ Range(items') = Range(items) \cup {item}
    BY <2>1, <1>2, <1>3, <1>4, InsertKeepsOrder, ItemFields, Zenon DEF Numbered
  <2>3. QED
    BY <2>2, <1>1, Zenon DEF PushOne, item
<1>7. QED
  BY <1>5, <1>6, Zenon

\* The part of the invariant that is about the list.
ListInv ==
    /\ TypeOK
    /\ Ordered(items) /\ DistinctIds(items)
    /\ \A x \in Range(items) : x.id \in 1 .. pushed

\* The same by position.
LEMMA ListIds ==
    ASSUME ListInv
    PROVE  \A i \in 1 .. Len(items) : items[i].id \in 1 .. pushed
  BY DEF ListInv, TypeOK, Range

\* Type correctness is preserved.
LEMMA TypeStep == ListInv /\ [Next]_vars => TypeOK'
<1> SUFFICES ASSUME ListInv, [Next]_vars PROVE TypeOK'
  BY Zenon
<1> USE QueueAssumption
<1>0. TypeOK
  BY Zenon DEF ListInv
<1>1. CASE UNCHANGED vars
  BY <1>0, <1>1, Zenon DEF vars, TypeOK
<1>2. ASSUME NEW p \in Producers, ProducerStep(p) PROVE TypeOK'
  <2>1. ASSUME NEW values \in PushBatches, Push(p, values) PROVE TypeOK'
    BY <1>0, <2>1, BatchType, Zenon DEF TypeOK, Push, qvars
  <2>2. CASE PushOne(p)
    <3>1. items' \in Seq(Item) /\ batch' \in Seq(Values)
      BY <2>2, <1>0, ListIds, PushOneList, Zenon DEF ListInv
    <3>2. QED
      BY <3>1, <1>0, <2>2 DEF TypeOK, PushOne
  <2>3. CASE PushDone(p)
    BY <1>0, <2>3, Zenon DEF TypeOK, PushDone, Signal, Ops, NoOp
  <2>4. QED
    BY <1>2, <2>1, <2>2, <2>3, Zenon DEF ProducerStep
<1>3. ASSUME NEW c \in Consumers, NextStep(c) PROVE TypeOK'
  <2>1. CASE NextCall(c)
    BY <1>0, <2>1, Zenon DEF TypeOK, NextCall, qvars
  <2>2. CASE NextTake(c)
    <3>1. TakeHead
      BY <2>2, Zenon DEF NextTake
    <3>2. QED
      BY <3>1, <1>0, <2>2, TakeHeadType, Zenon DEF TypeOK, NextTake
  <2>3. CASE NextEmpty(c)
    BY <1>0, <2>3, Zenon DEF TypeOK, NextEmpty, qvars
  <2>4. CASE NextWake(c)
    BY <1>0, <2>4, Zenon DEF TypeOK, NextWake
  <2>5. CASE NextCancelled(c)
    BY <1>0, <2>5, Zenon DEF TypeOK, NextCancelled, qvars
  <2>6. QED
    BY <1>3, <2>1, <2>2, <2>3, <2>4, <2>5, Zenon DEF NextStep
<1>4. ASSUME NEW c \in Consumers, PopStep(c) PROVE TypeOK'
  <2>1. CASE Pop(c)
    <3>1. TakeHead
      BY <2>1, Zenon DEF Pop
    <3>2. QED
      BY <3>1, <1>0, <2>1, TakeHeadType, Zenon DEF TypeOK, Pop
  <2>2. ASSUME NEW n \in 1 .. MaxBatch, PopN(c, n) PROVE TypeOK'
    <3>1. want' \in Nat
      BY <1>0, <2>2 DEF TypeOK, PopN
    <3>2. QED
      BY <3>1, <1>0, <2>2, Zenon DEF TypeOK, PopN, qvars
  <2>3. CASE PopNOne(c)
    <3>1. TakeHead /\ want' \in Nat
      BY <1>0, <2>3 DEF PopNOne, TypeOK
    <3>2. QED
      BY <3>1, <1>0, <2>3, TakeHeadType, Zenon DEF TypeOK, PopNOne
  <2>4. CASE PopNDone(c)
    BY <1>0, <2>4, Zenon DEF TypeOK, PopNDone, qvars
  <2>5. QED
    BY <1>4, <2>1, <2>2, <2>3, <2>4, Zenon DEF PopStep
<1>5. ASSUME NEW d \in Drainers, DrainStep(d) PROVE TypeOK'
  <2>1. CASE Drain(d)
    BY <1>0, <2>1, Zenon DEF TypeOK, Drain, qvars
  <2>2. CASE DrainCheck(d)
    BY <1>0, <2>2, Zenon DEF TypeOK, DrainCheck, qvars
  <2>3. CASE DrainWake(d)
    BY <1>0, <2>3, Zenon DEF TypeOK, DrainWake
  <2>4. CASE DrainExpired(d)
    BY <1>0, <2>4, Zenon DEF TypeOK, DrainExpired, qvars
  <2>5. QED
    BY <1>5, <2>1, <2>2, <2>3, <2>4, Zenon DEF DrainStep
<1>6. CASE Close
  <2>1. Range(items) \subseteq Item
    BY <1>0 DEF TypeOK, Range
  <2>2. QED
    BY <2>1, <1>0, <1>6 DEF TypeOK, Close
<1>7. CASE CancelParent
  BY <1>0, <1>7, Zenon DEF TypeOK, CancelParent, qvars
<1>8. QED
  BY <1>1, <1>2, <1>3, <1>4, <1>5, <1>6, <1>7, Zenon DEF Next

-----------------------------------------------------------------------------
(* Order and conservation.                                                 *)

\* What a step does to the list and to the histories.
LEMMA StepKinds ==
    ASSUME [Next]_vars
    PROVE  \/ \E p \in Producers : PushOne(p)
           \/ TakeHead
           \/ Close
           \/ UNCHANGED <<items, pushed, delivered, discarded>>
  BY Zenon DEF Next, vars, qvars, ProducerStep, NextStep, PopStep, DrainStep, Push, PushDone,
         Pop, PopN, PopNOne, PopNDone, NextCall, NextTake, NextEmpty, NextWake,
         NextCancelled, Drain, DrainCheck, DrainWake, DrainExpired, CancelParent

\* The list stays ordered, without duplicates, and holds accepted items only.
LEMMA ListStep == ListInv /\ [Next]_vars => ListInv'
<1> SUFFICES ASSUME ListInv, [Next]_vars PROVE ListInv'
  BY Zenon
<1>0. TypeOK'
  BY TypeStep, Zenon
<1>1. CASE \E p \in Producers : PushOne(p)
  <2>1. PICK p \in Producers : PushOne(p)
    BY <1>1, Zenon
  <2>2. /\ Ordered(items') /\ DistinctIds(items')
        /\ Range(items') = Range(items) \cup {[id |-> pushed + 1, prio |-> Head(batch)]}
    BY <2>1, ListIds, PushOneList, Zenon DEF ListInv
  <2>3. pushed \in Nat /\ pushed' = pushed + 1
    BY <2>1, Zenon DEF PushOne, ListInv, TypeOK
  <2>4. \A x \in Range(items') : x.id \in 1 .. pushed'
    BY <2>2, <2>3 DEF ListInv
  <2>5. QED
    BY <1>0, <2>2, <2>4, Zenon DEF ListInv
<1>2. CASE TakeHead
  <2>1. /\ Ordered(items') /\ DistinctIds(items')
        /\ Range(items') = Range(items) \ {Head(items)}
    BY <1>2, TailKeepsOrder, Zenon DEF TakeHead, ListInv, TypeOK
  <2>2. QED
    BY <2>1, <1>0, <1>2, Zenon DEF TakeHead, ListInv
<1>3. CASE Close
  <2>1. items' = <<>> /\ pushed' = pushed
    BY <1>3, Zenon DEF Close
  <2>2. Ordered(items') /\ DistinctIds(items') /\ Range(items') = {}
    BY <2>1 DEF Ordered, DistinctIds, Range
  <2>3. QED
    BY <2>2, <1>0, Zenon DEF ListInv
<1>4. CASE UNCHANGED <<items, pushed, delivered, discarded>>
  BY <1>0, <1>4, Zenon DEF ListInv, Ordered, DistinctIds, Range
<1>5. QED
  BY <1>1, <1>2, <1>3, <1>4, StepKinds, Zenon

\* The empty queue.
LEMMA ListInit == Init => ListInv
<1> SUFFICES ASSUME Init PROVE ListInv
  BY Zenon
<1>1. TypeOK
  <2>1. /\ <<>> \in Seq(Item) /\ <<>> \in Seq(Values) /\ <<>> \in Seq(Delivery)
    BY EmptySeq, Zenon
  <2>2. /\ cpc \in [Consumers -> {"idle", "check", "wait", "stopped"}]
        /\ dpc \in [Drainers -> {"idle", "check", "wait", "drained", "expired"}]
        /\ notify \in Ops \cup {NoOp}
        /\ mu \in Producers \cup Consumers \cup {Free}
    BY Zenon DEF Init
  <2>3. QED
    BY <2>1, <2>2, Zenon DEF Init, TypeOK
<1>2. Ordered(items) /\ DistinctIds(items) /\ Range(items) = {}
  BY DEF Init, Ordered, DistinctIds, Range
<1>3. QED
  BY <1>1, <1>2, Zenon DEF ListInv

\* Type correctness of the queue for every number of goroutines and items.
THEOREM QueueTypeCorrect == Spec => []TypeOK
<1>1. ListInv => TypeOK
  BY Zenon DEF ListInv
<1>2. QED
  BY <1>1, ListInit, ListStep, PTL DEF Spec

\* What makes NoOvertaking inductive: nothing that is queued overtook what was
\* popped while it was queued already.
OrderInv ==
    /\ \A i \in 1 .. Len(delivered) : delivered[i].seen <= pushed
    /\ \A i \in 1 .. Len(delivered) : \A x \in Range(items) :
          x.id <= delivered[i].seen => Before(delivered[i], x)
    /\ NoOvertaking

\* A new item is younger than everything popped; the head, when it is popped,
\* is before everything that stays queued.
LEMMA OrderStep == ListInv /\ OrderInv /\ [Next]_vars => OrderInv'
<1> SUFFICES ASSUME ListInv, OrderInv, [Next]_vars PROVE OrderInv'
  BY Zenon
<1>0. /\ pushed \in Nat /\ delivered \in Seq(Delivery) /\ items \in Seq(Item)
      /\ \A i \in 1 .. Len(delivered) : delivered[i].seen \in Nat
  <2>1. /\ pushed \in Nat /\ delivered \in Seq(Delivery) /\ items \in Seq(Item)
    BY Zenon DEF ListInv, TypeOK
  <2>2. \A i \in 1 .. Len(delivered) : delivered[i] \in Delivery
    BY <2>1, ElementOfSeq, Zenon
  <2>3. \A x \in Delivery : x.seen \in Nat
    BY Zenon DEF Delivery
  <2>4. QED
    BY <2>1, <2>2, <2>3, Zenon
<1>1. CASE \E p \in Producers : PushOne(p)
  <2>1. PICK p \in Producers : PushOne(p)
    BY <1>1, Zenon
  <2>2. Range(items') = Range(items) \cup {[id |-> pushed + 1, prio |-> Head(batch)]}
    BY <2>1, ListIds, PushOneList, Zenon DEF ListInv
  <2>3. pushed' = pushed + 1 /\ delivered' = delivered
    BY <2>1, Zenon DEF PushOne
  <2>4. \A i \in 1 .. Len(delivered') : delivered'[i].seen <= pushed'
    BY <2>3, <1>0 DEF OrderInv
  <2>5. \A i \in 1 .. Len(delivered') : \A x \in Range(items') :
          x.id <= delivered'[i].seen => Before(delivered'[i], x)
    <3> SUFFICES ASSUME NEW i \in 1 .. Len(delivered), NEW x \in Range(items'),
                        x.id <= delivered[i].seen
                 PROVE  Before(delivered[i], x)
      BY <2>3, Zenon
    <3>1. CASE x \in Range(items)
      BY <3>1, Zenon DEF OrderInv
    <3>2. CASE x = [id |-> pushed + 1, prio |-> Head(batch)]
      <4>1. x.id = pushed + 1
        BY <3>2, Zenon
      <4>2. QED
        BY <4>1, <1>0 DEF OrderInv
    <3>3. QED
      BY <3>1, <3>2, <2>2, Zenon
  <2>6. NoOvertaking'
    BY <2>3, Zenon DEF OrderInv, NoOvertaking
  <2>7. QED
    BY <2>4, <2>5, <2>6, Zenon DEF OrderInv
<1>2. CASE TakeHead
  <2> DEFINE h == Head(items)
             d == [id |-> h.id, prio |-> h.prio, seen |-> pushed]
             n == Len(delivered)
  <2>1. /\ Range(items') = Range(items) \ {h}
        /\ h \in Range(items)
        /\ \A x \in Range(items) \ {h} : Before(h, x)
    BY <1>2, <1>0, TailKeepsOrder, Zenon DEF TakeHead, ListInv
  <2>2. /\ delivered' = Append(delivered, d) /\ pushed' = pushed
        /\ d \in Delivery
    <3>1. h \in Item
      BY <1>2, <1>0, TailElements, Zenon DEF TakeHead
    <3>2. QED
      BY <3>1, <1>2, <1>0, Zenon DEF TakeHead, Item, Delivery
  <2>3. /\ n \in Nat /\ Len(delivered') = n + 1 /\ delivered'[n + 1] = d
        /\ \A i \in 1 .. n : delivered'[i] = delivered[i]
    BY <2>2, <1>0, AppendProperties
  <2>4. d.seen = pushed /\ d.id = h.id /\ d.prio = h.prio
    BY Zenon
  <2> HIDE DEF d, h, n
  <2>5. \A i \in 1 .. n + 1 : delivered'[i].seen <= pushed'
    BY <2>2, <2>3, <2>4, <1>0 DEF OrderInv, n
  <2>6. \A i \in 1 .. n + 1 : \A x \in Range(items') :
          x.id <= delivered'[i].seen => Before(delivered'[i], x)
    <3> SUFFICES ASSUME NEW i \in 1 .. n + 1, NEW x \in Range(items'),
                        x.id <= delivered'[i].seen
                 PROVE  Before(delivered'[i], x)
      BY Zenon
    <3>1. CASE i \in 1 .. n
      BY <3>1, <2>1, <2>3, Zenon DEF OrderInv, n
    <3>2. CASE i = n + 1
      BY <3>2, <2>1, <2>3, <2>4, Zenon DEF Before
    <3>3. QED
      BY <3>1, <3>2, <2>3
  <2>7. NoOvertaking'
    <3> SUFFICES ASSUME NEW i \in 1 .. n + 1, NEW j \in 1 .. n + 1, i < j,
                        delivered'[j].id <= delivered'[i].seen
                 PROVE  Before(delivered'[i], delivered'[j])
      BY <2>3, Zenon DEF NoOvertaking
    <3>1. CASE j \in 1 .. n
      <4>1. i \in 1 .. n /\ j \in 1 .. n
        BY <3>1, <2>3
      <4>2. delivered'[i] = delivered[i] /\ delivered'[j] = delivered[j]
        BY <4>1, <2>3, Zenon
      <4>3. QED
        BY <4>1, <4>2, Zenon DEF OrderInv, NoOvertaking, n
    <3>2. CASE j = n + 1
      <4>1. i \in 1 .. n /\ delivered'[i] = delivered[i] /\ delivered'[j] = d
        BY <3>2, <2>3
      <4>2. Before(delivered[i], h)
        BY <4>1, <2>1, <2>4, Zenon DEF OrderInv, n
      <4>3. QED
        BY <4>1, <4>2, <2>4, Zenon DEF Before
    <3>3. QED
      BY <3>1, <3>2, <2>3
  <2>8. QED
    BY <2>3, <2>5, <2>6, <2>7, Zenon DEF OrderInv
<1>3. CASE Close
  <2>1. Range(items') = {} /\ delivered' = delivered /\ pushed' = pushed
    BY <1>3 DEF Close, Range
  <2>2. NoOvertaking'
    BY <2>1, Zenon DEF OrderInv, NoOvertaking
  <2>3. QED
    BY <2>1, <2>2, Zenon DEF OrderInv
<1>4. CASE UNCHANGED <<items, pushed, delivered, discarded>>
  <2>1. NoOvertaking'
    BY <1>4, Zenon DEF OrderInv, NoOvertaking
  <2>2. Range(items') = Range(items)
    BY <1>4, Zenon
  <2>3. QED
    BY <1>4, <2>1, <2>2, Zenon DEF OrderInv
<1>5. QED
  BY <1>1, <1>2, <1>3, <1>4, StepKinds, Zenon

\* The order the queue owes its callers (NoOvertaking), for every number of
\* goroutines, items and priorities: insertWithPriority, append and pop under
\* any interleaving of Push, Next, Pop, PopN, Drain and Close.
THEOREM QueueOrder == Spec => []NoOvertaking
<1>1. Init => OrderInv
  BY DEF Init, OrderInv, NoOvertaking
<1>2. OrderInv => NoOvertaking
  BY Zenon DEF OrderInv
<1>3. QED
  BY <1>1, <1>2, ListInit, ListStep, OrderStep, PTL DEF Spec

\* Where the accepted items are, step by step.
LEMMA PlaceStep == ListInv /\ ExactlyOnce /\ [Next]_vars => ExactlyOnce'
<1> SUFFICES ASSUME ListInv, ExactlyOnce, [Next]_vars PROVE ExactlyOnce'
  BY Zenon
<1>0. /\ pushed \in Nat /\ delivered \in Seq(Delivery) /\ items \in Seq(Item)
  BY Zenon DEF ListInv, TypeOK
<1>1. CASE \E p \in Producers : PushOne(p)
  <2>1. PICK p \in Producers : PushOne(p)
    BY <1>1, Zenon
  <2> DEFINE item == [id |-> pushed + 1, prio |-> Head(batch)]
  <2>2. Range(items') = Range(items) \cup {item}
    BY <2>1, ListIds, PushOneList, Zenon DEF ListInv
  <2>3. pushed' = pushed + 1 /\ delivered' = delivered /\ discarded' = discarded
    BY <2>1, Zenon DEF PushOne
  <2>4. QueuedIds' = QueuedIds \cup {pushed + 1}
    <3>1. item.id = pushed + 1
      BY Zenon
    <3> HIDE DEF item
    <3>2. QED
      BY <3>1, <2>2 DEF QueuedIds
  <2>5. PoppedIds' = PoppedIds /\ LostIds' = LostIds /\ DistinctIds(delivered')
    BY <2>3, Zenon DEF PoppedIds, LostIds, ExactlyOnce
  <2>6. 1 .. pushed' = (1 .. pushed) \cup {pushed + 1} /\ pushed + 1 \notin 1 .. pushed
    BY <2>3, <1>0
  <2>7. PoppedIds \subseteq 1 .. pushed /\ LostIds \subseteq 1 .. pushed
    BY Zenon DEF ExactlyOnce
  <2>8. QED
    BY <2>4, <2>5, <2>6, <2>7, Zenon DEF ExactlyOnce
<1>2. CASE TakeHead
  <2> DEFINE h == Head(items)
             d == [id |-> h.id, prio |-> h.prio, seen |-> pushed]
             n == Len(delivered)
  <2>1. /\ Range(items') = Range(items) \ {h}
        /\ h \in Range(items)
        /\ \A x \in Range(items) \ {h} : x.id # h.id
    BY <1>2, <1>0, TailKeepsOrder, Zenon DEF TakeHead, ListInv
  <2>2. /\ delivered' = Append(delivered, d) /\ pushed' = pushed /\ discarded' = discarded
        /\ d \in Delivery /\ d.id = h.id
    <3>1. h \in Item
      BY <1>2, <1>0, TailElements, Zenon DEF TakeHead
    <3>2. QED
      BY <3>1, <1>2, <1>0, Zenon DEF TakeHead, Item, Delivery
  <2> HIDE DEF d, h
  <2>3. /\ n \in Nat /\ Len(delivered') = n + 1 /\ delivered'[n + 1] = d
        /\ \A i \in 1 .. n : delivered'[i] = delivered[i]
        /\ delivered' \in Seq(Delivery)
    BY <2>2, <1>0, AppendProperties
  <2>4. QueuedIds' = QueuedIds \ {h.id} /\ h.id \in QueuedIds
    BY <2>1, Zenon DEF QueuedIds
  <2>5. Range(delivered') = Range(delivered) \cup {d}
    <3>1. DOMAIN delivered' = 1 .. n + 1 /\ DOMAIN delivered = 1 .. n
      BY <2>3, <1>0
    <3>2. QED
      BY <3>1, <2>3 DEF Range
  <2>6. PoppedIds' = PoppedIds \cup {h.id} /\ LostIds' = LostIds
    BY <2>5, <2>2, Zenon DEF PoppedIds, LostIds
  <2>7. \A i \in 1 .. n : delivered[i].id # h.id
    <3>1. \A i \in 1 .. n : delivered[i] \in Range(delivered)
      BY <1>0 DEF Range
    <3>2. QED
      BY <3>1, <2>4, Zenon DEF ExactlyOnce, PoppedIds
  <2>8. DistinctIds(delivered')
    <3> SUFFICES ASSUME NEW i \in 1 .. n + 1, NEW j \in 1 .. n + 1, i < j
                 PROVE  delivered'[i].id # delivered'[j].id
      BY <2>3, Zenon DEF DistinctIds
    <3>1. CASE j \in 1 .. n
      <4>1. i \in 1 .. n
        BY <3>1, <2>3
      <4>2. QED
        BY <4>1, <3>1, <2>3, Zenon DEF DistinctIds, ExactlyOnce
    <3>2. CASE j = n + 1
      <4>1. i \in 1 .. n
        BY <3>2, <2>3
      <4>2. QED
        BY <4>1, <3>2, <2>2, <2>3, <2>7, Zenon
    <3>3. QED
      BY <3>1, <3>2, <2>3
  <2>9. QED
    BY <2>2, <2>4, <2>6, <2>8, Zenon DEF ExactlyOnce
<1>3. CASE Close
  <2>1. Range(items') = {} /\ delivered' = delivered /\ pushed' = pushed
        /\ discarded' = discarded \cup Range(items)
    BY <1>3 DEF Close, Range
  <2>2. QueuedIds' = {} /\ PoppedIds' = PoppedIds /\ LostIds' = LostIds \cup QueuedIds
    BY <2>1, Zenon DEF QueuedIds, PoppedIds, LostIds
  <2>3. QED
    BY <2>1, <2>2, Zenon DEF ExactlyOnce
<1>4. CASE UNCHANGED <<items, pushed, delivered, discarded>>
  <2>1. QueuedIds' = QueuedIds /\ PoppedIds' = PoppedIds /\ LostIds' = LostIds
    BY <1>4, Zenon DEF QueuedIds, PoppedIds, LostIds
  <2>2. QED
    BY <1>4, <2>1, Zenon DEF ExactlyOnce
<1>5. QED
  BY <1>1, <1>2, <1>3, <1>4, StepKinds, Zenon

\* Conservation (ExactlyOnce): the list surgery of insertWithPriority, append,
\* pop and Close neither loses nor duplicates an item Push accepted.
THEOREM QueueConservation == Spec => []ExactlyOnce
<1>1. Init => ExactlyOnce
  BY DEF Init, ExactlyOnce, QueuedIds, PoppedIds, LostIds, DistinctIds, Range
<1>2. QED
  BY <1>1, ListInit, ListStep, PlaceStep, PTL DEF Spec

-----------------------------------------------------------------------------
(* Drain and the notification channel.                                     *)

\* What makes DrainedForGood inductive: whoever called Drain finds the flag
\* set, and after a Drain that returned nil no Push is under way.
DrainInv ==
    /\ \A d \in Drainers : dpc[d] # "idle" => draining
    /\ \A d \in Drainers : dpc[d] = "drained" => items = <<>> /\ mu \notin Producers
    /\ closed => items = <<>> /\ mu \notin Producers

\* The critical section of Drain excludes a Push that is under way; a later one
\* sees the flag.
LEMMA DrainInvStep == ListInv /\ DrainInv /\ [Next]_vars => DrainInv'
<1> SUFFICES ASSUME ListInv, DrainInv, [Next]_vars PROVE DrainInv'
  BY Zenon
<1>0. dpc \in [Drainers -> {"idle", "check", "wait", "drained", "expired"}]
  BY Zenon DEF ListInv, TypeOK
<1>1. CASE UNCHANGED vars
  BY <1>1, Zenon DEF vars, DrainInv
<1>2. ASSUME NEW p \in Producers, ProducerStep(p) PROVE DrainInv'
  <2>1. ASSUME NEW values \in PushBatches, Push(p, values) PROVE DrainInv'
    BY <2>1, <1>0, Zenon DEF DrainInv, Push, qvars
  <2>2. CASE PushOne(p)
    BY <2>2, <1>2, <1>0, Zenon DEF DrainInv, PushOne
  <2>3. CASE PushDone(p)
    BY <2>3, <1>2, <1>0, QueueAssumption, Zenon DEF DrainInv, PushDone
  <2>4. QED
    BY <1>2, <2>1, <2>2, <2>3, Zenon DEF ProducerStep
<1>3. ASSUME NEW c \in Consumers, NextStep(c) PROVE DrainInv'
  BY <1>3, <1>0 DEF DrainInv, NextStep, NextCall, NextTake, NextEmpty, NextWake,
                    NextCancelled, TakeHead, qvars
<1>4. ASSUME NEW c \in Consumers, PopStep(c) PROVE DrainInv'
  <2>1. CASE Pop(c)
    BY <2>1, <1>0, QueueAssumption, Zenon DEF DrainInv, Pop, TakeHead
  <2>2. ASSUME NEW n \in 1 .. MaxBatch, PopN(c, n) PROVE DrainInv'
    BY <2>2, <1>0, QueueAssumption, Zenon DEF DrainInv, PopN, qvars
  <2>3. CASE PopNOne(c)
    BY <2>3, <1>0, QueueAssumption, Zenon DEF DrainInv, PopNOne, TakeHead
  <2>4. CASE PopNDone(c)
    BY <2>4, <1>0, QueueAssumption, Zenon DEF DrainInv, PopNDone, qvars
  <2>5. QED
    BY <1>4, <2>1, <2>2, <2>3, <2>4, Zenon DEF PopStep
<1>5. ASSUME NEW d \in Drainers, DrainStep(d) PROVE DrainInv'
  <2>1. CASE Drain(d)
    BY <2>1, <1>0, Zenon DEF DrainInv, Drain, qvars
  <2>2. CASE DrainCheck(d)
    BY <2>2, <1>0, QueueAssumption, Zenon DEF DrainInv, DrainCheck, qvars
  <2>3. CASE DrainWake(d)
    BY <2>3, <1>0, Zenon DEF DrainInv, DrainWake
  <2>4. CASE DrainExpired(d)
    BY <2>4, <1>0, Zenon DEF DrainInv, DrainExpired, qvars
  <2>5. QED
    BY <1>5, <2>1, <2>2, <2>3, <2>4, Zenon DEF DrainStep
<1>6. CASE Close
  BY <1>6, QueueAssumption, Zenon DEF DrainInv, Close
<1>7. CASE CancelParent
  BY <1>7, Zenon DEF DrainInv, CancelParent, qvars
<1>8. QED
  BY <1>1, <1>2, <1>3, <1>4, <1>5, <1>6, <1>7, Zenon DEF Next

\* "Drain is permanent" (DrainedForGood), although the flag is set without the
\* mutex: a Push that read it before is finished before Drain looks.
THEOREM QueueDrained == Spec => []DrainedForGood
<1>1. Init => DrainInv
  BY Zenon DEF Init, DrainInv
<1>2. DrainInv => DrainedForGood
  BY Zenon DEF DrainInv, DrainedForGood
<1>3. QED
  BY <1>1, <1>2, ListInit, ListStep, DrainInvStep, PTL DEF Spec

\* What makes NoLostWakeup inductive: a consumer inside PopN is not inside Next,
\* the signal is owed from the moment a Push leaves the mutex, and whoever is
\* inside Drain has set the flag.
WakeInv ==
    /\ mu \in Consumers => cpc[mu] = "idle"
    /\ (/\ mu \notin Producers
        /\ items # <<>>
        /\ ~cancelled
        /\ ~draining
        /\ \A c \in Consumers : cpc[c] \notin {"idle", "check"})
       => notify # NoOp
    /\ \A d \in Drainers : dpc[d] # "idle" => draining

\* Whoever takes the notification looks at the list afterwards.
LEMMA WakeStep ==
    ASSUME ListInv, WakeInv, [Next]_vars
    PROVE  WakeInv'
<1>0. /\ cpc \in [Consumers -> {"idle", "check", "wait", "stopped"}]
      /\ dpc \in [Drainers -> {"idle", "check", "wait", "drained", "expired"}]
      /\ draining \in BOOLEAN
  BY Zenon DEF ListInv, TypeOK
<1>1. CASE UNCHANGED vars
  BY <1>1, Zenon DEF vars, WakeInv
<1>2. ASSUME NEW p \in Producers, ProducerStep(p) PROVE WakeInv'
  <2>1. ASSUME NEW values \in PushBatches, Push(p, values) PROVE WakeInv'
    BY <1>2, <2>1, QueueAssumption, Zenon DEF WakeInv, Push, qvars
  <2>2. CASE PushOne(p)
    BY <1>2, <2>2, QueueAssumption, Zenon DEF WakeInv, PushOne
  <2>3. CASE PushDone(p)
    BY <2>3, QueueAssumption, Zenon DEF WakeInv, PushDone, Signal, NoOp
  <2>4. QED
    BY <1>2, <2>1, <2>2, <2>3, Zenon DEF ProducerStep
<1>3. ASSUME NEW c \in Consumers, NextStep(c) PROVE WakeInv'
  <2>1. CASE NextCall(c)
    BY <1>0, <1>3, <2>1, Zenon DEF WakeInv, NextCall
  <2>2. CASE NextTake(c)
    BY <1>0, <1>3, <2>2, QueueAssumption, Zenon DEF WakeInv, NextTake
  <2>3. CASE NextEmpty(c)
    BY <1>0, <1>3, <2>3, QueueAssumption, Zenon DEF WakeInv, NextEmpty, qvars
  <2>4. CASE NextWake(c)
    BY <1>0, <1>3, <2>4, Zenon DEF WakeInv, NextWake
  <2>5. CASE NextCancelled(c)
    BY <1>0, <1>3, <2>5, Zenon DEF WakeInv, NextCancelled
  <2>6. QED
    BY <1>3, <2>1, <2>2, <2>3, <2>4, <2>5, Zenon DEF NextStep
<1>4. ASSUME NEW c \in Consumers, PopStep(c) PROVE WakeInv'
  <2>1. CASE Pop(c)
    BY <1>0, <1>4, <2>1, QueueAssumption, Zenon DEF WakeInv, Pop
  <2>2. ASSUME NEW n \in 1 .. MaxBatch, PopN(c, n) PROVE WakeInv'
    BY <1>0, <1>4, <2>2, Zenon DEF WakeInv, PopN
  <2>3. CASE PopNOne(c)
    BY <1>0, <1>4, <2>3, Zenon DEF WakeInv, PopNOne
  <2>4. CASE PopNDone(c)
    BY <1>0, <1>4, <2>4, QueueAssumption, Zenon DEF WakeInv, PopNDone
  <2>5. QED
    BY <1>4, <2>1, <2>2, <2>3, <2>4, Zenon DEF PopStep
<1>5. CASE Close
  BY <1>5, QueueAssumption, Zenon DEF WakeInv, Close
<1>6. CASE CancelParent
  BY <1>6, Zenon DEF WakeInv, CancelParent, qvars
<1>7. ASSUME NEW d \in Drainers, DrainStep(d) PROVE WakeInv'
  <2>1. CASE Drain(d)
    BY <1>0, <1>7, <2>1, Zenon DEF WakeInv, Drain, qvars
  <2>2. CASE DrainCheck(d)
    BY <1>0, <1>7, <2>2, Zenon DEF WakeInv, DrainCheck, qvars
  <2>3. CASE DrainWake(d)
    BY <1>0, <1>7, <2>3, Zenon DEF WakeInv, DrainWake
  <2>4. CASE DrainExpired(d)
    BY <1>0, <1>7, <2>4, Zenon DEF WakeInv, DrainExpired, qvars
  <2>5. QED
    BY <1>7, <2>1, <2>2, <2>3, <2>4, Zenon DEF DrainStep
<1>8. QED
  BY <1>1, <1>2, <1>3, <1>4, <1>5, <1>6, <1>7, Zenon DEF Next

\* The channel of capacity one loses no wake-up until somebody drains the
\* queue, for any number of producers, consumers and drainers.
THEOREM QueueWakeup == Spec => []NoLostWakeup
<1>1. Init => WakeInv
  BY QueueAssumption, Zenon DEF Init, WakeInv
<1>2. WakeInv => NoLostWakeup
  BY QueueAssumption, Zenon DEF WakeInv, NoLostWakeup
<1>3. ListInv /\ WakeInv /\ [Next]_vars => WakeInv'
  BY WakeStep, Zenon
<1>4. QED
  BY <1>1, <1>2, <1>3, ListInit, ListStep, PTL DEF Spec

-----------------------------------------------------------------------------
(* The queue implements the priority bag.                                  *)

\* The head of the list is the least item of the bag.
LEMMA HeadIsLeast ==
    ASSUME ListInv, TakeHead
    PROVE  /\ Head(items) \in Promise!Least(Range(items))
           /\ Range(items') = Range(items) \ {Head(items)}
<1>1. /\ Range(items') = Range(items) \ {Head(items)}
      /\ Head(items) \in Range(items)
      /\ \A x \in Range(items) \ {Head(items)} : Before(Head(items), x)
  BY TailKeepsOrder, Zenon DEF ListInv, TypeOK, TakeHead
<1>2. QED
  BY <1>1, Zenon DEF Promise!Least, Before

\* Every step of the queue is a step of the bag, or leaves the bag alone.
LEMMA PromiseStep ==
    ASSUME ListInv, [Next]_vars
    PROVE  [Promise!Next]_<<Range(items), pushed, mu \in Producers \/ (~draining /\ ~closed)>>
<1> DEFINE acc == mu \in Producers \/ (~draining /\ ~closed)
<1>1. ASSUME NEW p \in Producers, PushOne(p) PROVE Promise!Next
  <2>1. /\ Range(items') = Range(items) \cup {[id |-> pushed + 1, prio |-> Head(batch)]}
        /\ Head(batch) \in Values
    BY <1>1, ListIds, PushOneList, Zenon DEF ListInv
  <2>2. acc /\ acc' /\ pushed' = pushed + 1
    BY <1>1, Zenon DEF PushOne
  <2>3. Promise!Add(Head(batch))
    BY <2>1, <2>2, Zenon DEF Promise!Add
  <2>4. QED
    BY <2>1, <2>3, Zenon DEF Promise!Next
<1>2. ASSUME TakeHead, UNCHANGED <<draining, closed>>, mu' = mu PROVE Promise!Next
  <2>1. Promise!Take
    BY <1>2, HeadIsLeast, Zenon DEF Promise!Take, TakeHead
  <2>2. QED
    BY <2>1, Zenon DEF Promise!Next
<1>3. ASSUME UNCHANGED <<items, pushed>>, acc' = acc
      PROVE  UNCHANGED <<Range(items), pushed, acc>>
  BY <1>3, Zenon
<1>4. ASSUME UNCHANGED <<items, pushed>>, acc' = FALSE PROVE Promise!Next
  BY <1>4, Zenon DEF Promise!Next, Promise!Stop
<1>5. QED
  <2>1. CASE UNCHANGED vars
    BY <2>1, <1>3, Zenon DEF vars
  <2>2. ASSUME NEW p \in Producers, ProducerStep(p)
        PROVE  [Promise!Next]_<<Range(items), pushed, acc>>
    <3>1. ASSUME NEW values \in PushBatches, Push(p, values)
          PROVE  [Promise!Next]_<<Range(items), pushed, acc>>
      <4>1. UNCHANGED <<items, pushed>> /\ acc' = acc
        BY <3>1, <2>2, Zenon DEF Push, qvars
      <4>2. QED
        BY <4>1, <1>3, Zenon
    <3>2. CASE PushOne(p)
      BY <3>2, <2>2, <1>1, Zenon
    <3>3. CASE PushDone(p)
      <4>1. UNCHANGED <<items, pushed>> /\ (acc' = acc \/ acc' = FALSE)
        BY <3>3, <2>2, QueueAssumption, Zenon DEF PushDone
      <4>2. QED
        BY <4>1, <1>3, <1>4, Zenon
    <3>4. QED
      BY <2>2, <3>1, <3>2, <3>3, Zenon DEF ProducerStep
  <2>3. ASSUME NEW c \in Consumers, NextStep(c)
        PROVE  [Promise!Next]_<<Range(items), pushed, acc>>
    <3>1. CASE NextTake(c)
      BY <3>1, <1>2, Zenon DEF NextTake
    <3>2. CASE NextCall(c) \/ NextEmpty(c) \/ NextWake(c) \/ NextCancelled(c)
      <4>1. UNCHANGED <<items, pushed, mu, draining, closed>>
        BY <3>2, Zenon DEF NextCall, NextEmpty, NextWake, NextCancelled, qvars
      <4>2. QED
        BY <4>1, <1>3, Zenon
    <3>3. QED
      BY <2>3, <3>1, <3>2, Zenon DEF NextStep
  <2>4. ASSUME NEW c \in Consumers, PopStep(c)
        PROVE  [Promise!Next]_<<Range(items), pushed, acc>>
    <3>1. CASE Pop(c)
      BY <3>1, <1>2, Zenon DEF Pop
    <3>2. CASE PopNOne(c)
      BY <3>2, <1>2, Zenon DEF PopNOne
    <3>3. CASE PopNDone(c) \/ \E n \in 1 .. MaxBatch : PopN(c, n)
      <4>1. UNCHANGED <<items, pushed>> /\ acc' = acc
        BY <3>3, <2>4, QueueAssumption DEF PopN, PopNDone, qvars
      <4>2. QED
        BY <4>1, <1>3, Zenon
    <3>4. QED
      BY <2>4, <3>1, <3>2, <3>3, Zenon DEF PopStep
  <2>5. ASSUME NEW d \in Drainers, DrainStep(d)
        PROVE  [Promise!Next]_<<Range(items), pushed, acc>>
    <3>1. UNCHANGED <<items, pushed>> /\ (acc' = acc \/ acc' = FALSE)
      BY <2>5 DEF DrainStep, Drain, DrainCheck, DrainWake, DrainExpired, qvars
    <3>2. QED
      BY <3>1, <1>3, <1>4, Zenon
  <2>6. CASE Close
    <3>1. Range(items') = {} /\ pushed' = pushed
      BY <2>6 DEF Close, Range
    <3>2. acc' = FALSE
      BY <2>6, QueueAssumption, Zenon DEF Close
    <3>3. QED
      BY <3>1, <3>2, Zenon DEF Promise!Next, Promise!Discard
  <2>7. CASE CancelParent
    BY <2>7, <1>3, Zenon DEF CancelParent, qvars
  <2>8. QED
    BY <2>1, <2>2, <2>3, <2>4, <2>5, <2>6, <2>7, Zenon DEF Next

\* synq.Queue implements PriorityBag: only the least item is handed out, every
\* item is handed out at most once, and a bag that stopped accepting (Drain or
\* Close) never accepts again.
THEOREM QueueImplementsBag == Spec => PromiseSpec
<1>1. Init => Promise!Init
  BY QueueAssumption DEF Init, Promise!Init, Range
<1>2. ListInv /\ [Next]_vars => [Promise!Next]_(Promise!bvars)
  BY PromiseStep, Zenon DEF Promise!bvars
<1>3. QED
  BY <1>1, <1>2, ListInit, ListStep, PTL
     DEF Spec, PromiseSpec, Promise!Spec
=============================================================================
