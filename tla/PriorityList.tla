---------------------------- MODULE PriorityList ----------------------------
(***************************************************************************)
(* The linked list inside synq.Queue (pkg/synq/queue.go).  A node carries  *)
(* an item [id, prio]: prio is the value of QueuePriority(), or the        *)
(* largest int for a value that has no such method; id numbers the items   *)
(* in the order in which they were linked into the list.                   *)
(***************************************************************************)
EXTENDS Integers, Sequences, Functions

\* Mutant: the walk stops in front of the nodes of equal priority.
InsertionPointBeforeEquals(list, prio, pos) ==
    /\ \A j \in 1 .. pos - 1 : list[j].prio < prio
    /\ pos <= Len(list) => list[pos].prio >= prio

\* Where the walk of insertWithPriority stops: every node before pos has a
\* priority that is not larger, the node at pos (if any) a larger one.
InsertionPoint(list, prio, pos) ==
    /\ \A j \in 1 .. pos - 1 : list[j].prio <= prio
    /\ pos <= Len(list) => list[pos].prio > prio

\* list with item linked in front of the node at pos.
LinkAt(list, pos, item) ==
    SubSeq(list, 1, pos - 1) \o <<item>> \o SubSeq(list, pos, Len(list))

\* list2 is list with item linked in by insertWithPriority.
InsertWithPriority(list, item, list2) ==
    \E pos \in 1 .. Len(list) + 1 :
        /\ InsertionPoint(list, item.prio, pos)
        /\ list2 = LinkAt(list, pos, item)

\* The order in which the queue owes its items: lower priority number first,
\* first in first out within a priority.
Before(a, b) == a.prio < b.prio \/ (a.prio = b.prio /\ a.id < b.id)

\* The list is strictly ordered by Before.
Ordered(list) == \A i, j \in 1 .. Len(list) : i < j => Before(list[i], list[j])

\* No two nodes carry the same item.
DistinctIds(list) == \A i, j \in 1 .. Len(list) : i < j => list[i].id # list[j].id
=============================================================================
