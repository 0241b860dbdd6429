---------------------------- MODULE PriorityBag -----------------------------
(***************************************************************************)
(* What a caller of synq.Queue may rely on, without lists, mutex or        *)
(* channel: accepted items form a bag; only the least item of the bag, by  *)
(* priority and then by age, is ever handed out; new items are younger     *)
(* than every item before them; and a bag that stopped accepting (Drain,   *)
(* Close) never accepts an item again.                                     *)
(***************************************************************************)
EXTENDS Integers

CONSTANT Values

VARIABLES
    bag,       \* items that wait, as [id, prio]
    pushed,    \* number of items accepted so far
    accepting  \* whether Push may add items

bvars == <<bag, pushed, accepting>>

Least(b) == {x \in b : \A y \in b \ {x} :
                 x.prio < y.prio \/ (x.prio = y.prio /\ x.id < y.id)}

Init == bag = {} /\ pushed = 0 /\ accepting = TRUE

Add(prio) ==
    /\ accepting
    /\ pushed' = pushed + 1
    /\ bag' = bag \cup {[id |-> pushed + 1, prio |-> prio]}
    /\ UNCHANGED accepting

Take ==
    /\ \E x \in Least(bag) : bag' = bag \ {x}
    /\ UNCHANGED <<pushed, accepting>>

Stop ==
    /\ accepting' = FALSE
    /\ UNCHANGED <<bag, pushed>>

Discard ==
    /\ bag' = {}
    /\ accepting' = FALSE
    /\ UNCHANGED pushed

Next ==
    \/ \E prio \in Values : Add(prio)
    \/ Take
    \/ Stop
    \/ Discard

Spec == Init /\ [][Next]_bvars
=============================================================================
