---------------------------- MODULE SingleFlight ----------------------------
(***************************************************************************)
(* synq.SingleFlight: of the goroutines that call Do for a key one runs    *)
(* the function, the others wait for it and share its result, or try again *)
(* when it fails (pkg/synq/singleflight.go).  What the function does is    *)
(* left to the users of the module, which take a goroutine from "fn" to    *)
(* "ran".  A call object is named after the goroutine that made it.        *)
(***************************************************************************)
CONSTANTS
    Getters,     \* the goroutines, each with one call of Do
    NoneF

ASSUME FlightAssumption == NoneF \notin Getters

VARIABLES
    flight,      \* g.m[key]: the call in progress
    fl           \* where each goroutine is, with the result it has or returns

flightVars == <<flight, fl>>

\* led: the result is that of the goroutine's own function.
NoFlight == [at |-> "idle", waits |-> NoneF, val |-> NoneF, err |-> FALSE, led |-> FALSE]

FlightInit == flight = NoneF /\ fl = [g \in Getters |-> NoFlight]

GotoF(g, at) == fl' = [fl EXCEPT ![g].at = at]
Ran(g, val, err) ==
    fl' = [fl EXCEPT ![g].at = "ran", ![g].val = val, ![g].err = err, ![g].led = TRUE]
Returned(g) == fl[g].at = "returned"

\* The critical section at the head of the loop.
Do(g) ==
    /\ fl[g].at = "do"
    /\ \/ flight = NoneF /\ flight' = g /\ GotoF(g, "fn")
       \/ /\ flight # NoneF
          /\ fl' = [fl EXCEPT ![g].at = "wait", ![g].waits = flight]
          /\ UNCHANGED flight

\* A result is shared, after an error the loop starts again.
Shared(g, h) ==
    IF fl[h].err THEN [fl[g] EXCEPT !.at = "do", !.waits = NoneF]
                 ELSE [fl[g] EXCEPT !.at = "returned", !.val = fl[h].val]

Wait(g) ==
    /\ fl[g].at = "wait" /\ Returned(fl[g].waits)
    /\ fl' = [fl EXCEPT ![g] = Shared(g, fl[g].waits)]
    /\ UNCHANGED flight

\* The call is removed, then the waiters are released.
Remove(g) == fl[g].at = "ran" /\ flight' = NoneF /\ GotoF(g, "removed")
Release(g) == fl[g].at = "removed" /\ GotoF(g, "returned") /\ UNCHANGED flight

FlightStep(g) == Do(g) \/ Wait(g) \/ Remove(g) \/ Release(g)
=============================================================================
