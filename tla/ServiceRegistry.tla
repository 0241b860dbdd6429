-------------------------- MODULE ServiceRegistry --------------------------
(***************************************************************************)
(* ServiceRegistry.Get for one key: a service is looked up, or created,    *)
(* configured and registered under SingleFlight, and Close closes what is  *)
(* registered (pkg/services/registry.go).  A service is named after the    *)
(* goroutine that created it.                                              *)
(***************************************************************************)
EXTENDS SingleFlight

VARIABLES
    registered,  \* the service of the key
    closedSvc    \* services that Close has closed, NoneF before the call

registryVars == <<flightVars, registered, closedSvc>>

RegistryInit == FlightInit /\ registered = NoneF /\ closedSvc = NoneF

GetLoad(g) ==
    /\ fl[g].at = "idle"
    /\ IF registered # NoneF
         THEN fl' = [fl EXCEPT ![g].at = "returned", ![g].val = registered]
         ELSE GotoF(g, "do")
    /\ UNCHANGED <<flight, registered, closedSvc>>

LoadAgain(g) ==
    /\ fl[g].at = "fn"
    /\ IF registered # NoneF THEN Ran(g, registered, FALSE) ELSE GotoF(g, "create")

\* The factory is missing, fails or panics, or the service is made.
Create(g) ==
    /\ fl[g].at = "create"
    /\ \/ Ran(g, NoneF, TRUE)
       \/ fl' = [fl EXCEPT ![g].at = "configure", ![g].val = g]

\* A service whose configuration fails is left as it is.
Configure(g) ==
    /\ fl[g].at = "configure"
    /\ Ran(g, NoneF, TRUE) \/ GotoF(g, "register")

\* Mutant: the service is returned and registered by the next Get.
RegisterNot(g) == registered

Register(g) == fl[g].val

RegisterStep(g) ==
    /\ fl[g].at = "register"
    /\ registered' = Register(g)
    /\ Ran(g, fl[g].val, FALSE)
    /\ UNCHANGED <<flight, closedSvc>>

CloseRegistry ==
    /\ closedSvc = NoneF
    /\ closedSvc' = {registered} \ {NoneF}
    /\ UNCHANGED <<flightVars, registered>>

Get(g) ==
    \/ GetLoad(g)
    \/ (LoadAgain(g) \/ Create(g) \/ Configure(g)) /\ UNCHANGED <<flight, registered, closedSvc>>
    \/ RegisterStep(g)
    \/ FlightStep(g) /\ UNCHANGED <<registered, closedSvc>>

RegistryNext == CloseRegistry \/ \E g \in Getters : Get(g)

-----------------------------------------------------------------------------
\* Every Get that succeeds returns the same service, however creations that fail
\* and goroutines that wait for them interleave (registry.go:108).
OneService ==
    \A g, h \in Getters :
      Returned(g) /\ Returned(h) /\ ~fl[g].err /\ ~fl[h].err => fl[g].val = fl[h].val

\* A Get fails only when its own creation failed: who waits for a creation that
\* fails makes another attempt (singleflight.go:33).
OwnError == \A g \in Getters : Returned(g) /\ fl[g].err => fl[g].led

\* What was handed out before Close is closed by it (registry.go:143).
HandedOutIsClosed ==
    [][CloseRegistry =>
         \A g \in Getters : Returned(g) /\ ~fl[g].err => fl[g].val \in closedSvc']_registryVars

=============================================================================
