--------------------------- MODULE ContainerScans ---------------------------
(***************************************************************************)
(* TlsManager.containerStarted for one container: every process that       *)
(* starts in it asks for a scan of its libraries, which is made under      *)
(* SingleFlight until it succeeds or has failed maxContainerScanAttempts   *)
(* times (pkg/ebpf/tls/manager.go).                                        *)
(***************************************************************************)
EXTENDS SingleFlight, Naturals, FiniteSets

CONSTANT maxContainerScanAttempts
ASSUME ScansAssumption == maxContainerScanAttempts \in Nat \ {0}

VARIABLES
    container,   \* the entry of containers: scanned, attempts; 0 without an entry
    scans        \* history: scans that were begun

scanVars == <<flightVars, container, scans>>

ScansInit == FlightInit /\ container = [scanned |-> FALSE, attempts |-> 0] /\ scans = 0

NoScanLeft == container.scanned \/ container.attempts >= maxContainerScanAttempts

containerStarted(g) ==
    /\ fl[g].at = "idle"
    /\ GotoF(g, IF NoScanLeft THEN "returned" ELSE "do")
    /\ UNCHANGED <<flight, container, scans>>

\* Mutant: the cache is not looked at again.
CheckAgainNot(g) == fl[g].at = "fn" /\ scans' = scans + 1 /\ GotoF(g, "scan")

\* The first half of the function: the scan is begun.
CheckAgain(g) ==
    /\ fl[g].at = "fn"
    /\ \/ NoScanLeft /\ Ran(g, NoneF, FALSE) /\ UNCHANGED scans
       \/ ~NoScanLeft /\ scans' = scans + 1 /\ GotoF(g, "scan")

Failed == [scanned |-> FALSE, attempts |-> container.attempts + 1]

\* The second half: it succeeds, fails, or panics and stores nothing.
ScanEnds(g) ==
    /\ fl[g].at = "scan"
    /\ \/ /\ container' = [scanned |-> TRUE, attempts |-> container.attempts + 1]
          /\ Ran(g, NoneF, FALSE)
       \/ container' = Failed /\ Ran(g, NoneF, FALSE)
       \/ UNCHANGED container /\ Ran(g, NoneF, TRUE)

ContainerStep(g) ==
    \/ containerStarted(g)
    \/ CheckAgain(g) /\ UNCHANGED <<flight, container>>
    \/ ScanEnds(g) /\ UNCHANGED <<flight, scans>>
    \/ FlightStep(g) /\ UNCHANGED <<container, scans>>

ScansNext == \E g \in Getters : ContainerStep(g)

-----------------------------------------------------------------------------
Panicked == {g \in Getters : fl[g].led /\ fl[g].err}

\* However many processes start, a container is scanned by one goroutine at a time
\* and never more than the maximum, scans that panic apart (manager.go:373); and
\* ProcessStarted, which waits for containerStarted, does not return before the
\* libraries of its container were tried, unless its own scan panicked.
ScansBounded ==
    /\ Cardinality({g \in Getters : fl[g].at = "scan"}) <= 1
    /\ scans <= maxContainerScanAttempts + Cardinality(Panicked)
    /\ \A g \in Getters : Returned(g) /\ ~fl[g].err => container.scanned \/ container.attempts > 0

=============================================================================
