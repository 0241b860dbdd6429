------------------------------ MODULE Reporter ------------------------------
(***************************************************************************)
(* The reporter service of a connection (pkg/services/reporter).           *)
(*                                                                         *)
(* A goroutine started with the connection saves a first report after a    *)
(* deadline and further ones at intervals; Close, called by the            *)
(* connection's watch goroutine, cancels it and saves a last report.  Both *)
(* run report(), which takes a mutex with TryLock, reads the connection,   *)
(* saves the report and counts it.  The connection's close event is set by *)
(* watch some time before Close.                                           *)
(***************************************************************************)
EXTENDS Integers, Sequences

CONSTANTS
    FirstDeadline,  \* config: there is a deadline for the first report
    Interval,       \* config: there are recurring reports
    MaxReports      \* bound: timers that fire

ASSUME ReporterAssumption ==
    FirstDeadline \in BOOLEAN /\ Interval \in BOOLEAN /\ MaxReports \in Nat

Timer == "timer"
Closer == "closer"
Callers == {Timer, Closer}

VARIABLES
    domain,      \* conn.Domain() is not empty
    closeEvent,  \* conn.CloseEvent is set
    done,        \* the service's context is cancelled
    fired,       \* a timer has fired and has not been received
    ticks,       \* how many timers have fired
    looping,     \* the goroutine is in the loop of startRecurringReports
    pc,          \* where each caller is
    mu,          \* who holds the mutex
    built,       \* the report each caller has built
    reportCount,
    saved        \* history: the reports saved, in order

vars == <<domain, closeEvent, done, fired, ticks, looping, pc, mu, built, reportCount, saved>>

connVars == <<domain, closeEvent>>
timerVars == <<fired, ticks, looping>>

\* part, and what the two reads of CloseEvent found.
NoReport == [part |-> 0, finalized |-> FALSE, bytes |-> FALSE]

Init ==
    /\ domain \in BOOLEAN
    /\ closeEvent = FALSE /\ done = FALSE
    /\ fired = FALSE /\ ticks = 0 /\ looping = FALSE
    /\ pc = [c \in Callers |-> IF c = Timer THEN "start" ELSE "open"]
    /\ mu = "free"
    /\ built = [c \in Callers |-> NoReport]
    /\ reportCount = 0
    /\ saved = <<>>

Goto(c, at) == pc' = [pc EXCEPT ![c] = at]

-----------------------------------------------------------------------------
\* The connection and the clock

\* The socket's close event is processed; a held connection stays open.
CloseEvent ==
    /\ pc[Closer] = "open" /\ ~closeEvent
    /\ closeEvent' = TRUE
    /\ UNCHANGED <<domain, done, timerVars, pc, mu, built, reportCount, saved>>

\* An event or the stream gives a connection without an address its name.
SetDomain ==
    /\ pc[Closer] = "open" /\ ~domain
    /\ domain' = TRUE
    /\ UNCHANGED <<closeEvent, done, timerVars, pc, mu, built, reportCount, saved>>

\* The running timer fires; what nobody has received is not sent again.
Fire ==
    /\ pc[Timer] = "first" \/ (looping /\ pc[Timer] # "exit")
    /\ ~fired /\ ticks < MaxReports
    /\ fired' = TRUE /\ ticks' = ticks + 1
    /\ UNCHANGED <<connVars, done, looping, pc, mu, built, reportCount, saved>>

-----------------------------------------------------------------------------
\* start and startRecurringReports

\* With a deadline the goroutine waits for it; without, it goes on at once.
Start ==
    /\ pc[Timer] = "start"
    /\ Goto(Timer, IF FirstDeadline THEN "first" ELSE "next")
    /\ UNCHANGED <<connVars, done, timerVars, mu, built, reportCount, saved>>

\* A timer that has fired leads to a report, even when the context is done too.
Tick ==
    /\ pc[Timer] \in {"first", "recurring"}
    /\ fired /\ fired' = FALSE
    /\ Goto(Timer, "lock")
    /\ UNCHANGED <<connVars, done, ticks, looping, mu, built, reportCount, saved>>

Stop ==
    /\ pc[Timer] \in {"first", "recurring"}
    /\ done
    /\ Goto(Timer, "exit")
    /\ UNCHANGED <<connVars, done, timerVars, mu, built, reportCount, saved>>

\* startRecurringReports: nothing without an interval or when the context is
\* done.
Recur ==
    /\ pc[Timer] = "next"
    /\ IF Interval /\ ~done
         THEN Goto(Timer, "recurring") /\ looping' = TRUE
         ELSE Goto(Timer, "exit") /\ UNCHANGED looping
    /\ UNCHANGED <<connVars, done, fired, ticks, mu, built, reportCount, saved>>

-----------------------------------------------------------------------------
\* report

\* Where the caller goes on after report().
After(c) ==
    IF c = Closer THEN "reported" ELSE IF looping THEN "recurring" ELSE "next"

\* Mutant: report does not take the mutex.
NoLock(c) ==
    /\ pc[c] = "lock"
    /\ Goto(c, "build")
    /\ UNCHANGED <<connVars, done, timerVars, mu, built, reportCount, saved>>

\* A report in progress makes this one superfluous.
TryLock(c) ==
    /\ pc[c] = "lock"
    /\ \/ mu = "free" /\ mu' = c /\ Goto(c, "build")
       \/ mu # "free" /\ UNCHANGED mu /\ Goto(c, After(c))
    /\ UNCHANGED <<connVars, done, timerVars, built, reportCount, saved>>

\* A connection without a domain is not reported.  toEventStoreConnection
\* reads the close event for Finalized ...
Build(c) ==
    /\ pc[c] = "build"
    /\ \/ /\ domain
          /\ built' = [built EXCEPT ![c] = [NoReport EXCEPT !.finalized = closeEvent]]
          /\ Goto(c, "bytes")
          /\ UNCHANGED mu
       \/ ~domain /\ mu' = "free" /\ Goto(c, After(c)) /\ UNCHANGED built
    /\ UNCHANGED <<connVars, done, timerVars, reportCount, saved>>

\* ... and again for the byte counts; the report gets its part number.
Bytes(c) ==
    /\ pc[c] = "bytes"
    /\ built' = [built EXCEPT ![c].bytes = closeEvent, ![c].part = reportCount]
    /\ Goto(c, "save")
    /\ UNCHANGED <<connVars, done, timerVars, mu, reportCount, saved>>

Save(c) ==
    /\ pc[c] = "save"
    /\ saved' = Append(saved, built[c])
    /\ Goto(c, "count")
    /\ UNCHANGED <<connVars, done, timerVars, mu, built, reportCount>>

Count(c) ==
    /\ pc[c] = "count"
    /\ reportCount' = reportCount + 1
    /\ mu' = "free"
    /\ Goto(c, After(c))
    /\ UNCHANGED <<connVars, done, timerVars, built, saved>>

Report(c) == TryLock(c) \/ Build(c) \/ Bytes(c) \/ Save(c) \/ Count(c)

-----------------------------------------------------------------------------
\* Close, called by Connection.Close, that is after the close event

Close ==
    /\ pc[Closer] = "open" /\ closeEvent
    /\ done' = TRUE
    /\ Goto(Closer, "lock")
    /\ UNCHANGED <<connVars, timerVars, mu, built, reportCount, saved>>

Next ==
    \/ CloseEvent \/ SetDomain \/ Fire \/ Close
    \/ Start \/ Tick \/ Stop \/ Recur
    \/ \E c \in Callers : Report(c)

Spec == Init /\ [][Next]_vars

-----------------------------------------------------------------------------
\* Properties

\* The reports of a connection are numbered 0, 1, 2, ... in the order in which
\* they are saved, although two goroutines report (reportCount, report).  A
\* finalized report carries the byte counts, whenever the close event arrives
\* between the reads of toEventStoreConnection, and no report that is saved after
\* it says that the connection is still open.
ReportsInOrder ==
    \A n \in DOMAIN saved :
      /\ saved[n].part = n - 1
      /\ saved[n].finalized =>
           saved[n].bytes /\ \A later \in n .. Len(saved) : saved[later].finalized
=============================================================================
