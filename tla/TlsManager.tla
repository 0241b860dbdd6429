----------------------------- MODULE TlsManager -----------------------------
(***************************************************************************)
(* The attachment of TLS probes to the processes that have one pid, one    *)
(* after the other (pkg/ebpf/tls: manager.go, keyed_coordinator.go).       *)
(*                                                                         *)
(* The process manager tells of an execve or an exit in a goroutine of its *)
(* own, so the calls for a pid overlap in any order.  ProcessStarted and   *)
(* ProcessReplaced take a token of the coordinator, scan the executable,   *)
(* attach under Execute and store the closer under a second Execute;       *)
(* ProcessStopped forgets the tokens and detaches.  An attachment is named *)
(* after the call that made it, a function under Execute <<call, 1>> or    *)
(* <<call, 2>>.                                                            *)
(***************************************************************************)
EXTENDS Naturals, FiniteSets

CONSTANTS
    MaxCalls,    \* bound: calls of the process manager
    MaxProcs,    \* bound: processes that have the pid, one after the other
    NoneA

Calls == 1..MaxCalls
ASSUME AttachAssumption == MaxCalls \in Nat /\ MaxProcs \in Nat /\ NoneA \notin Calls \cup (Calls \X {1, 2})

VARIABLES
    procs,            \* processes that have had the pid
    alive,            \* the last of them runs
    att,              \* the calls
    versions,         \* KeyedCoordinator.versions[pid], 0 without an entry
    inflight,         \* KeyedCoordinator.inflight[pid]
    cancelled,        \* operations whose context is cancelled
    finished,         \* operations whose done channel is closed
    procAttachments,  \* the entry of the pid
    opened,           \* attachments whose closer is not closed
    periods           \* history: how often Cleanup was called

coordVars == <<versions, inflight, cancelled, finished, periods>>
attachVars == <<procs, alive, att, coordVars, procAttachments, opened>>

\* version and period are those of the token; outdated and overtaken are
\* history: the call acted, or ended, when its token was no longer the newest.
NoCall ==
    [at |-> "none", kind |-> "started", proc |-> 0, version |-> 0, period |-> 0,
     n |-> 1, waits |-> NoneA, held |-> NoneA, err |-> FALSE,
     outdated |-> FALSE, overtaken |-> FALSE, repeated |-> FALSE]

AttachInit ==
    /\ procs = 0 /\ alive = FALSE
    /\ att = [c \in Calls |-> NoCall]
    /\ versions = 0 /\ inflight = NoneA /\ cancelled = {} /\ finished = {} /\ periods = 0
    /\ procAttachments = NoneA /\ opened = {}

Exited(c) == att[c].proc < procs \/ ~alive
Op(c) == <<c, att[c].n>>

\* The token is the newest of its pid.
Current(c) == att[c].version = versions /\ att[c].period = periods

GotoA(c, at) == att' = [att EXCEPT ![c].at = at]
EndA(c) == att' = [att EXCEPT ![c].at = "end", ![c].overtaken = ~Current(c)]

-----------------------------------------------------------------------------
\* initProcObservers and removeProc start a goroutine for a call.
Tell(c, kind, proc) ==
    /\ att[c].at = "none" /\ \A d \in 1..(c - 1) : att[d].at # "none"
    /\ att' = [att EXCEPT ![c].at = "told", ![c].kind = kind, ![c].proc = proc]
    /\ UNCHANGED <<coordVars, procAttachments, opened>>

\* An execve of a new process, or of one that is known: replaced when its
\* executable or arguments change.
addProc(c) ==
    \/ ~alive /\ procs < MaxProcs /\ procs' = procs + 1 /\ alive' = TRUE /\ Tell(c, "started", procs')
    \/ alive /\ UNCHANGED <<procs, alive>> /\ \E kind \in {"started", "replaced"} : Tell(c, kind, procs)

removeProc(c) ==
    alive /\ alive' = FALSE /\ UNCHANGED procs /\ Tell(c, "stopped", procs)

\* The test of the goroutine before it calls the observer.
Notify(c) ==
    /\ att[c].at = "told" /\ att[c].kind # "stopped"
    /\ IF Exited(c) THEN EndA(c) ELSE GotoA(c, "start")
    /\ UNCHANGED <<procs, alive, coordVars, procAttachments, opened>>

\* ProcessStopped has been called for the process of c.
Stopped(c) ==
    \E d \in Calls : att[d].kind = "stopped" /\ att[d].proc = att[c].proc /\ att[d].at # "told"

\* KeyedCoordinator.Start
StartOp(c) ==
    /\ att[c].at = "start"
    /\ versions' = versions + 1
    /\ att' = [att EXCEPT ![c].version = versions + 1, ![c].period = periods,
                          ![c].outdated = Stopped(c),
                          ![c].at = IF att[c].kind = "started" THEN "check" ELSE "load"]
    /\ UNCHANGED <<procs, alive, inflight, cancelled, finished, periods, procAttachments, opened>>

\* ProcessStarted returns for a process that has exited, or that is not
\* observed, or whose TLS is filtered.
Check(c) ==
    /\ att[c].at = "check"
    /\ \/ ~Exited(c) /\ GotoA(c, "scan")
       \/ att' = [att EXCEPT ![c].at = "end", ![c].err = TRUE, ![c].overtaken = ~Current(c)]
    /\ UNCHANGED <<procs, alive, coordVars, procAttachments, opened>>

\* KeyedCoordinator.Cleanup, by ProcessStopped.
Cleanup(c) ==
    /\ att[c].at = "told" /\ att[c].kind = "stopped"
    /\ versions' = 0 /\ periods' = periods + 1
    /\ cancelled' = cancelled \cup ({inflight} \ {NoneA})
    /\ inflight' = NoneA
    /\ att' = [att EXCEPT ![c].at = "load", ![c].version = 0, ![c].period = periods + 1]
    /\ UNCHANGED <<procs, alive, finished, procAttachments, opened>>

-----------------------------------------------------------------------------
\* detachProcess, of the attachment that is stored; a second Close may fail.
AfterDetach(c) == IF att[c].kind = "stopped" THEN "end" ELSE "scan"

LoadAttachment(c) ==
    /\ att[c].at = "load"
    /\ att' = [att EXCEPT ![c].held = procAttachments,
                          ![c].outdated = @ \/ (procAttachments # NoneA /\ ~Current(c)),
                          ![c].at = IF procAttachments = NoneA THEN AfterDetach(c) ELSE "detach"]
    /\ UNCHANGED <<procs, alive, coordVars, procAttachments, opened>>

\* Mutant: the attachment is forgotten and not closed.
CloseAttachmentNot(c) ==
    /\ att[c].at = "detach"
    /\ GotoA(c, "delete")
    /\ UNCHANGED <<procs, alive, coordVars, procAttachments, opened>>

CloseAttachment(c) ==
    /\ att[c].at = "detach"
    /\ opened' = opened \ {att[c].held}
    /\ \/ GotoA(c, "delete")
       \/ att[c].held \notin opened
          /\ att' = [att EXCEPT ![c].at = "end", ![c].err = TRUE, ![c].overtaken = ~Current(c)]
    /\ UNCHANGED <<procs, alive, coordVars, procAttachments>>

DeleteAttachment(c) ==
    /\ att[c].at = "delete"
    /\ procAttachments' = NoneA
    /\ att' = [att EXCEPT ![c].outdated = @ \/ ~Current(c), ![c].at = AfterDetach(c)]
    /\ UNCHANGED <<procs, alive, coordVars, opened>>

detachProcess(c) == LoadAttachment(c) \/ CloseAttachment(c) \/ DeleteAttachment(c)

-----------------------------------------------------------------------------
Scan(c) ==
    /\ att[c].at = "scan"
    /\ \/ GotoA(c, "execute")
       \/ att' = [att EXCEPT ![c].at = "end", ![c].err = TRUE, ![c].overtaken = ~Current(c)]
    /\ UNCHANGED <<procs, alive, coordVars, procAttachments, opened>>

\* A stale token is no error: after the first Execute the second is tried.
Skip(c) ==
    /\ IF att[c].n = 1 THEN att' = [att EXCEPT ![c].n = 2, ![c].at = "execute"] ELSE EndA(c)
    /\ UNCHANGED inflight

Valid(c) == versions = att[c].version

Begin(c) ==
    /\ inflight' = Op(c)
    /\ att' = [att EXCEPT ![c].at = "run", ![c].waits = NoneA,
                          ![c].outdated = @ \/ att[c].period # periods]

\* Execute, up to the unlock.
Execute(c) ==
    /\ att[c].at = "execute"
    /\ \/ ~Valid(c) /\ Skip(c)
       \/ Valid(c) /\ inflight = NoneA /\ Begin(c)
       \/ /\ Valid(c) /\ inflight # NoneA
          /\ att' = [att EXCEPT ![c].at = "cancel", ![c].waits = inflight,
                                ![c].outdated = @ \/ att[c].period # periods]
          /\ UNCHANGED inflight
    /\ UNCHANGED <<procs, alive, versions, cancelled, finished, periods, procAttachments, opened>>

Cancel(c) ==
    /\ att[c].at = "cancel"
    /\ cancelled' = cancelled \cup {att[c].waits}
    /\ GotoA(c, "wait")
    /\ UNCHANGED <<procs, alive, versions, inflight, finished, periods, procAttachments, opened>>

\* Mutant: no second look at the version.
RecheckNot(c) == Begin(c)

\* Are we still valid?
Recheck(c) == IF Valid(c) THEN Begin(c) ELSE Skip(c)

\* Execute, after the operation in flight is done.
Wake(c) ==
    /\ att[c].at = "wait" /\ att[c].waits \in finished
    /\ Recheck(c)
    /\ UNCHANGED <<procs, alive, versions, cancelled, finished, periods, procAttachments, opened>>

\* The functions of scanAndAttachProcess.
Attach(c) ==
    /\ att[c].at = "run" /\ att[c].n = 1
    /\ \/ opened' = opened \cup {c} /\ GotoA(c, "ran")
       \/ att' = [att EXCEPT ![c].at = "ran", ![c].err = TRUE] /\ UNCHANGED opened
    /\ UNCHANGED <<procs, alive, coordVars, procAttachments>>

Store(c) ==
    /\ att[c].at = "run" /\ att[c].n = 2
    /\ procAttachments' = c
    /\ att' = [att EXCEPT ![c].at = "ran", ![c].repeated = procAttachments # NoneA,
                          ![c].outdated = @ \/ att[c].period # periods]
    /\ UNCHANGED <<procs, alive, coordVars, opened>>

\* Mutant: done is not closed when the function fails.
FinishOk(c) ==
    /\ att[c].at = "ran"
    /\ finished' = finished \cup (IF att[c].err THEN {} ELSE {Op(c)})
    /\ GotoA(c, "clear")
    /\ UNCHANGED <<procs, alive, versions, inflight, cancelled, periods, procAttachments, opened>>

\* close(op.done)
Finish(c) ==
    /\ att[c].at = "ran"
    /\ finished' = finished \cup {Op(c)}
    /\ GotoA(c, "clear")
    /\ UNCHANGED <<procs, alive, versions, inflight, cancelled, periods, procAttachments, opened>>

Cleared(c) == IF inflight = Op(c) THEN NoneA ELSE inflight

\* The end of Execute: superseded, failed, or the next one.
Clear(c) ==
    /\ att[c].at = "clear"
    /\ inflight' = Cleared(c)
    /\ IF Op(c) \in cancelled \/ att[c].err \/ att[c].n = 2
         THEN EndA(c)
         ELSE att' = [att EXCEPT ![c].n = 2, ![c].at = "execute"]
    /\ UNCHANGED <<procs, alive, versions, cancelled, finished, periods, procAttachments, opened>>

scanAndAttachProcess(c) ==
    Scan(c) \/ Execute(c) \/ Cancel(c) \/ Wake(c) \/ Attach(c) \/ Store(c) \/ Finish(c) \/ Clear(c)

CallStep(c) ==
    Notify(c) \/ StartOp(c) \/ Check(c) \/ Cleanup(c) \/ detachProcess(c) \/ scanAndAttachProcess(c)

AttachNext == \E c \in Calls : addProc(c) \/ removeProc(c) \/ CallStep(c)

-----------------------------------------------------------------------------
QuietA == \A c \in Calls : att[c].at \in {"none", "end"}

\* No call has acted out of date: with an old token that counts as valid again after
\* Cleanup or was taken after ProcessStopped, in a detach that a newer call overtook,
\* or in a function that Cleanup has cancelled.
Undisturbed == \A c \in Calls : ~att[c].outdated

\* Functions under Execute for one pid do not run at the same time, except for
\* those that Cleanup has cancelled and not waited for (keyed_coordinator.go:69).
Serialized ==
    Undisturbed =>
      \A c, d \in Calls :
        att[c].at = "run" /\ att[d].at = "run" /\ att[c].period = att[d].period => c = d

\* When all calls have returned, the probes of a running process are those of its
\* last execve, and their closer is stored: unless that call failed or the process
\* is not observed, whatever calls were overtaken before (manager.go:323).  Any
\* other attachment that is open is one whose call was overtaken while it attached,
\* or that a ProcessStarted for the same process stored over (manager.go:31).
NewestAttached ==
    QuietA /\ Undisturbed =>
      /\ \A c \in Calls :
           att[c].at = "end" /\ att[c].version > 0 /\ Current(c) /\ ~att[c].err =>
             procAttachments = c /\ c \in opened
      /\ \A c \in opened :
           \/ procAttachments = c /\ alive
           \/ att[c].overtaken
           \/ \E d \in Calls : d # c /\ att[d].repeated

\* What manager.go:31 says of procAttachments: when the process has stopped and the
\* calls have returned, its attachments are closed.
ClosedOnStop == QuietA /\ ~alive => opened = {}

\* Every call returns: nobody waits for an operation that does not end
\* (keyed_coordinator.go:73).  A call that has ended is not made again.
CallsReturn == (\E c \in Calls : att[c].at = "told") ~> QuietA
=============================================================================
