-------------------------- MODULE PluginConnection --------------------------
(***************************************************************************)
(* A plugin connection (pkg/plugins/connection.go): the parsers of the     *)
(* two directions enqueue commands, a worker runs each through the stack   *)
(* of plugins, and Teardown closes the queue, waits for the worker and     *)
(* destroys the plugins.  When its context is cancelled the worker drains  *)
(* the queue for at most five seconds.  Bodies are kept in LinkedBuffers   *)
(* for the plugins that ask for it.                                        *)
(*                                                                         *)
(* That nothing is enqueued after Teardown is up to the streams            *)
(* (NoCallbackAfterTeardown in Http1Stream).  A byte of a body is a number *)
(* of its own.                                                             *)
(***************************************************************************)
EXTENDS Integers, Sequences, LinkedBuffer

CONSTANTS
    commandQueueSize,
    StackSize,        \* plugins in the stack
    PluginScripts     \* what each direction enqueues: sequences of commands

Dirs == {"request", "response"}
Commands == UNION {{s[d][i] : i \in DOMAIN s[d]} : s \in PluginScripts, d \in Dirs}

ASSUME PluginAssumption ==
    /\ commandQueueSize \in Nat \ {0} /\ StackSize \in Nat \ {0}
    /\ \A s \in PluginScripts : s \in [Dirs -> Seq(Commands)]

Stack == 1..StackSize

VARIABLES
    script,        \* what each direction still enqueues
    commandQueue,  \* with whether it is closed
    ctxDone,       \* the context is cancelled
    worker,        \* loop, drain or done, and whether the drain timed out
    teardown,      \* none, waiting or destroyed
    bodies,        \* reqBody and resBody
    accepted,      \* history: commands that were enqueued
    ran,           \* history: commands that went through the stack
    owed,          \* history: what a plugin has not continued past, by direction
    missed         \* history: a plugin was shown less than that

pluginVars ==
    <<script, commandQueue, ctxDone, worker, teardown, bodies, accepted, ran, owed, missed>>

PluginInit ==
    /\ script \in PluginScripts
    /\ commandQueue = [cmds |-> <<>>, closed |-> FALSE]
    /\ ctxDone = FALSE
    /\ worker = [at |-> "loop", timedOut |-> FALSE]
    /\ teardown = "none"
    /\ bodies = [d \in Dirs |-> NewLinkedBuffer]
    /\ accepted = <<>> /\ ran = <<>>
    /\ owed = [d \in Dirs |-> [i \in Stack |-> <<>>]]
    /\ missed = FALSE

\* OnHttpRequestHeaders and the like: enqueued, or refused when the queue is full.
enqueue(d) ==
    /\ teardown = "none" /\ script[d] # <<>>
    /\ script' = [script EXCEPT ![d] = Tail(@)]
    /\ IF Len(commandQueue.cmds) < commandQueueSize
         THEN /\ commandQueue' = [commandQueue EXCEPT !.cmds = Append(@, Head(script[d]))]
              /\ accepted' = Append(accepted, Head(script[d]))
         ELSE UNCHANGED <<commandQueue, accepted>>
    /\ UNCHANGED <<ctxDone, worker, teardown, bodies, ran, owed, missed>>

CancelContext ==
    /\ ~ctxDone /\ ctxDone' = TRUE
    /\ UNCHANGED <<script, commandQueue, worker, teardown, bodies, accepted, ran, owed, missed>>

-----------------------------------------------------------------------------
\* Headers and the commands of other protocols leave the bodies alone.
RunHeaders(cmd) == UNCHANGED <<bodies, owed, missed>>

\* The plugins that are called, up to the first that stops the iteration.
Called(status) == {i \in Stack : \A j \in 1..(i - 1) : status[j] # "stop"}

\* Mutant: the last plugin decides.
ClearedByLast(status, eos) == ~eos /\ status[StackSize] = "continue"

\* shouldClearBuffer, or an early return.
ClearsBuffer(status, eos) ==
    ~eos /\ \A i \in Called(status) : status[i] = "continue"

EndsWith(s, t) == Len(t) <= Len(s) /\ SubSeq(s, Len(s) - Len(t) + 1, Len(s)) = t
Last(s, n) == SubSeq(s, IF Len(s) > n THEN Len(s) - n + 1 ELSE 1, Len(s))

\* The frame is written, the plugins are called, the buffer is cleared or kept.
RunBody(cmd) ==
    \E status \in [Stack -> {"continue", "buffer", "stop"}] :
      LET written == WriteBuffer(bodies[cmd.dir], cmd.data)
          due == [i \in Stack |-> owed[cmd.dir][i] \o (IF Fits(cmd.data) THEN cmd.data ELSE <<>>)]
      IN  /\ bodies' = [bodies EXCEPT ![cmd.dir] =
                          IF ClearsBuffer(status, cmd.eos) THEN ReplaceNil(written) ELSE written]
          /\ missed' = (missed \/ \E i \in Called(status) :
                                    ~EndsWith(Flat(written.slices), Last(due[i], bufferSize)))
          /\ owed' = [owed EXCEPT ![cmd.dir] =
                        [i \in Stack |-> IF i \in Called(status) /\ status[i] = "continue"
                                           THEN <<>> ELSE due[i]]]

Take ==
    /\ worker.at # "done" /\ commandQueue.cmds # <<>>
    /\ LET cmd == Head(commandQueue.cmds) IN
       /\ commandQueue' = [commandQueue EXCEPT !.cmds = Tail(@)]
       /\ ran' = Append(ran, cmd)
       /\ IF cmd.kind = "body" THEN RunBody(cmd) ELSE RunHeaders(cmd)
    /\ UNCHANGED <<script, ctxDone, worker, teardown, accepted>>

\* The channel is closed and empty.
Closed ==
    /\ worker.at # "done" /\ commandQueue.closed /\ commandQueue.cmds = <<>>
    /\ worker' = [worker EXCEPT !.at = "done"]
    /\ UNCHANGED <<script, commandQueue, ctxDone, teardown, bodies, accepted, ran, owed, missed>>

\* Mutant: the worker ends with its context.
CancelledAt == "done"

CancelledTo == "drain"

Cancelled ==
    /\ worker.at = "loop" /\ ctxDone
    /\ worker' = [worker EXCEPT !.at = CancelledTo]
    /\ UNCHANGED <<script, commandQueue, ctxDone, teardown, bodies, accepted, ran, owed, missed>>

DrainTimeout ==
    /\ worker.at = "drain"
    /\ worker' = [at |-> "done", timedOut |-> TRUE]
    /\ UNCHANGED <<script, commandQueue, ctxDone, teardown, bodies, accepted, ran, owed, missed>>

\* Mutant: the queue is left open.
ClosedQueueNot == commandQueue

ClosedQueue == [commandQueue EXCEPT !.closed = TRUE]

Teardown ==
    /\ teardown = "none"
    /\ teardown' = "waiting"
    /\ commandQueue' = ClosedQueue
    /\ UNCHANGED <<script, ctxDone, worker, bodies, accepted, ran, owed, missed>>

WorkerDone == worker.at = "done"

Destroy ==
    /\ teardown = "waiting" /\ WorkerDone
    /\ teardown' = "destroyed"
    /\ bodies' = [d \in Dirs |-> ReplaceNil(bodies[d])]
    /\ UNCHANGED <<script, commandQueue, ctxDone, worker, accepted, ran, owed, missed>>

Worker == Take \/ Closed \/ Cancelled

PluginNext ==
    \/ \E d \in Dirs : enqueue(d)
    \/ CancelContext \/ Worker \/ DrainTimeout \/ Teardown \/ Destroy

-----------------------------------------------------------------------------
\* When the plugins are destroyed they have seen every command that was accepted,
\* in order, unless the drain timed out (connection.go:182).
EverythingRan == teardown = "destroyed" /\ ~worker.timedOut => ran = accepted

\* A plugin that asks for buffering is shown all of the body that it has not
\* continued past, up to the size of the buffer, whatever the plugins before and
\* after it answer (connection.go:307): and the list of slices that holds it reads,
\* at every offset and length, as its bytes one after the other (linked_buffer.go:60).
SeesBuffered ==
    /\ ~missed
    /\ \A d \in Dirs :
         LET b == bodies[d]
             flat == Flat(b.slices)
         IN  /\ b.length = Len(flat) /\ b.length <= bufferSize
             /\ \A off \in 0..bufferSize, count \in 0..(bufferSize + 1) :
                  ReadAt(b, off, count) =
                    SubSeq(flat, off + 1, IF off + count < Len(flat) THEN off + count ELSE Len(flat))

\* Teardown returns, whatever the context does.
TeardownReturns == teardown = "waiting" ~> teardown = "destroyed"
=============================================================================
