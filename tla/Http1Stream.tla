----------------------------- MODULE Http1Stream ----------------------------
(***************************************************************************)
(* HTTPStream, Session and Parser (pkg/stream/protocols/http1).            *)
(*                                                                         *)
(* The connection's watch goroutine hands each data event to Process,      *)
(* which writes it to one of the two pipes of the current Session's        *)
(* parser.  A write to a pipe blocks until the other end has read it all.  *)
(* The pipes are read by the parser's two goroutines, one for the request  *)
(* and one for the responses; the end of the response starts a third, for  *)
(* OnDone.  A Session is meant for one transaction: Process makes a new    *)
(* one once the current one is closed.                                     *)
(*                                                                         *)
(* A data event is abstracted to what the parser finds in it: the head of  *)
(* a message, a piece of a body or the end of one.                         *)
(***************************************************************************)
EXTENDS Naturals, Sequences, SequencesExt

CONSTANTS
    Traffic,      \* the sequences of data events a connection may carry
    MaxSessions   \* bound: sessions made in a behaviour

\* get and head have no body, post and expect have one, the latter after
\* "Expect: 100-continue"; no head can be made out of bad.
RequestHeads == {"get", "head", "post", "expect", "bad"}
\* 200 has a body of known length, 204 none, eof one that ends with the
\* connection; 100 and 101 are interim.
ResponseHeads == {"100", "101", "200", "204", "eof", "bad"}
Pieces == {"part", "last"}

Phases == {"req", "resp"}
Heads(phase) == IF phase = "req" THEN RequestHeads ELSE ResponseHeads
DataEvent == UNION {[phase : {p}, tok : Heads(p) \cup Pieces] : p \in Phases}

\* No piece of a body stands where a head is due: at the beginning of a
\* direction, behind 100, or in the session that follows a failed upgrade.
HeadsWhereDue(t) ==
    /\ \A p \in Phases :
          LET own == SelectSeq(t, LAMBDA e : e.phase = p)
          IN  \A j \in DOMAIN own : (j = 1 \/ own[j - 1].tok = "100") => own[j].tok \in Heads(p)
    /\ {"bad", "101"} \subseteq {t[j].tok : j \in DOMAIN t}
          => \A j \in DOMAIN t : t[j].tok \notin Pieces

ASSUME TrafficAssumption ==
    /\ MaxSessions \in Nat
    /\ \A t \in Traffic : t \in Seq(DataEvent) /\ HeadsWhereDue(t)

Sessions == 1 .. MaxSessions
None == "none"

VARIABLES
    traffic,    \* the data events of the connection
    feed,       \* those still to come
    watch,      \* where the watch goroutine is
    cur,        \* HTTPStream.session, 0 for nil
    pipe,       \* per session and phase: what is being written
    eof,        \* per session: the write ends are closed
    cancelled,  \* the parser's context is cancelled
    request,    \* TransactionState.request, by its head
    expecting,  \* TransactionState.expectingContinue
    continued,  \* TransactionState.continueReceived is closed
    complete,   \* TransactionState.transactionDone is closed
    rq, rs,     \* where the goroutines of the request and response are
    head,       \* the heads they have read
    ondone,     \* where the goroutine of OnDone is
    closed,     \* Session.closed
    closer,     \* who runs Session.Close
    cpc,        \* where Session.Close is
    log,        \* history: the callbacks, in order
    drained,    \* history: what the final io.Copy threw away
    torn        \* history: calls of the plugin connection's Teardown

input == <<traffic, feed>>
parservars == <<pipe, eof, cancelled, request, expecting, continued, complete>>
goroutines == <<rq, rs, head, ondone>>
closevars == <<closed, closer, cpc, torn>>
histvars == <<log, drained>>
vars == <<traffic, feed, watch, cur, parservars, goroutines, closevars, histvars>>

Each(v) == [s \in Sessions |-> v]
Both(v) == [s \in Sessions |-> [p \in Phases |-> v]]

Init ==
    /\ traffic \in Traffic /\ feed = traffic
    /\ watch = "idle" /\ cur = 0
    /\ pipe = Both(None) /\ eof = Each(FALSE) /\ cancelled = Each(FALSE)
    /\ request = Each(None) /\ expecting = Each(FALSE) /\ continued = Each(FALSE)
    /\ complete = Each(FALSE)
    /\ rq = Each(None) /\ rs = Each(None) /\ ondone = Each(None) /\ head = Both(None)
    /\ closed = Each(FALSE) /\ closer = Each(None) /\ cpc = Each(None)
    /\ torn = Each(0) /\ log = Each(<<>>) /\ drained = Each({})

\* A callback of the session.
Call(s, cb) == log' = [log EXCEPT ![s] = Append(@, cb)]

-----------------------------------------------------------------------------
\* HTTPStream.Process and Session.Write, on the watch goroutine

\* There is a session and it is not closed.
InSession == cur # 0 /\ ~closed[cur]

\* The data event goes to the current session, or to a new one when there is
\* none or it is closed.
Process ==
    /\ watch = "idle" /\ feed # <<>>
    /\ watch' = "put"
    /\ \/ InSession /\ UNCHANGED <<cur, rq, rs>>
       \/ /\ ~InSession
          /\ cur < MaxSessions
          /\ cur' = cur + 1
          /\ rq' = [rq EXCEPT ![cur + 1] = "head"]
          /\ rs' = [rs EXCEPT ![cur + 1] = "head"]
    /\ UNCHANGED <<input, parservars, head, ondone, closevars, histvars>>

\* The write begins; at a closed pipe it fails and the data is lost.
Write ==
    /\ watch = "put"
    /\ feed' = Tail(feed)
    /\ \/ eof[cur] /\ watch' = "idle" /\ UNCHANGED pipe
       \/ /\ ~eof[cur]
          /\ watch' = "write"
          /\ pipe' = [pipe EXCEPT ![cur][Head(feed).phase] = Head(feed).tok]
    /\ UNCHANGED <<traffic, cur, eof, cancelled, request, expecting, continued, complete,
                   goroutines, closevars, histvars>>

\* The write ends when all is read, or when the pipe is closed.
WriteReturn ==
    /\ watch = "write"
    /\ eof[cur] \/ \A p \in Phases : pipe[cur][p] = None
    /\ watch' = "idle"
    /\ pipe' = [pipe EXCEPT ![cur] = [p \in Phases |-> None]]
    /\ UNCHANGED <<input, cur, eof, cancelled, request, expecting, continued, complete,
                   goroutines, closevars, histvars>>

-----------------------------------------------------------------------------
\* The goroutine of the request

\* A read takes what is in the pipe; a closed pipe is at its end.
Read(s, p, tok) ==
    /\ ~eof[s] /\ pipe[s][p] = tok /\ tok # None
    /\ pipe' = [pipe EXCEPT ![s][p] = None]

ReadEOF(s) == eof[s] /\ UNCHANGED pipe

\* ReadRequest; without a request the context is cancelled and that is the end.
ReadRequest(s) ==
    /\ rq[s] = "head"
    /\ \/ \E tok \in RequestHeads \ {"bad"} :
             /\ Read(s, "req", tok)
             /\ rq' = [rq EXCEPT ![s] = "store"]
             /\ head' = [head EXCEPT ![s]["req"] = tok]
             /\ UNCHANGED <<cancelled, log>>
       \/ /\ \/ Read(s, "req", "bad") /\ Call(s, "error")
             \/ ReadEOF(s) /\ UNCHANGED log
          /\ cancelled' = [cancelled EXCEPT ![s] = TRUE]
          /\ rq' = [rq EXCEPT ![s] = "exit"]
          /\ UNCHANGED head
    /\ UNCHANGED <<input, watch, cur, eof, request, expecting, continued, complete,
                   rs, ondone, closevars, drained>>

\* The request is stored in the shared state.
StoreRequest(s) ==
    /\ rq[s] = "store"
    /\ request' = [request EXCEPT ![s] = head[s]["req"]]
    /\ expecting' = [expecting EXCEPT ![s] = (head[s]["req"] = "expect")]
    /\ rq' = [rq EXCEPT ![s] = "notify"]
    /\ UNCHANGED <<input, watch, cur, pipe, eof, cancelled, continued, complete,
                   rs, head, ondone, closevars, histvars>>

\* OnRequest; then the body, the wait for it to be asked for, or the rest.
OnRequest(s) ==
    /\ rq[s] = "notify"
    /\ Call(s, "request")
    /\ rq' = [rq EXCEPT ![s] = IF head[s]["req"] \notin {"post", "expect"} THEN "drain"
                               ELSE IF expecting[s] THEN "wait" ELSE "body"]
    /\ UNCHANGED <<input, watch, cur, parservars, rs, head, ondone, closevars, drained>>

AwaitContinue(s) ==
    /\ rq[s] = "wait"
    /\ \/ continued[s] /\ rq' = [rq EXCEPT ![s] = "body"]
       \/ cancelled[s] /\ rq' = [rq EXCEPT ![s] = "exit"]
    /\ UNCHANGED <<input, watch, cur, parservars, rs, head, ondone, closevars, histvars>>

\* What streamBody does with what it reads: a piece is passed on; the end of the
\* body, or of the pipe, too.  Any other message in the body's place is taken
\* for a piece of it, and may fill it; what cannot be decoded ends it with an error.
BodyPiece(s, p, tok) == tok # "last" /\ Read(s, p, tok)
BodyEnd(s, p, tok) == tok # "part" /\ Read(s, p, tok)

RequestBody(s) ==
    /\ rq[s] = "body"
    /\ \/ /\ \E tok \in RequestHeads \cup Pieces : BodyPiece(s, "req", tok)
          /\ Call(s, "requestbody")
          /\ UNCHANGED rq
       \/ /\ \/ \E tok \in RequestHeads \cup Pieces : BodyEnd(s, "req", tok)
             \/ ReadEOF(s)
          /\ Call(s, "requestend")
          /\ rq' = [rq EXCEPT ![s] = "drain"]
       \/ /\ \E tok \in RequestHeads \cup Pieces : Read(s, "req", tok)
          /\ Call(s, "error")
          /\ rq' = [rq EXCEPT ![s] = "drain"]
    /\ UNCHANGED <<input, watch, cur, eof, cancelled, request, expecting, continued, complete,
                   rs, head, ondone, closevars, drained>>

\* The rest of the pipe is thrown away, to its end.
DrainRequest(s) ==
    /\ rq[s] = "drain"
    /\ \/ \E tok \in RequestHeads \cup Pieces :
             /\ Read(s, "req", tok)
             /\ drained' = [drained EXCEPT ![s] = @ \cup {tok}]
             /\ UNCHANGED rq
       \/ /\ ReadEOF(s)
          /\ rq' = [rq EXCEPT ![s] = "exit"]
          /\ UNCHANGED drained
    /\ UNCHANGED <<input, watch, cur, eof, cancelled, request, expecting, continued, complete,
                   rs, head, ondone, closevars, log>>

-----------------------------------------------------------------------------
\* The goroutine of the responses

\* Without a response the context is cancelled and that is the end.
NoResponse(s) ==
    /\ \/ Read(s, "resp", "bad") /\ Call(s, "error")
       \/ ReadEOF(s) /\ UNCHANGED log
    /\ cancelled' = [cancelled EXCEPT ![s] = TRUE]
    /\ rs' = [rs EXCEPT ![s] = "exit"]
    /\ UNCHANGED <<expecting, continued, head>>

\* 100 Continue releases a request that is known to wait for it.
Continue(s) ==
    /\ Read(s, "resp", "100")
    /\ Call(s, "interim")
    /\ continued' = [continued EXCEPT ![s] = @ \/ expecting[s]]
    /\ expecting' = [expecting EXCEPT ![s] = FALSE]
    /\ UNCHANGED <<cancelled, rs, head>>

\* 101 is an interim response that ends the HTTP part of the connection.
SwitchProtocols(s) ==
    /\ Read(s, "resp", "101")
    /\ log' = [log EXCEPT ![s] = @ \o <<"interim", "response">>]
    /\ rs' = [rs EXCEPT ![s] = "ondone"]
    /\ UNCHANGED <<cancelled, expecting, continued, head>>

\* expectsResponseBody, with the request as far as it is known.
ExpectsResponseBody(s, tok) == request[s] # "head" /\ tok \in {"200", "eof"}

FinalResponse(s) ==
    /\ \E tok \in {"200", "204", "eof"} :
          /\ Read(s, "resp", tok)
          /\ head' = [head EXCEPT ![s]["resp"] = tok]
          /\ rs' = [rs EXCEPT ![s] = IF ExpectsResponseBody(s, tok) THEN "notifybody"
                                     ELSE "notify"]
    /\ UNCHANGED <<cancelled, expecting, continued, log>>

ReadResponse(s) ==
    /\ rs[s] = "head"
    /\ NoResponse(s) \/ Continue(s) \/ SwitchProtocols(s) \/ FinalResponse(s)
    /\ UNCHANGED <<input, watch, cur, eof, request, complete, rq, ondone, closevars, drained>>

OnResponse(s) ==
    /\ \/ rs[s] = "notifybody" /\ rs' = [rs EXCEPT ![s] = "body"]
       \/ rs[s] = "notify" /\ rs' = [rs EXCEPT ![s] = "drain"]
    /\ Call(s, "response")
    /\ UNCHANGED <<input, watch, cur, parservars, rq, head, ondone, closevars, drained>>

ResponseBody(s) ==
    /\ rs[s] = "body"
    /\ \/ /\ \E tok \in ResponseHeads \cup Pieces :
                IF head[s]["resp"] = "eof" THEN Read(s, "resp", tok)
                                           ELSE BodyPiece(s, "resp", tok)
          /\ Call(s, "responsebody")
          /\ UNCHANGED rs
       \/ /\ \/ /\ head[s]["resp"] # "eof"
                /\ \E tok \in ResponseHeads \cup Pieces : BodyEnd(s, "resp", tok)
             \/ ReadEOF(s)
          /\ Call(s, "responseend")
          /\ rs' = [rs EXCEPT ![s] = "drain"]
       \/ /\ \E tok \in ResponseHeads \cup Pieces : Read(s, "resp", tok)
          /\ Call(s, "error")
          /\ rs' = [rs EXCEPT ![s] = "drain"]
    /\ UNCHANGED <<input, watch, cur, eof, cancelled, request, expecting, continued, complete,
                   rq, head, ondone, closevars, drained>>

\* Mutant: the goroutine ends with the body and leaves the rest in the pipe.
ResponseNotDrained(s) ==
    /\ rs[s] = "drain"
    /\ rs' = [rs EXCEPT ![s] = "exit"]
    /\ ondone' = [ondone EXCEPT ![s] = "wait"]
    /\ complete' = [complete EXCEPT ![s] = TRUE]
    /\ UNCHANGED <<input, watch, cur, pipe, eof, cancelled, request, expecting, continued,
                   rq, head, closevars, histvars>>

\* The rest of the pipe is thrown away, to its end; then OnDone is started on a
\* goroutine of its own, and the transaction is complete.
DrainResponse(s) ==
    /\ rs[s] = "drain"
    /\ \/ /\ \E tok \in ResponseHeads \cup Pieces :
                /\ Read(s, "resp", tok)
                /\ drained' = [drained EXCEPT ![s] = @ \cup {tok}]
          /\ UNCHANGED <<rs, ondone, complete>>
       \/ /\ ReadEOF(s)
          /\ rs' = [rs EXCEPT ![s] = "exit"]
          /\ ondone' = [ondone EXCEPT ![s] = "wait"]
          /\ complete' = [complete EXCEPT ![s] = TRUE]
          /\ UNCHANGED drained
    /\ UNCHANGED <<input, watch, cur, eof, cancelled, request, expecting, continued,
                   rq, head, closevars, log>>

-----------------------------------------------------------------------------
\* Session.Close and Parser.Close

\* The first to set closed goes on to close the parser; the others return.
SessionClose(s, who) ==
    /\ closed' = [closed EXCEPT ![s] = TRUE]
    /\ closer' = [closer EXCEPT ![s] = IF closed[s] THEN @ ELSE who]
    /\ cpc' = [cpc EXCEPT ![s] = IF closed[s] THEN @ ELSE "pipes"]
    /\ UNCHANGED torn

\* OnDone of a final response waits for the transaction, then closes the session.
OnDone(s) ==
    /\ ondone[s] = "wait" /\ (complete[s] \/ cancelled[s])
    /\ ondone' = [ondone EXCEPT ![s] = "exit"]
    /\ SessionClose(s, "ondone")
    /\ UNCHANGED <<input, watch, cur, parservars, rq, rs, head, histvars>>

\* OnDone of a 101 response runs on the goroutine that ends the transaction
\* only afterwards, so it waits for the context.  Its Close of the session, if
\* it is the first, then waits for this goroutine.
OnDoneUpgrade(s) ==
    /\ rs[s] = "ondone" /\ cancelled[s]
    /\ SessionClose(s, "responses")
    /\ rs' = [rs EXCEPT ![s] = IF closed[s] THEN "exit" ELSE "closing"]
    /\ complete' = [complete EXCEPT ![s] = closed[s]]
    /\ UNCHANGED <<input, watch, cur, pipe, eof, cancelled, request, expecting, continued,
                   rq, head, ondone, histvars>>

\* HTTPStream.Close, at the end of the connection (with no session it panics,
\* see ConnManager).
Close ==
    /\ watch = "idle" /\ cur # 0
    /\ SessionClose(cur, "watch")
    /\ watch' = IF closed[cur] THEN "closed" ELSE "closing"
    /\ UNCHANGED <<input, cur, parservars, goroutines, histvars>>

\* Parser.Close: both pipes end, the context is cancelled, and the goroutines
\* are waited for.
ClosePipes(s) ==
    /\ cpc[s] = "pipes"
    /\ eof' = [eof EXCEPT ![s] = TRUE]
    /\ cpc' = [cpc EXCEPT ![s] = "cancel"]
    /\ UNCHANGED <<input, watch, cur, pipe, cancelled, request, expecting, continued, complete,
                   goroutines, closed, closer, torn, histvars>>

\* Mutant: Parser.Close does not cancel the context.
NotCancelled(s) ==
    /\ cpc[s] = "cancel"
    /\ cpc' = [cpc EXCEPT ![s] = "join"]
    /\ UNCHANGED <<input, watch, cur, parservars, goroutines, closed, closer, torn, histvars>>

Cancel(s) ==
    /\ cpc[s] = "cancel"
    /\ cancelled' = [cancelled EXCEPT ![s] = TRUE]
    /\ cpc' = [cpc EXCEPT ![s] = "join"]
    /\ UNCHANGED <<input, watch, cur, pipe, eof, request, expecting, continued, complete,
                   goroutines, closed, closer, torn, histvars>>

\* Mutant: Parser.Close does not wait for its goroutines.
NotJoined(s) ==
    /\ cpc[s] = "join"
    /\ cpc' = [cpc EXCEPT ![s] = "over"]
    /\ torn' = [torn EXCEPT ![s] = @ + 1]
    /\ watch' = IF closer[s] = "watch" THEN "closed" ELSE watch
    /\ UNCHANGED <<input, cur, parservars, goroutines, closed, closer, histvars>>

\* The wait group is empty; the plugin connection is torn down.
Teardown(s) ==
    /\ cpc[s] = "join"
    /\ rq[s] = "exit" /\ rs[s] = "exit"
    /\ cpc' = [cpc EXCEPT ![s] = "over"]
    /\ torn' = [torn EXCEPT ![s] = @ + 1]
    /\ watch' = IF closer[s] = "watch" THEN "closed" ELSE watch
    /\ UNCHANGED <<input, cur, parservars, goroutines, closed, closer, histvars>>

-----------------------------------------------------------------------------

RequestGoroutine(s) ==
    ReadRequest(s) \/ StoreRequest(s) \/ OnRequest(s) \/ AwaitContinue(s)
        \/ RequestBody(s) \/ DrainRequest(s)

ResponseGoroutine(s) ==
    ReadResponse(s) \/ OnResponse(s) \/ ResponseBody(s) \/ DrainResponse(s) \/ OnDoneUpgrade(s)

CloseSteps(s) == ClosePipes(s) \/ Cancel(s) \/ Teardown(s)

Next ==
    \/ Process \/ Write \/ WriteReturn \/ Close
    \/ \E s \in Sessions :
          RequestGoroutine(s) \/ ResponseGoroutine(s) \/ OnDone(s) \/ CloseSteps(s)

Spec == Init /\ [][Next]_vars

\* Every goroutine goes on while it can; data and the end of the connection
\* need not come.
Fairness ==
    /\ WF_vars(Write) /\ WF_vars(WriteReturn)
    /\ \A s \in Sessions :
          /\ WF_vars(RequestGoroutine(s)) /\ WF_vars(ResponseGoroutine(s))
          /\ WF_vars(OnDone(s)) /\ WF_vars(CloseSteps(s))

FairSpec == Spec /\ Fairness

-----------------------------------------------------------------------------
\* Properties

\* Session.Close: the parser is closed before the plugin connection is torn
\* down, so that no callback of either goroutine, and no second Teardown, comes
\* after Teardown.
NoCallbackAfterTeardown ==
    [][\A s \in Sessions : torn[s] > 0 => log'[s] = log[s] /\ torn'[s] = torn[s]]_vars

Carries(phase, tok) == [phase |-> phase, tok |-> tok] \in ToSet(traffic)

\* Parser.Close, line 288: "Close cleans up resources and stops processor
\* goroutines".  Session.Close runs to its end, whatever they wait for: Teardown
\* is called and HTTPStream.Close returns.  The exception is an upgrade of a
\* request that cannot be parsed, where Close runs on a goroutine it waits for.
CloseReturns ==
    LET excepted == Carries("req", "bad") /\ Carries("resp", "101")
    IN  /\ \A s \in Sessions : closed[s] ~> (torn[s] > 0 \/ excepted)
        /\ watch = "closing" ~> (watch = "closed" \/ excepted)

\* ProcessEvent, lines 136-138: "The write might block if the processor isn't
\* ready, which gives us natural backpressure".  Unless a message cannot be
\* parsed, the request expects 100 Continue or the protocol is switched, a
\* blocked write ends.
OrdinaryWriteReturns ==
    (watch = "write" /\ \A e \in ToSet(traffic) : e.tok \notin {"bad", "expect", "101"})
        ~> watch # "write"

\* Parser, lines 189-190 and 261-262: what is flushed is "any extra data that may
\* have been written", like "a body was longer then the Content-Length header":
\* never the head of the next message.
FlushedIsExtra ==
    \A s \in Sessions : drained[s] \cap (RequestHeads \cup ResponseHeads) = {}
=============================================================================
