----------------------------- MODULE Http2Stream -----------------------------
(***************************************************************************)
(* The stream of an HTTP/2 connection: frames of several streams in both   *)
(* directions, a session for each stream, and a plugin connection for each *)
(* request (http2/stream.go, http2/session.go).                            *)
(*                                                                         *)
(* Client and server are the environment.  A scope h2 says how they use    *)
(* the connection; the streams in h2.odd may be used in the ways the code  *)
(* does not expect (see RegularStream), the others may not.  A step is a   *)
(* frame; a header block in several frames is one step.                    *)
(***************************************************************************)
EXTENDS Integers, Sequences

CONSTANTS
    H2Scopes,        \* how client and server use the connection
    Streams,         \* stream identifiers
    MaxData          \* bound: DATA frames of each side on a stream

VARIABLES
    h2,              \* the scope of this connection
    client,          \* of each stream: "idle", "open", "ended" or "reset"
    server,          \* the same, and "trailers" when it ended with a gRPC status
    data,            \* of each stream: DATA frames that each side has sent
    sessions,        \* HTTPStream.sessions
    plugs,           \* the plugin connections, in the order they were made
    prefaceRead,
    grpcConn,        \* conn.Protocol = Protocol_GRPC
    corrupt,         \* directions whose HPACK decoder has missed a part
    skipStream,      \* Connection.skipStreamProcessing
    h2closed

h2Vars == <<h2, client, server, data, sessions, plugs, prefaceRead, grpcConn, corrupt,
            skipStream, h2closed>>

NoSession == [state |-> "absent", plug |-> 0, grpc |-> FALSE, reqEnc |-> FALSE, resEnc |-> FALSE]
NewSession == [NoSession EXCEPT !.state = "Idle"]

\* In a connection that is seen from its middle on, requests are already under way.
H2Init ==
    /\ h2 \in H2Scopes
    /\ client = [s \in Streams |-> IF h2.middle THEN "ended" ELSE "idle"]
    /\ server = [s \in Streams |-> "idle"]
    /\ data = [s \in Streams |-> [client |-> 0, server |-> 0]]
    /\ sessions = [s \in Streams |-> NoSession]
    /\ plugs = <<>>
    /\ prefaceRead = FALSE /\ grpcConn = FALSE /\ corrupt = {}
    /\ skipStream = FALSE /\ h2closed = FALSE

-----------------------------------------------------------------------------
\* Callbacks of plugin connections and the end of a session.

NewPlug(s, f) ==
    [stream |-> s, by |-> f.by, conn |-> "open", req |-> <<>>, res |-> <<>>, ends |-> <<>>, status |-> "none"]

\* OnHttpRequestBody and OnHttpResponseBody.
Wrote(p, n, body, pieces, end) ==
    IF n.plug = 0 THEN p
    ELSE [p EXCEPT ![n.plug][body] = @ \o pieces,
                   ![n.plug].ends = IF end THEN Append(@, body) ELSE @]

\* CreateResponse and HandleTrailers.
Status(p, n, status) == IF n.plug = 0 THEN p ELSE [p EXCEPT ![n.plug].status = status]

\* Session.Close: a gRPC response without trailers counts as cancelled.
Close(p, n) ==
    IF n.plug = 0 THEN p
    ELSE [p EXCEPT ![n.plug].conn = "down",
                   ![n.plug].status = IF n.grpc /\ @ \notin {"none", "trailers"} THEN "cancelled" ELSE @]

Put(s, n, p) == sessions' = [sessions EXCEPT ![s] = n] /\ plugs' = p
cleanupSession(s, n, p) == Put(s, NoSession, Close(p, n))

skipStreamOf(s, n, p) == cleanupSession(s, n, p)

-----------------------------------------------------------------------------
\* handleFrame

CreateRequest(s, n, f) ==
    LET made == IF h2.stack THEN Append(plugs, NewPlug(s, f)) ELSE plugs
        m == [n EXCEPT !.plug = IF h2.stack THEN Len(made) ELSE 0, !.reqEnc = f.enc,
                       !.state = IF f.end THEN "RequestDone" ELSE "RequestHeaders"]
    IN  IF f.end /\ f.enc THEN skipStreamOf(s, m, made)
        ELSE Put(s, m, IF f.end THEN Wrote(made, m, "req", <<>>, TRUE) ELSE made)

\* WriteResponseBody with endStream: the session is closed, and deleted.
EndResponse(s, n, p, pieces) ==
    IF n.resEnc THEN skipStreamOf(s, n, p)
    ELSE cleanupSession(s, n, Wrote(p, n, "res", pieces, TRUE))

handleResponseHeaders(s, n, f, p) ==
    LET m == [n EXCEPT !.resEnc = f.enc, !.state = "ResponseHeaders"]
        q == Status(p, m, IF f.trailers THEN "trailers" ELSE IF f.status = "none" THEN "unknown" ELSE f.status)
    IN  IF f.end THEN EndResponse(s, m, q, <<>>) ELSE Put(s, m, q)

\* Mutant: a response is expected only when the request has ended.
hasStatusHeaderNot(f) == FALSE

hasStatusHeader(f) == f.status # "none"

\* A response that comes before the end of the request ends it.
EarlyResponse(s, n, f) ==
    LET m == [n EXCEPT !.state = "RequestDone"]
    IN  handleResponseHeaders(s, m, f, IF n.reqEnc THEN plugs ELSE Wrote(plugs, n, "req", <<>>, TRUE))

\* Only headers that end the stream are trailers.
Trailers(s, n, f) ==
    IF f.end THEN EndResponse(s, n, IF n.grpc /\ f.trailers THEN Status(plugs, n, "trailers") ELSE plugs, <<>>)
    ELSE Put(s, n, plugs)

handleHeadersFrame(s, n, f) ==
    CASE n.state = "Idle" -> CreateRequest(s, n, f)
      [] n.state \in {"RequestHeaders", "RequestBody"} ->
           IF hasStatusHeader(f) THEN EarlyResponse(s, n, f) ELSE Put(s, n, plugs)
      [] n.state = "RequestDone" -> handleResponseHeaders(s, n, f, plugs)
      [] OTHER -> Trailers(s, n, f)

handleDataFrame(s, n, f) ==
    LET piece == <<<<f.by, f.piece>>>> IN
    CASE n.state \in {"RequestHeaders", "RequestBody"} ->
           IF n.reqEnc THEN skipStreamOf(s, n, plugs)
           ELSE Put(s, [n EXCEPT !.state = IF f.end THEN "RequestDone" ELSE "RequestBody"],
                    Wrote(plugs, n, "req", piece, f.end))
      [] n.state \in {"ResponseHeaders", "ResponseBody"} ->
           IF f.end THEN EndResponse(s, n, plugs, piece)
           ELSE IF n.resEnc THEN skipStreamOf(s, n, plugs)
           ELSE Put(s, [n EXCEPT !.state = "ResponseBody"], Wrote(plugs, n, "res", piece, FALSE))
      [] OTHER -> Put(s, n, plugs)

\* A decoder that has missed a part of a header block makes of the next ones what it
\* can: other fields, or an error.
Decoded(f) ==
    IF f.t # "headers" \/ f.by \notin corrupt THEN {f}
    ELSE {[f EXCEPT !.t = t, !.status = status, !.enc = enc, !.grpc = grpc] :
            t \in {"headers", "rst"}, status \in {"none", f.status}, enc \in BOOLEAN, grpc \in BOOLEAN}

\* The framer gets one frame, so that the rest of a header block is missing: the session
\* is dropped, and the frame that continues it ends the stream, unless gRPC was seen.
SplitHeaders(s, n, f) ==
    /\ cleanupSession(s, n, plugs)
    /\ corrupt' = corrupt \cup {f.by}
    /\ skipStream' = ~grpcConn
    /\ UNCHANGED grpcConn

handleFrame(s, frame) ==
    \E f \in Decoded(frame) :
      LET n == IF sessions[s] = NoSession THEN NewSession ELSE sessions[s] IN
      IF f.split THEN SplitHeaders(s, n, f)
      ELSE /\ UNCHANGED <<corrupt, skipStream>>
           /\ grpcConn' = (grpcConn \/ (f.t = "headers" /\ f.grpc))
           /\ CASE f.t = "headers" -> handleHeadersFrame(s, [n EXCEPT !.grpc = @ \/ f.grpc], f)
                [] f.t = "data" -> handleDataFrame(s, n, f)
                [] f.t = "rst" -> cleanupSession(s, n, plugs)
                [] OTHER -> Put(s, n, plugs)

\* Process.  What the program sends is egress, and has to begin with the preface; what a
\* server receives begins with it too, which is taken for the length of a frame.
Process(s, f) ==
    LET egress == (f.by = "client") = h2.asClient
        preface == h2.asClient /\ ~h2.middle IN
    /\ ~h2closed /\ UNCHANGED h2closed
    /\ prefaceRead' = (prefaceRead \/ (egress /\ preface /\ ~skipStream))
    /\ IF skipStream \/ (~egress /\ ~h2.asClient /\ ~h2.middle)
         THEN UNCHANGED <<sessions, plugs, grpcConn, corrupt, skipStream>>
       ELSE IF egress /\ ~prefaceRead'
         THEN skipStream' = TRUE /\ UNCHANGED <<sessions, plugs, grpcConn, corrupt>>
       ELSE handleFrame(s, f)

-----------------------------------------------------------------------------
\* The environment.

Frame(t, by, end) ==
    [t |-> t, by |-> by, end |-> end, piece |-> 0, status |-> "none", trailers |-> FALSE,
     enc |-> FALSE, grpc |-> FALSE, split |-> FALSE]
Odd(s, use) == s \in h2.odd /\ use \in h2.uses
After(end) == IF end THEN "ended" ELSE "open"

\* A peer that has seen the other's reset, or its response, sends no more.
MayClient(s) == client[s] = "open" /\ (server[s] = "idle" \/ Odd(s, "early")) /\ server[s] # "reset"
MayServer(s) == client[s] # "idle" /\ (client[s] # "reset" \/ Odd(s, "late"))

ClientHeaders(s) ==
    \E end \in BOOLEAN, split \in {FALSE, Odd(s, "split")} :
      /\ client[s] = "idle" /\ client' = [client EXCEPT ![s] = After(end)]
      /\ Process(s, [Frame("headers", "client", end) EXCEPT
                       !.grpc = h2.grpc, !.split = split, !.enc = Odd(s, "request")])
      /\ UNCHANGED <<server, data>>

ClientData(s) ==
    \E end \in BOOLEAN :
      /\ MayClient(s) /\ data[s].client < MaxData
      /\ client' = [client EXCEPT ![s] = After(end)]
      /\ data' = [data EXCEPT ![s].client = @ + 1]
      /\ Process(s, [Frame("data", "client", end) EXCEPT !.piece = data'[s].client])
      /\ UNCHANGED server

ClientTrailers(s) ==
    /\ MayClient(s) /\ client' = [client EXCEPT ![s] = "ended"]
    /\ Process(s, Frame("headers", "client", TRUE))
    /\ UNCHANGED <<server, data>>

ServerHeaders(s) ==
    \E end \in BOOLEAN, only \in BOOLEAN :
      /\ MayServer(s) /\ server[s] = "idle" /\ (only => end /\ h2.grpc)
      /\ server' = [server EXCEPT ![s] = IF only THEN "trailers" ELSE After(end)]
      /\ Process(s, [Frame("headers", "server", end) EXCEPT
                       !.status = "final", !.grpc = h2.grpc, !.trailers = only, !.enc = Odd(s, "response")])
      /\ UNCHANGED <<client, data>>

Informational(s) ==
    /\ MayServer(s) /\ server[s] = "idle" /\ Odd(s, "info")
    /\ Process(s, [Frame("headers", "server", FALSE) EXCEPT !.status = "info"])
    /\ UNCHANGED <<client, server, data>>

ServerData(s) ==
    \E end \in BOOLEAN :
      /\ MayServer(s) /\ server[s] = "open" /\ data[s].server < MaxData
      /\ server' = [server EXCEPT ![s] = After(end)]
      /\ data' = [data EXCEPT ![s].server = @ + 1]
      /\ Process(s, [Frame("data", "server", end) EXCEPT !.piece = data'[s].server])
      /\ UNCHANGED client

ServerTrailers(s) ==
    /\ MayServer(s) /\ server[s] = "open" /\ server' = [server EXCEPT ![s] = IF h2.grpc THEN "trailers" ELSE "ended"]
    /\ Process(s, [Frame("headers", "server", TRUE) EXCEPT !.trailers = h2.grpc])
    /\ UNCHANGED <<client, data>>

\* RST_STREAM, also of a server that has answered and does not want the rest.
Reset(s) ==
    \/ /\ client[s] \in {"open", "ended"} /\ server[s] \in {"idle", "open"}
       /\ client' = [client EXCEPT ![s] = "reset"]
       /\ Process(s, Frame("rst", "client", FALSE)) /\ UNCHANGED <<server, data>>
    \/ /\ MayServer(s) /\ client[s] # "reset" /\ server[s] # "reset"
       /\ server' = [server EXCEPT ![s] = IF @ \in {"idle", "open"} THEN "reset" ELSE @]
       /\ Process(s, Frame("rst", "server", FALSE)) /\ UNCHANGED <<client, data>>

\* WINDOW_UPDATE and PRIORITY, also after the end of the stream.
OtherFrame(s) ==
    \E by \in {"client", "server"} :
      /\ client[s] # "idle" /\ Process(s, Frame("other", by, FALSE))
      /\ UNCHANGED <<client, server, data>>

\* HTTPStream.Close
CloseH2 ==
    /\ ~h2closed /\ h2closed' = TRUE
    /\ plugs' = [i \in DOMAIN plugs |->
                   IF \E s \in Streams : sessions[s].plug = i
                   THEN Close(plugs, sessions[plugs[i].stream])[i] ELSE plugs[i]]
    /\ UNCHANGED <<client, server, data, sessions, prefaceRead, grpcConn, corrupt, skipStream>>

H2Next ==
    /\ UNCHANGED h2
    /\ \/ \E s \in Streams : \/ ClientHeaders(s) \/ ClientData(s) \/ ClientTrailers(s)
                             \/ ServerHeaders(s) \/ Informational(s) \/ ServerData(s)
                             \/ ServerTrailers(s) \/ Reset(s) \/ OtherFrame(s)
       \/ CloseH2

H2Spec == H2Init /\ [][H2Next]_h2Vars

-----------------------------------------------------------------------------
\* A stream whose frames come in the order that the code expects.  On the others
\*   early     the client goes on sending after the response has begun,
\*   info      a 1xx response comes first,
\*   request   the request, or response its response, has a Content-Encoding,
\*   late      the server goes on sending after a reset,
\*   split     the header block is too large for one frame.
RegularStream(s) == s \notin h2.odd /\ corrupt = {} /\ ~skipStream /\ h2.asClient /\ ~h2.middle

SentBy(by, n) == [i \in 1 .. n |-> <<by, i>>]

\* What the plugins are told of a regular stream is what was sent on it, whatever happens
\* on the other streams of the connection ("we skip the problematic stream and continue
\* processing other streams", http2/stream.go:313): one request with the client's data,
\* one response with the server's; both are ended when the response has ended, and a gRPC
\* call has the status of its trailers, or is cancelled (http2/session.go:402).  And on
\* every stream a plugin connection is open exactly as long as its session is kept.
ExchangesAsSent ==
    /\ \A i \in DOMAIN plugs :
         plugs[i].conn = "open" <=> ~h2closed /\ sessions[plugs[i].stream].plug = i
    /\ \A s \in Streams :
         RegularStream(s) /\ ~h2closed =>
           LET mine == {i \in DOMAIN plugs : plugs[i].stream = s} IN
           /\ \A i \in mine :
                /\ mine = {i} /\ plugs[i].by = "client"
                /\ plugs[i].req = SentBy("client", data[s].client)
                /\ plugs[i].res = SentBy("server", data[s].server)
           /\ server[s] \in {"ended", "trailers"} /\ h2.stack =>
                \E i \in mine : plugs[i].conn = "down" /\ plugs[i].ends = <<"req", "res">>
           /\ \A i \in mine : h2.grpc /\ plugs[i].conn = "down" =>
                \/ plugs[i].status = (IF server[s] = "trailers" THEN "trailers" ELSE "cancelled")
                \/ plugs[i].status = "none" /\ plugs[i].res = <<>> /\ server[s] \in {"idle", "reset"}
==============================================================================
