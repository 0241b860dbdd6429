--------------------------- MODULE MCHttp1Stream ----------------------------
(* Small instances of Http1Stream for TLC. *)
EXTENDS Http1Stream

Rq(tok) == [phase |-> "req", tok |-> tok]
Rs(tok) == [phase |-> "resp", tok |-> tok]

\* Longer exchanges: bodies in both directions, a body that ends with the
\* connection, an answer before the request is over, data behind the end.
Long == {
    <<Rq("get"), Rs("eof"), Rs("part"), Rs("part")>>,
    <<Rq("post"), Rq("part"), Rq("last"), Rs("200"), Rs("last")>>,
    <<Rq("post"), Rs("200"), Rs("last"), Rq("last")>>,
    <<Rq("post"), Rq("part"), Rs("204"), Rq("last")>>,
    <<Rq("post"), Rq("last"), Rq("part"), Rs("200"), Rs("last"), Rs("part")>>}

\* All sequences of up to three data events.
Short == {t \in UNION {[1 .. n -> DataEvent] : n \in 1 .. 3} : HeadsWhereDue(t)}

ShortAndLong == Short \cup Long

KeepAlive == {<<Rq("get"), Rs("200"), Rs("last"), Rq("get"), Rs("204")>>}
=============================================================================
