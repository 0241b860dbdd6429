--------------------------- MODULE MCConnManager ----------------------------
(* Small instances of ConnManager for TLC. *)
EXTENDS ConnManager

Http1 == [kind |-> "Protocol", arg |-> "http1"]
Dns == [kind |-> "Protocol", arg |-> "dns"]
Forwarding == [kind |-> "HandlerType", arg |-> "FORWARDING"]
Claimed == [kind |-> "HandlerType", arg |-> "REDIRECTED"]

\* The lifecycle: protocol, data and close from the kernel, data from the copy
\* loops.
LifeReader == {Http1, Ev("Data"), Ev("Close")}
LifeMain == {Claimed}
NoEvents == {}

\* Every kind of event.
AllReader == {Http1, Dns, Ev("Data"), Ev("Hostname"), Ev("TLSServerHello"), Ev("Close")}
AllMain == {Forwarding, Ev("OriginalDestination"), Ev("TLSClientHello"), Ev("Error"), Http1}
AllEngine == {Http1, Ev("Data")}
=============================================================================
