----------------------------- MODULE ConnDomain -----------------------------
(***************************************************************************)
(* The cached domain of a connection (pkg/connection/connection.go).       *)
(*                                                                         *)
(* SetDomain and Domain read and write domain and domainIsIP without a     *)
(* lock.  They run on the connection's watch goroutine, on the goroutine   *)
(* that parses HTTP/1 requests (SetDomain) and on goroutines that only ask *)
(* (Domain): the reporter's, the workers of plugins (connmeta/meta.go) and *)
(* whatever saves through the injectors of the event and object stores.    *)
(* Reporter stands for all of these.  Every access to a field is a step    *)
(* here; a Go string is two words, its pointer and its length, which are   *)
(* stored one after the other.                                             *)
(***************************************************************************)
EXTENDS Naturals, FiniteSets

CONSTANTS
    Names, IPs,     \* what a host can be
    Threads,        \* the goroutines that use the connection
    DomainCalls     \* bound: calls of SetDomain and Domain

CONSTANTS Watch, Request, Reporter

Empty == "empty"
Hosts == Names \cup IPs
Texts == Hosts \cup {Empty}

Invalid == "invalid"
HostInputs == Texts \cup {Invalid}

ASSUME DomainAssumption ==
    /\ Names \cap IPs = {} /\ Empty \notin Hosts /\ Invalid \notin Hosts
    /\ Threads \subseteq {Watch, Request, Reporter}
    /\ DomainCalls \in Nat

VARIABLES
    domain,      \* [ptr, len]: the texts that the two words belong to
    domainIsIP,
    origDest,    \* OriginalDestination, Empty when it is nil
    dstAddr,     \* the destination of the open event
    dnsRecord,   \* the record's domain, Empty when there is no record
    pc, host,    \* each thread's step, and the host it is about to set
    unstored,    \* the words of domain that it has still to store
    calls,
    overlap,     \* history: two calls have run at the same time
    answer       \* history: what the last call of Domain returned

vars == <<domain, domainIsIP, origDest, dstAddr, dnsRecord, pc, host, unstored, calls, overlap, answer>>

given == <<dstAddr, dnsRecord>>
counts == <<calls, overlap>>

Whole(text) == [ptr |-> text, len |-> text]
Words == {"ptr", "len"}

\* A connection has its open event; its IP may be missing.
Init ==
    /\ domain = Whole(Empty) /\ domainIsIP = FALSE
    /\ origDest = Empty
    /\ dstAddr \in IPs \cup {Empty}
    /\ dnsRecord \in Names \cup {Empty}
    /\ pc = [t \in Threads |-> "idle"]
    /\ host = [t \in Threads |-> Empty]
    /\ unstored = [t \in Threads |-> {}]
    /\ calls = 0 /\ overlap = FALSE
    /\ answer = Whole(Empty)

Goto(t, at) == pc' = [pc EXCEPT ![t] = at]

BeginCall(t, at) ==
    /\ pc[t] = "idle" /\ calls < DomainCalls
    /\ calls' = calls + 1
    /\ overlap' = (overlap \/ \E u \in Threads : pc[u] # "idle")
    /\ Goto(t, at)

\* What parseHostString makes of an input: a host, or Empty for one that is
\* neither an address nor a valid name.
parseHostString(input) == IF input \in Hosts THEN input ELSE Empty

-----------------------------------------------------------------------------
\* SetDomain

\* The thread calls SetDomain; an empty input is ignored.  parseHostString
\* reads no state.
SetDomain(t, input) ==
    /\ BeginCall(t, "set_isip")
    /\ host' = [host EXCEPT ![t] = parseHostString(input)]
    /\ UNCHANGED <<domain, domainIsIP, origDest, given, unstored, answer>>

\* Mutant: the IP becomes the domain without the checks of SetDomain.
DestinationUnchecked(t, ip) ==
    /\ t = Watch
    /\ BeginCall(t, "idle")
    /\ origDest' = ip
    /\ domain' = Whole(ip)
    /\ UNCHANGED <<domainIsIP, given, host, unstored, answer>>

\* processOriginalDestinationEvent stores the destination and sets its IP.
OriginalDestination(t, ip) ==
    /\ t = Watch
    /\ BeginCall(t, "set_isip")
    /\ origDest' = ip
    /\ host' = [host EXCEPT ![t] = ip]
    /\ UNCHANGED <<domain, domainIsIP, given, unstored, answer>>

Step(t, at, to) ==
    /\ pc[t] = at
    /\ Goto(t, to)
    /\ UNCHANGED <<domain, domainIsIP, origDest, given, host, unstored, counts, answer>>

\* A name that is set stays: !domainIsIP ...
SetIsIP(t) == Step(t, "set_isip", IF domainIsIP THEN "set_parsed" ELSE "set_len")

\* ... and len(domain) > 0.
SetLen(t) == Step(t, "set_len", IF domain.len # Empty THEN "idle" ELSE "set_parsed")

\* Nothing valid was parsed, or an IP would replace what is not one.
SetParsed(t) ==
    Step(t, "set_parsed",
         IF host[t] = Empty \/ (host[t] \in IPs /\ ~domainIsIP) THEN "idle" ELSE "set_same")

\* The same domain is not set twice.
SetSame(t) ==
    /\ pc[t] = "set_same"
    /\ IF domain = Whole(host[t])
         THEN Goto(t, "idle") /\ UNCHANGED unstored
         ELSE Goto(t, "set_store") /\ unstored' = [unstored EXCEPT ![t] = Words]
    /\ UNCHANGED <<domain, domainIsIP, origDest, given, host, counts, answer>>

\* One word of the assignment to domain, in whichever order they are stored.
StoreWord(t) ==
    /\ pc[t] \in {"set_store", "dns_store", "ip_store"}
    /\ \E w \in unstored[t] :
         /\ domain' = [domain EXCEPT ![w] = host[t]]
         /\ unstored' = [unstored EXCEPT ![t] = @ \ {w}]
    /\ UNCHANGED <<domainIsIP, origDest, given, pc, host, counts, answer>>

SetFlag(t) ==
    /\ pc[t] = "set_store" /\ unstored[t] = {}
    /\ domainIsIP' = (host[t] \in IPs)
    /\ Goto(t, "idle")
    /\ UNCHANGED <<domain, origDest, given, host, unstored, counts, answer>>

-----------------------------------------------------------------------------
\* Domain

Domain(t) ==
    /\ BeginCall(t, "get_len")
    /\ UNCHANGED <<domain, domainIsIP, origDest, given, host, unstored, answer>>

\* A domain that is set and not an IP is returned as it is.
GetLen(t) == Step(t, "get_len", IF domain.len # Empty THEN "get_isip" ELSE "get_dns")
GetIsIP(t) == Step(t, "get_isip", IF domainIsIP THEN "get_dns" ELSE "get_return")

\* The record found when the connection was opened becomes the domain.
GetDNS(t) ==
    /\ pc[t] = "get_dns"
    /\ IF dnsRecord # Empty
         THEN /\ host' = [host EXCEPT ![t] = dnsRecord]
              /\ unstored' = [unstored EXCEPT ![t] = Words]
              /\ Goto(t, "dns_store")
         ELSE Goto(t, "get_empty") /\ UNCHANGED <<host, unstored>>
    /\ UNCHANGED <<domain, domainIsIP, origDest, given, counts, answer>>

DNSFlag(t) ==
    /\ pc[t] = "dns_store" /\ unstored[t] = {}
    /\ domainIsIP' = FALSE
    /\ Goto(t, "get_empty")
    /\ UNCHANGED <<domain, origDest, given, host, unstored, counts, answer>>

\* Without a domain it is the original destination or the destination's IP.
GetEmpty(t) ==
    /\ pc[t] = "get_empty"
    /\ IF domain.len = Empty
         THEN /\ host' = [host EXCEPT ![t] = IF origDest # Empty THEN origDest ELSE dstAddr]
              /\ unstored' = [unstored EXCEPT ![t] = Words]
              /\ Goto(t, "ip_store")
         ELSE Goto(t, "get_return") /\ UNCHANGED <<host, unstored>>
    /\ UNCHANGED <<domain, domainIsIP, origDest, given, counts, answer>>

IPFlag(t) ==
    /\ pc[t] = "ip_store" /\ unstored[t] = {}
    /\ domainIsIP' = TRUE
    /\ Goto(t, "get_return")
    /\ UNCHANGED <<domain, origDest, given, host, unstored, counts, answer>>

\* Both words are loaded in one step: they are stored one by one and in either
\* order, so that a load may already find one old and one new word.
Return(t) ==
    /\ pc[t] = "get_return"
    /\ answer' = domain
    /\ Goto(t, "idle")
    /\ UNCHANGED <<domain, domainIsIP, origDest, given, host, unstored, counts>>

-----------------------------------------------------------------------------

Running(t) ==
    \/ SetIsIP(t) \/ SetLen(t) \/ SetParsed(t) \/ SetSame(t) \/ StoreWord(t) \/ SetFlag(t)
    \/ GetLen(t) \/ GetIsIP(t) \/ GetDNS(t) \/ DNSFlag(t) \/ GetEmpty(t) \/ IPFlag(t) \/ Return(t)

\* Hostname and TLS client hello events set the domain on the watch goroutine,
\* which also asks for it when it makes a stream; requests set their Host; the
\* other goroutines ask.
Next == \E t \in Threads :
    \/ t \in {Watch, Request} /\ \E input \in HostInputs : SetDomain(t, input)
    \/ \E ip \in IPs : OriginalDestination(t, ip)
    \/ t \in {Watch, Reporter} /\ Domain(t)
    \/ Running(t)

Spec == Init /\ [][Next]_vars

-----------------------------------------------------------------------------
\* Properties

\* As long as no two calls have overlapped: once Domain has returned a name it
\* returns that name for good, so that records of one connection that are saved
\* at different times name the same endpoint.
AnswerStays == [][~overlap /\ answer.len \in Names => answer' = answer]_vars

=============================================================================
