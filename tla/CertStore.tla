----------------------------- MODULE CertStore -----------------------------
(***************************************************************************)
(* The certificates that the egress forwarder shows to its clients         *)
(* (pkg/egress/cert.go).  GetCert looks the domain up without the mutex;   *)
(* under it a domain is added to the current certificate, which is signed  *)
(* anew in place, or to a new one when the current one is full.  A name    *)
(* that cannot be signed makes AddDomain fail.                             *)
(***************************************************************************)
EXTENDS Naturals, Sequences

CONSTANTS
    Handshakes,      \* goroutines, each with one call of GetCert
    Domains,
    Unsignable,      \* names that x509.CreateCertificate refuses
    sanCertMaxSize,
    NoneC

ASSUME CertAssumption == Unsignable \subseteq Domains /\ sanCertMaxSize \in Nat \ {0} /\ NoneC \notin Nat

VARIABLES
    certs,           \* the certificates in the order of their creation
    counter,         \* currentSanCertCounter; the current one is the last
    domainToCert,
    shake            \* the calls: their domain, where they are, what they return

certVars == <<certs, counter, domainToCert, shake>>

\* template.DNSNames, and the names in the signed bytes.
NewSANCert == [template |-> <<>>, signed |-> <<>>]

CertInit ==
    /\ certs = <<>> /\ counter = 0
    /\ domainToCert = [d \in Domains |-> NoneC]
    /\ shake \in [Handshakes -> {[at |-> "load", domain |-> d, cert |-> NoneC] : d \in Domains}]

NamesOf(names) == {names[i] : i \in 1..Len(names)}

GetCertLoad(h) ==
    /\ shake[h].at = "load"
    /\ LET cert == domainToCert[shake[h].domain] IN
       shake' = [shake EXCEPT ![h].at = IF cert = NoneC THEN "lock" ELSE "returned",
                              ![h].cert = cert]
    /\ UNCHANGED <<certs, counter, domainToCert>>

Full == certs = <<>> \/ counter = sanCertMaxSize

\* Mutant: only the new name is signed.
AddDomainOnly(cert, d) ==
    [cert EXCEPT !.template = Append(@, d), !.signed = <<d>>]

\* The name stays in the template when the signature fails.
AddDomain(cert, d) ==
    LET template == Append(cert.template, d) IN
    [template |-> template,
     signed |-> IF NamesOf(template) \cap Unsignable = {} THEN template ELSE cert.signed]

\* The part of GetCert under the mutex; making a certificate may fail.
GetCertLocked(h) ==
    /\ shake[h].at = "lock"
    /\ \/ /\ Full
          /\ shake' = [shake EXCEPT ![h].at = "failed"]
          /\ UNCHANGED <<certs, counter, domainToCert>>
       \/ LET d == shake[h].domain
              before == IF Full THEN Append(certs, NewSANCert) ELSE certs
              n == Len(before)
              cert == AddDomain(before[n], d)
              ok == NamesOf(cert.template) \cap Unsignable = {}
          IN  /\ certs' = [before EXCEPT ![n] = cert]
              /\ counter' = (IF Full THEN 0 ELSE counter) + (IF ok THEN 1 ELSE 0)
              /\ domainToCert' = IF ok THEN [domainToCert EXCEPT ![d] = n] ELSE domainToCert
              /\ shake' = [shake EXCEPT ![h].at = IF ok THEN "returned" ELSE "failed",
                                        ![h].cert = IF ok THEN n ELSE NoneC]

CertNext == \E h \in Handshakes : GetCertLoad(h) \/ GetCertLocked(h)

-----------------------------------------------------------------------------
\* A certificate that GetCert has returned names the domain it was asked for, and
\* still does after it was signed again for others or another became the current
\* one (cert.go:83).
CertCovers ==
    \A h \in Handshakes :
      shake[h].at = "returned" => shake[h].domain \in NamesOf(certs[shake[h].cert].signed)

\* The signed names of a certificate are no more than the maximum, also when two
\* handshakes add the same domain (cert.go:183).
CertBounded == \A n \in 1..Len(certs) : Len(certs[n].signed) <= sanCertMaxSize
=============================================================================
