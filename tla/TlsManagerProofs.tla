------------------------- MODULE TlsManagerProofs --------------------------
(***************************************************************************)
(* The attachment of probes, for any number of calls and of processes that *)
(* have the pid one after the other.                                       *)
(*                                                                         *)
(* The tokens of one period are different, so at most one call has the     *)
(* newest.  As long as no call acts out of date, a function that runs in   *)
(* the current period is the operation in flight; the call with the newest *)
(* token waits for that operation and for no other, so nothing runs when   *)
(* it begins, and nothing begins after it.  What it stores therefore       *)
(* stays, until a newer call or ProcessStopped loads, closes and deletes   *)
(* it.                                                                     *)
(*                                                                         *)
(* The last part is about the domain of a connection (ConnDomain).         *)
(***************************************************************************)
EXTENDS TlsManager, ConnDomain, TLAPS

Ops == Calls \X {1, 2}
Early == {"none", "told", "start"}
Before == {"check", "load", "detach", "delete", "scan"}
InExecute == {"execute", "cancel", "wait", "run", "ran", "clear"}
AtRun == {"run", "ran"}

CallRecord ==
    [at : Early \cup Before \cup InExecute \cup {"end"}, kind : {"started", "replaced", "stopped"},
     proc : Nat, version : Nat, period : Nat, n : {1, 2}, waits : Ops \cup {NoneA},
     held : Calls \cup {NoneA}, err : BOOLEAN, outdated : BOOLEAN, overtaken : BOOLEAN,
     repeated : BOOLEAN]

AttachTypeOK ==
    /\ procs \in Nat /\ alive \in BOOLEAN
    /\ att \in [Calls -> CallRecord]
    /\ versions \in Nat /\ periods \in Nat
    /\ inflight \in Ops \cup {NoneA} /\ cancelled \subseteq Ops /\ finished \subseteq Ops
    /\ procAttachments \in Calls \cup {NoneA} /\ opened \subseteq Calls

\* The call has the newest token.
Newest(c) == att[c].version > 0 /\ Current(c)

\* How far a call is, and what it has by then.
ProgressInv(c) ==
    /\ att[c].at \in Early =>
         att[c].version = 0 /\ att[c].period = 0 /\ att[c].n = 1 /\ ~att[c].outdated
    /\ att[c].at \in Before => att[c].n = 1
    /\ att[c].at \in {"start", "check", "scan"} \cup InExecute => att[c].kind # "stopped"
    /\ att[c].kind = "stopped" => att[c].version = 0
    /\ att[c].kind # "stopped" /\ att[c].at \in Before \cup InExecute => att[c].version > 0
    /\ att[c].at = "none" => att[c].kind # "stopped"
    /\ att[c].err => att[c].at \in {"ran", "clear", "end"} /\ att[c].n = 1 /\ c \notin opened
    /\ att[c].repeated => att[c].at \in {"ran", "clear", "end"} /\ att[c].n = 2
    /\ att[c].at \in {"cancel", "wait"} => att[c].waits \in Ops
    /\ att[c].period <= periods
    /\ att[c].period = periods => att[c].version <= versions

\* What has stored its closer has a token and is past its second Execute.
StoredInv(c) ==
    /\ procAttachments = c \/ (\E d \in Calls : att[d].held = c) =>
         att[c].version > 0 /\ att[c].n = 2 /\ att[c].at \in {"ran", "clear", "end"}
    /\ c \in opened =>
         /\ att[c].version > 0
         /\ att[c].at \in InExecute \cup {"end"}
         /\ att[c].n = 1 => att[c].at \in {"ran", "clear", "end"}
    /\ att[c].at = "delete" => att[c].held \notin opened

\* The operations that the coordinator knows.
OperationsInv ==
    /\ \A c, d \in Calls :
         /\ att[c].version > 0 /\ att[c].version = att[d].version
         /\ att[c].period = att[d].period
         => c = d
    /\ \A c \in Calls, m \in {1, 2} :
         /\ inflight = <<c, m>> => m = att[c].n /\ att[c].at \in {"run", "ran", "clear"}
         /\ <<c, m>> \in finished =>
              m < att[c].n \/ (m = att[c].n /\ att[c].at \in {"clear", "end"})
         /\ \/ <<c, m>> \in cancelled
            \/ \E d \in Calls : att[d].at \in {"cancel", "wait"} /\ att[d].waits = <<c, m>>
            => att[c].at \in InExecute \cup {"end"}

\* What runs in the current period is in flight, and the newest call waits for that.
FlightInv ==
    /\ \A c \in Calls : att[c].at \in AtRun /\ att[c].period = periods => inflight = Op(c)
    /\ \A c, d \in Calls :
         att[c].at \in AtRun /\ att[d].at \in AtRun /\ att[c].period = att[d].period => c = d
    /\ \A c \in Calls :
         att[c].at \in {"cancel", "wait"} /\ Newest(c) => inflight \in {NoneA, att[c].waits}

\* Nobody cancels or detaches the newest call, and what it has attached is open and,
\* once stored, stays stored.
Begun(c) == att[c].n = 2 \/ att[c].at \in {"run", "ran", "clear"}
NewestInv(c) ==
    Newest(c) =>
      /\ \A m \in {1, 2} : <<c, m>> \notin cancelled
      /\ \A d \in Calls, m \in {1, 2} : att[d].at \in {"cancel", "wait"} => att[d].waits # <<c, m>>
      /\ \A d \in Calls : att[d].held # c
      /\ Begun(c) => \A d \in Calls \ {c} : ~(att[d].at \in AtRun /\ att[d].period = periods)
      /\ att[c].at = "end" /\ ~att[c].err => att[c].n = 2
      /\ ~att[c].err /\ (att[c].n = 2 \/ att[c].at \in {"ran", "clear"}) => c \in opened
      /\ att[c].n = 2 /\ att[c].at \in {"ran", "clear", "end"} => procAttachments = c

\* The call is the newest, or was when it ended.
Good(c) == att[c].version > 0 /\ (IF att[c].at = "end" THEN ~att[c].overtaken ELSE Current(c))
Single(c) == \A d \in Calls \ {c} : ~att[d].repeated

\* What a call that was not overtaken has left open is stored, a newer call that
\* detaches is about to close it, and so is every ProcessStopped since.
LeftInv(c) ==
    Good(c) =>
      /\ \A d \in Calls :
           att[d].at \in {"detach", "delete"} /\ Current(d) /\ procAttachments = c => att[d].held = c
      /\ att[c].at = "end" /\ c \in opened /\ Single(c) =>
           /\ procAttachments = c
           /\ \A s \in Calls :
                att[s].kind = "stopped" /\ att[s].period > att[c].period =>
                  att[s].at = "load" \/ (att[s].at = "detach" /\ att[s].held = c)

\* Processes that have exited have had their ProcessStopped told, and a token was
\* taken before it was called.
ExitsInv ==
    /\ alive => procs > 0
    /\ \A p \in 1..procs :
         p < procs \/ ~alive => \E s \in Calls : att[s].kind = "stopped" /\ att[s].proc = p
    /\ \A c \in Calls : att[c].proc \in 0..procs /\ (att[c].at # "none" => att[c].proc > 0)

TokensInv ==
    \A c, s \in Calls :
      /\ att[c].version > 0 /\ att[s].kind = "stopped"
      /\ att[s].proc = att[c].proc /\ att[s].at # "told"
      => att[s].period > att[c].period

AttachInv ==
    /\ AttachTypeOK
    /\ \A c \in Calls : ProgressInv(c) /\ StoredInv(c)
    /\ OperationsInv
    /\ ExitsInv
    /\ Undisturbed =>
         /\ FlightInv
         /\ TokensInv
         /\ \A c \in Calls : NewestInv(c) /\ LeftInv(c)
AttachSpec == AttachInit /\ [][AttachNext]_attachVars
-----------------------------------------------------------------------------
SameToken(r, q) ==
    /\ r.kind = q.kind /\ r.proc = q.proc /\ r.version = q.version /\ r.period = q.period
    /\ (q.outdated => r.outdated) /\ (q.repeated => r.repeated)

\* What does not change when the record of c becomes r and no token is taken.
Framed(c, r) ==
    /\ att' \in [Calls -> CallRecord]
    /\ att'[c] = r /\ \A d \in Calls \ {c} : att'[d] = att[d]
    /\ \A d \in Calls : Current(d)' = Current(d) /\ Newest(d)' = Newest(d)
    /\ ExitsInv'
    /\ \A d, e \in Calls :
         /\ att'[d].version > 0 /\ att'[d].version = att'[e].version
         /\ att'[d].period = att'[e].period
         => d = e
    /\ Undisturbed' => Undisturbed
    /\ Undisturbed => TokensInv'

LEMMA AttachFrame ==
    ASSUME AttachInv, NEW c \in Calls, NEW r \in CallRecord, att' = [att EXCEPT ![c] = r],
           SameToken(r, att[c]), UNCHANGED <<procs, alive, versions, periods>>,
           att[c].at # "none", r.at \notin {"none", "told"}, att[c].at = "told" => r.kind # "stopped"
    PROVE  Framed(c, r)
  <1>0. att \in [Calls -> CallRecord] /\ att' \in [Calls -> CallRecord]
    BY Zenon DEF AttachInv, AttachTypeOK
  <1>1. att'[c] = r /\ \A d \in Calls \ {c} : att'[d] = att[d]
    BY <1>0, Zenon
  <1>2. \A d \in Calls : /\ att'[d].kind = att[d].kind /\ att'[d].proc = att[d].proc
                         /\ att'[d].version = att[d].version /\ att'[d].period = att[d].period
                         /\ (att[d].outdated => att'[d].outdated)
    BY <1>1, Zenon DEF SameToken
  <1>3. \A d \in Calls : Current(d)' = Current(d) /\ Newest(d)' = Newest(d)
    BY <1>2, Zenon DEF Current, Newest
  <1>4. ExitsInv'
    BY <1>1, <1>2 DEF AttachInv, ExitsInv
  <1>5. \A d, e \in Calls :
          /\ att'[d].version > 0 /\ att'[d].version = att'[e].version
          /\ att'[d].period = att'[e].period
          => d = e
    BY <1>2 DEF AttachInv, OperationsInv
  <1>6. Undisturbed' => Undisturbed
    BY <1>2, Zenon DEF Undisturbed
  <1>7. Undisturbed => TokensInv'
    BY <1>1, <1>2 DEF AttachInv, TokensInv
  <1> QED
    BY <1>0, <1>1, <1>3, <1>4, <1>5, <1>6, <1>7, Zenon DEF Framed

\* A step before Execute that neither finds nor touches an attachment.
LEMMA AttachQuiet ==
    ASSUME AttachInv, NEW c \in Calls, NEW r \in CallRecord, att' = [att EXCEPT ![c] = r],
           SameToken(r, att[c]), UNCHANGED <<procs, alive, coordVars, procAttachments, opened>>,
           att[c].at \in {"told", "start", "check", "load", "scan"},
           r.at \in {"start", "scan", "execute", "end"},
           att[c].at = "told" => r.kind # "stopped", r.n = 1, r.repeated = att[c].repeated,
           r.held \in {att[c].held, NoneA}, r.err => r.at = "end",
           r.at = "end" => r.err \/ r.version = 0,
           r.kind = "stopped" => procAttachments = NoneA /\ r.at = "end",
           r.at = "start" => r.version = 0 /\ r.period = 0 /\ ~r.outdated,
           r.at \in {"scan", "execute"} => r.version > 0
    PROVE  AttachInv'
  <1>1. Framed(c, r) /\ UNCHANGED <<procs, alive, versions, inflight, cancelled, finished, periods>>
    BY AttachFrame, Zenon DEF coordVars
  <1>2. /\ AttachTypeOK /\ ProgressInv(c) /\ StoredInv(c) /\ c \notin opened /\ procAttachments # c
        /\ \A d \in Calls : att[d].held # c
        /\ \A d \in Calls : ProgressInv(d) /\ StoredInv(d)
    BY Zenon DEF AttachInv, StoredInv, InExecute
  <1>3. \A d \in Calls : ProgressInv(d)'
    BY <1>1, <1>2 DEF ProgressInv, Framed, SameToken, Early, Before, InExecute
  <1>4. \A d \in Calls : StoredInv(d)'
    BY <1>1, <1>2, AttachAssumption DEF StoredInv, Framed, Early, Before, InExecute
  <1>5. OperationsInv'
    <2>1. att[c].n = 1
      BY <1>2, Zenon DEF ProgressInv, Early, Before
    <2> QED
      BY <1>1, <2>1 DEF AttachInv, OperationsInv, Framed, InExecute
  <1>6. ASSUME Undisturbed PROVE FlightInv'
    <2>1. \A d \in Calls : att'[d].at \in AtRun \cup {"cancel", "wait"} => d # c /\ att'[d] = att[d]
      BY <1>1, Zenon DEF Framed, AtRun
    <2> QED
      BY <1>1, <1>6, <2>1, Zenon DEF AttachInv, FlightInv, Framed, Op
  <1>7. ASSUME Undisturbed, NEW d \in Calls PROVE NewestInv(d)'
    <2>1. NewestInv(d)
      BY <1>7, Zenon DEF AttachInv
    <2>2. CASE d = c
      BY <1>1, <1>2, <2>1, <2>2, AttachAssumption DEF NewestInv, Newest, Framed, Begun
    <2>3. CASE d # c
      BY <1>1, <2>1, <2>3, AttachAssumption DEF NewestInv, Framed, Begun, AtRun
    <2> QED
      BY <2>2, <2>3, Zenon
  <1>8. ASSUME Undisturbed, NEW d \in Calls PROVE LeftInv(d)'
    <2>1. LeftInv(d)
      BY <1>8, Zenon DEF AttachInv
    <2>2. CASE d = c
      BY <1>1, <1>2, <2>2, Zenon DEF LeftInv
    <2>3. CASE d # c
      <3>1. Good(d)' = Good(d) /\ (Single(d)' => Single(d))
        BY <1>1, <2>3, Zenon DEF Good, Single, Framed
      <3> QED
        BY <1>1, <2>1, <2>3, <3>1, AttachAssumption DEF LeftInv, Framed
    <2> QED
      BY <2>2, <2>3, Zenon
  <1> QED
    BY <1>1, <1>2, <1>3, <1>4, <1>5, <1>6, <1>7, <1>8, Zenon DEF AttachInv, AttachTypeOK, Framed

LEMMA AttachBefore ==
    ASSUME AttachInv, NEW c \in Calls,
           Notify(c) \/ Check(c) \/ Scan(c) \/ (LoadAttachment(c) /\ procAttachments = NoneA)
    PROVE  AttachInv'
  <1>0. att \in [Calls -> CallRecord] /\ att[c] \in CallRecord /\ ProgressInv(c)
    BY Zenon DEF AttachInv, AttachTypeOK
  <1>1. UNCHANGED <<procs, alive, coordVars, procAttachments, opened>>
    BY Zenon DEF Notify, Check, Scan, LoadAttachment
  <1>2. ASSUME NEW a \in {"start", "scan", "execute"}, GotoA(c, a),
               att[c].at \in {"told", "check", "scan"}, att[c].kind # "stopped",
               (a = "start") = (att[c].at = "told")
        PROVE  AttachInv'
    <2> DEFINE r == [att[c] EXCEPT !.at = a]
    <2>1. att' = [att EXCEPT ![c] = r]
      BY <1>0, <1>2, Zenon DEF GotoA
    <2>2. /\ r \in CallRecord /\ SameToken(r, att[c]) /\ r.at = a /\ r.n = att[c].n
          /\ r.repeated = att[c].repeated /\ r.held = att[c].held /\ r.err = att[c].err
          /\ r.kind = att[c].kind /\ r.version = att[c].version /\ r.period = att[c].period
          /\ r.outdated = att[c].outdated
      BY <1>0, <1>2, Zenon DEF CallRecord, SameToken, Early, Before, InExecute
    <2> HIDE DEF r
    <2>3. /\ r.n = 1 /\ ~r.err
          /\ r.at = "start" => r.version = 0 /\ r.period = 0 /\ ~r.outdated
          /\ r.at \in {"scan", "execute"} => r.version > 0
      BY <1>0, <1>2, <2>2, Zenon DEF ProgressInv, Early, Before, InExecute
    <2> QED
      BY <1>1, <1>2, <2>1, <2>2, <2>3, AttachQuiet, Zenon
  <1>3. ASSUME NEW r \in CallRecord, att' = [att EXCEPT ![c] = r], SameToken(r, att[c]), r.at = "end",
               r.n = att[c].n, r.repeated = att[c].repeated, r.held = att[c].held,
               att[c].at \in {"told", "check", "scan"}, att[c].kind # "stopped",
               r.err \/ att[c].at = "told"
        PROVE  AttachInv'
    <2>1. r.n = 1 /\ (r.err \/ r.version = 0) /\ r.kind # "stopped"
      BY <1>0, <1>3, Zenon DEF ProgressInv, SameToken, Early, Before
    <2> QED
      BY <1>1, <1>3, <2>1, AttachQuiet, Zenon
  <1> DEFINE o == ~Current(c)
  <1>9. o \in BOOLEAN
    BY Zenon DEF Current
  <1>4. CASE Notify(c)
    <2>1. CASE Exited(c)
      <3> DEFINE r == [att[c] EXCEPT !.at = "end", !.overtaken = o]
      <3>1. att' = [att EXCEPT ![c] = r]
        BY <1>0, <1>4, <2>1, Zenon DEF Notify, EndA
      <3> HIDE DEF o
      <3>2. /\ r \in CallRecord /\ SameToken(r, att[c]) /\ r.at = "end"
            /\ r.n = att[c].n /\ r.repeated = att[c].repeated /\ r.held = att[c].held
        BY <1>0, <1>9, Zenon DEF CallRecord, SameToken
      <3> HIDE DEF r
      <3> QED
        BY <1>3, <1>4, <3>1, <3>2, Zenon DEF Notify
    <2>2. CASE ~Exited(c)
      BY <1>2, <1>4, <2>2, Zenon DEF Notify
    <2> QED
      BY <2>1, <2>2, Zenon
  <1>5. CASE Check(c) \/ Scan(c)
    <2>1. att[c].kind # "stopped" /\ att[c].at \in {"check", "scan"}
      BY <1>0, <1>5, Zenon DEF Check, Scan, ProgressInv
    <2>2. CASE GotoA(c, "scan") \/ GotoA(c, "execute")
      BY <1>2, <2>1, <2>2, Zenon
    <2>3. CASE att' = [att EXCEPT ![c].at = "end", ![c].err = TRUE, ![c].overtaken = ~Current(c)]
      <3> DEFINE r == [att[c] EXCEPT !.at = "end", !.err = TRUE, !.overtaken = o]
      <3>1. att' = [att EXCEPT ![c] = r]
        BY <1>0, <2>3, Zenon
      <3> HIDE DEF o
      <3>2. /\ r \in CallRecord /\ SameToken(r, att[c]) /\ r.at = "end" /\ r.err
            /\ r.n = att[c].n /\ r.repeated = att[c].repeated /\ r.held = att[c].held
        BY <1>0, <1>9, Zenon DEF CallRecord, SameToken
      <3> HIDE DEF r
      <3> QED
        BY <1>3, <2>1, <3>1, <3>2, Zenon
    <2> QED
      BY <1>5, <2>2, <2>3, Zenon DEF Check, Scan
  <1>6. CASE LoadAttachment(c) /\ procAttachments = NoneA
    <2> DEFINE late == att[c].outdated \/ (procAttachments # NoneA /\ ~Current(c))
               r == [att[c] EXCEPT !.held = procAttachments,
                                   !.outdated = late,
                                   !.at = AfterDetach(c)]
    <2>1. att' = [att EXCEPT ![c] = r] /\ att[c].at = "load"
      BY <1>0, <1>6, Zenon DEF LoadAttachment
    <2>4. late = att[c].outdated
      BY <1>0, <1>6, Zenon DEF CallRecord
    <2> HIDE DEF late
    <2>2. /\ r \in CallRecord /\ SameToken(r, att[c]) /\ r.at = AfterDetach(c) /\ r.n = att[c].n
          /\ r.repeated = att[c].repeated /\ r.held = NoneA /\ r.err = att[c].err
          /\ r.kind = att[c].kind /\ r.version = att[c].version
      BY <1>0, <1>6, <2>4, ZenonT(30) DEF CallRecord, SameToken, AfterDetach, Before
    <2> HIDE DEF r
    <2>3. r.n = 1 /\ ~r.err /\ (r.at = "end" => r.kind = "stopped") /\ (r.kind = "stopped" => r.version = 0 /\ r.at = "end")
          /\ (r.at = "scan" => r.version > 0) /\ r.at \in {"scan", "end"}
      BY <1>0, <2>1, <2>2, Zenon DEF ProgressInv, Before, AfterDetach
    <2> QED
      BY <1>1, <1>6, <2>1, <2>2, <2>3, AttachQuiet, Zenon
  <1> QED
    BY <1>4, <1>5, <1>6, Zenon

\* A step before Execute leaves the operations alone.
LEMMA AttachOutside ==
    ASSUME AttachInv, NEW c \in Calls, NEW r \in CallRecord, Framed(c, r), UNCHANGED coordVars,
           att[c].at \in Before, r.at \in Before \cup {"end"}, r.n = 1
    PROVE  OperationsInv' /\ (Undisturbed => FlightInv')
  <1>1. att[c].n = 1 /\ UNCHANGED <<inflight, cancelled, finished, periods, versions>>
    BY Zenon DEF AttachInv, ProgressInv, coordVars
  <1>2. OperationsInv'
    BY <1>1 DEF AttachInv, OperationsInv, Framed, Before, InExecute
  <1>3. ASSUME Undisturbed PROVE FlightInv'
    <2>1. \A d \in Calls : att'[d].at \in AtRun \cup {"cancel", "wait"} => d # c /\ att'[d] = att[d]
      BY Zenon DEF Framed, AtRun, Before
    <2> QED
      BY <1>1, <1>3, <2>1, Zenon DEF AttachInv, FlightInv, Framed, Op
  <1> QED
    BY <1>2, <1>3, Zenon

\* Of a call that is current and one that has the newest token, both are one.
LEMMA NewestIsOne ==
    ASSUME AttachInv, NEW c \in Calls, NEW d \in Calls, Current(c), Newest(d)
    PROVE  c = d
  BY Zenon DEF AttachInv, OperationsInv, Current, Newest

LEMMA AttachLoad ==
    ASSUME AttachInv, NEW c \in Calls, LoadAttachment(c), procAttachments # NoneA
    PROVE  AttachInv'
  <1> DEFINE x == procAttachments
             late == att[c].outdated \/ (procAttachments # NoneA /\ ~Current(c))
             r == [att[c] EXCEPT !.held = x, !.outdated = late, !.at = "detach"]
  <1>0. /\ AttachTypeOK /\ att \in [Calls -> CallRecord] /\ att[c] \in CallRecord /\ x \in Calls
        /\ \A d \in Calls : ProgressInv(d) /\ StoredInv(d)
    BY Zenon DEF AttachInv, AttachTypeOK
  <1>1. /\ att' = [att EXCEPT ![c] = r] /\ att[c].at = "load"
        /\ UNCHANGED <<procs, alive, coordVars, procAttachments, opened>>
    BY <1>0, Zenon DEF LoadAttachment
  <1>2. late \in BOOLEAN /\ (att[c].outdated => late) /\ (~late => Current(c))
    BY <1>0, Zenon DEF CallRecord, Current
  <1> HIDE DEF late
  <1>3. /\ r \in CallRecord /\ SameToken(r, att[c]) /\ r.at = "detach" /\ r.n = att[c].n
        /\ r.repeated = att[c].repeated /\ r.held = x /\ r.err = att[c].err
        /\ r.kind = att[c].kind /\ r.version = att[c].version /\ r.period = att[c].period
        /\ r.outdated = late
    BY <1>0, <1>2, Zenon DEF CallRecord, SameToken, Before
  <1> HIDE DEF r
  <1>4. Framed(c, r) /\ UNCHANGED <<procs, alive, versions, inflight, cancelled, finished, periods>>
    BY <1>1, <1>3, AttachFrame, Zenon DEF coordVars
  <1>5. r.n = 1 /\ ~r.err /\ c \notin opened /\ x # c /\ ~att[c].err
    BY <1>0, <1>1, <1>3, Zenon DEF ProgressInv, StoredInv, Before, InExecute
  <1>6. \A d \in Calls : ProgressInv(d)'
    BY <1>0, <1>1, <1>3, <1>4, <1>5 DEF ProgressInv, Framed, Early, Before, InExecute
  <1>7. \A d \in Calls : StoredInv(d)'
    BY <1>0, <1>1, <1>3, <1>4 DEF StoredInv, Framed, InExecute
  <1>8. OperationsInv' /\ (Undisturbed => FlightInv')
    BY <1>1, <1>3, <1>4, <1>5, AttachOutside, Zenon DEF Before
  <1>9. ASSUME Undisturbed', NEW d \in Calls PROVE NewestInv(d)'
    <2>1. Undisturbed /\ NewestInv(d) /\ Current(c)
      BY <1>2, <1>3, <1>4, <1>9, Zenon DEF AttachInv, Framed, Undisturbed
    <2>2. x = d => ~Newest(d)
      BY <1>5, <2>1, NewestIsOne, Zenon
    <2>3. CASE d = c
      BY <1>1, <1>3, <1>4, <1>5, <2>1, <2>3, Zenon DEF NewestInv, Framed, Begun
    <2>4. CASE d # c
      BY <1>1, <1>3, <1>4, <2>1, <2>2, <2>4, Zenon DEF NewestInv, Framed, Begun, AtRun
    <2> QED
      BY <2>3, <2>4, Zenon
  <1>10. ASSUME Undisturbed, NEW d \in Calls PROVE LeftInv(d)'
    <2>1. LeftInv(d)
      BY <1>10, Zenon DEF AttachInv
    <2>2. CASE d = c
      BY <1>1, <1>5, <2>2, Zenon DEF LeftInv
    <2>3. CASE d # c
      <3>1. Good(d)' = Good(d) /\ (Single(d)' => Single(d))
        BY <1>3, <1>4, <2>3, Zenon DEF Good, Single, Framed
      <3> QED
        BY <1>1, <1>3, <1>4, <2>1, <2>3, <3>1, Zenon DEF LeftInv, Framed
    <2> QED
      BY <2>2, <2>3, Zenon
  <1> QED
    BY <1>0, <1>1, <1>4, <1>6, <1>7, <1>8, <1>9, <1>10, Zenon DEF AttachInv, AttachTypeOK, Framed

LEMMA AttachClose ==
    ASSUME AttachInv, NEW c \in Calls, CloseAttachment(c)
    PROVE  AttachInv'
  <1>0. /\ AttachTypeOK /\ att \in [Calls -> CallRecord] /\ att[c] \in CallRecord
        /\ \A d \in Calls : ProgressInv(d) /\ StoredInv(d)
    BY Zenon DEF AttachInv, AttachTypeOK
  <1>1. /\ att[c].at = "detach" /\ opened' = opened \ {att[c].held}
        /\ UNCHANGED <<procs, alive, coordVars, procAttachments>>
    BY Zenon DEF CloseAttachment
  <1>2. PICK r \in CallRecord : /\ att' = [att EXCEPT ![c] = r] /\ SameToken(r, att[c])
                                /\ r.n = att[c].n /\ r.repeated = att[c].repeated /\ r.held = att[c].held
                                /\ \/ r.at = "delete" /\ r.err = att[c].err
                                   \/ r.at = "end" /\ r.err
    <2>1. CASE GotoA(c, "delete")
      <3> DEFINE r == [att[c] EXCEPT !.at = "delete"]
      <3>1. att' = [att EXCEPT ![c] = r]
        BY <1>0, <2>1, Zenon DEF GotoA
      <3>2. /\ r \in CallRecord /\ SameToken(r, att[c]) /\ r.at = "delete" /\ r.err = att[c].err
            /\ r.n = att[c].n /\ r.repeated = att[c].repeated /\ r.held = att[c].held
        BY <1>0, Zenon DEF CallRecord, SameToken, Before
      <3> HIDE DEF r
      <3> QED
        BY <3>1, <3>2, Zenon
    <2>2. CASE att' = [att EXCEPT ![c].at = "end", ![c].err = TRUE, ![c].overtaken = ~Current(c)]
      <3> DEFINE o == ~Current(c)
                 r == [att[c] EXCEPT !.at = "end", !.err = TRUE, !.overtaken = o]
      <3>1. att' = [att EXCEPT ![c] = r] /\ o \in BOOLEAN
        BY <1>0, <2>2, Zenon DEF Current
      <3> HIDE DEF o
      <3>2. /\ r \in CallRecord /\ SameToken(r, att[c]) /\ r.at = "end" /\ r.err
            /\ r.n = att[c].n /\ r.repeated = att[c].repeated /\ r.held = att[c].held
        BY <1>0, <3>1, Zenon DEF CallRecord, SameToken
      <3> HIDE DEF r
      <3> QED
        BY <3>1, <3>2, Zenon
    <2> QED
      BY <2>1, <2>2, Zenon DEF CloseAttachment
  <1>4. Framed(c, r) /\ UNCHANGED <<procs, alive, versions, inflight, cancelled, finished, periods>>
    BY <1>1, <1>2, AttachFrame, Zenon DEF coordVars
  <1>5. r.n = 1 /\ c \notin opened /\ procAttachments # c /\ ~att[c].err
    BY <1>0, <1>1, <1>2, Zenon DEF ProgressInv, StoredInv, Before, InExecute
  <1>6. \A d \in Calls : ProgressInv(d)'
    BY <1>0, <1>1, <1>2, <1>4, <1>5 DEF ProgressInv, Framed, SameToken, Early, Before, InExecute
  <1>7. \A d \in Calls : StoredInv(d)'
    BY <1>0, <1>1, <1>2, <1>4, <1>5 DEF StoredInv, Framed, SameToken, InExecute
  <1>8. OperationsInv' /\ (Undisturbed => FlightInv')
    BY <1>1, <1>2, <1>4, <1>5, AttachOutside, Zenon DEF Before
  <1>9. ASSUME Undisturbed, NEW d \in Calls PROVE NewestInv(d)'
    <2>1. NewestInv(d)
      BY <1>9, Zenon DEF AttachInv
    <2>3. CASE d = c
      BY <1>1, <1>2, <1>4, <1>5, <2>1, <2>3, Zenon DEF NewestInv, Framed, Begun
    <2>4. CASE d # c
      BY <1>1, <1>2, <1>4, <2>1, <2>4 DEF NewestInv, Framed, Begun, AtRun
    <2> QED
      BY <2>3, <2>4, Zenon
  <1>10. ASSUME Undisturbed, NEW d \in Calls PROVE LeftInv(d)'
    <2>1. LeftInv(d)
      BY <1>10, Zenon DEF AttachInv
    <2>2. CASE d = c
      BY <1>1, <1>5, <2>2, Zenon DEF LeftInv
    <2>3. CASE d # c
      <3>1. Good(d)' = Good(d) /\ (Single(d)' => Single(d))
        BY <1>2, <1>4, <2>3, Zenon DEF Good, Single, Framed
      <3> QED
        BY <1>1, <1>2, <1>4, <2>1, <2>3, <3>1 DEF LeftInv, Framed, SameToken
    <2> QED
      BY <2>2, <2>3, Zenon
  <1> QED
    BY <1>0, <1>1, <1>4, <1>6, <1>7, <1>8, <1>9, <1>10, Zenon DEF AttachInv, AttachTypeOK, Framed

LEMMA AttachDelete ==
    ASSUME AttachInv, NEW c \in Calls, DeleteAttachment(c)
    PROVE  AttachInv'
  <1> DEFINE late == att[c].outdated \/ ~Current(c)
             r == [att[c] EXCEPT !.outdated = late, !.at = AfterDetach(c)]
  <1>0. /\ AttachTypeOK /\ att \in [Calls -> CallRecord] /\ att[c] \in CallRecord
        /\ \A d \in Calls : ProgressInv(d) /\ StoredInv(d)
    BY Zenon DEF AttachInv, AttachTypeOK
  <1>1. /\ att[c].at = "delete" /\ procAttachments' = NoneA /\ att' = [att EXCEPT ![c] = r]
        /\ UNCHANGED <<procs, alive, coordVars, opened>>
    BY <1>0, Zenon DEF DeleteAttachment
  <1>2. late \in BOOLEAN /\ (att[c].outdated => late) /\ (~late => Current(c))
    BY <1>0, Zenon DEF CallRecord, Current
  <1> HIDE DEF late
  <1>3. /\ r \in CallRecord /\ SameToken(r, att[c]) /\ r.at = AfterDetach(c) /\ r.n = att[c].n
        /\ r.repeated = att[c].repeated /\ r.held = att[c].held /\ r.err = att[c].err
        /\ r.outdated = late /\ r.at \in {"scan", "end"}
    BY <1>0, <1>2, Zenon DEF CallRecord, SameToken, Before, AfterDetach
  <1> HIDE DEF r
  <1>4. Framed(c, r) /\ UNCHANGED <<procs, alive, versions, inflight, cancelled, finished, periods>>
    BY <1>1, <1>3, AttachFrame, Zenon DEF coordVars
  <1>5. /\ r.n = 1 /\ c \notin opened /\ procAttachments # c /\ ~att[c].err
        /\ r.at = "end" => att[c].kind = "stopped" /\ ~Newest(c)
        /\ r.at = "scan" => att[c].kind # "stopped"
    BY <1>0, <1>1, <1>3 DEF ProgressInv, StoredInv, Before, InExecute, AfterDetach, Newest
  <1>6. \A d \in Calls : ProgressInv(d)'
    BY <1>0, <1>1, <1>3, <1>4, <1>5 DEF ProgressInv, Framed, SameToken, Early, Before, InExecute
  <1>7. \A d \in Calls : StoredInv(d)'
    BY <1>0, <1>1, <1>3, <1>4, <1>5, AttachAssumption DEF StoredInv, Framed, SameToken, InExecute
  <1>8. OperationsInv' /\ (Undisturbed => FlightInv')
    BY <1>1, <1>3, <1>4, <1>5, AttachOutside, Zenon DEF Before
  <1>9. ASSUME Undisturbed', NEW d \in Calls PROVE NewestInv(d)'
    <2>1. Undisturbed /\ NewestInv(d) /\ Current(c)
      BY <1>2, <1>3, <1>4, <1>9, Zenon DEF AttachInv, Framed, Undisturbed
    <2>2. CASE d = c
      BY <1>1, <1>3, <1>4, <1>5, <2>1, <2>2, Zenon DEF NewestInv, Framed, Begun
    <2>3. CASE d # c
      BY <1>4, <2>1, <2>3, NewestIsOne, Zenon DEF NewestInv, Framed
    <2> QED
      BY <2>2, <2>3, Zenon
  <1>10. ASSUME Undisturbed', NEW d \in Calls PROVE LeftInv(d)'
    <2>1. Undisturbed /\ LeftInv(d) /\ Current(c)
      BY <1>2, <1>3, <1>4, <1>10, Zenon DEF AttachInv, Framed, Undisturbed
    <2>2. CASE d = c
      BY <1>1, <1>5, <2>2, AttachAssumption, Zenon DEF LeftInv
    <2>3. CASE d # c
      <3>1. Good(d)' = Good(d) /\ (Single(d)' => Single(d))
        BY <1>3, <1>4, <2>3, Zenon DEF Good, Single, Framed
      <3>2. Good(d) /\ att[d].at = "end" /\ d \in opened => ~Single(d)
        BY <1>0, <1>1, <2>1, Zenon DEF LeftInv, StoredInv
      <3> QED
        BY <1>1, <1>4, <2>3, <3>1, <3>2, AttachAssumption, Zenon DEF LeftInv, Framed
    <2> QED
      BY <2>2, <2>3, Zenon
  <1> QED
    BY <1>0, <1>1, <1>4, <1>6, <1>7, <1>8, <1>9, <1>10, Zenon DEF AttachInv, AttachTypeOK, Framed
-----------------------------------------------------------------------------
\* A token that is not valid: the call goes on to the next Execute or ends.
LEMMA AttachSkip ==
    ASSUME AttachInv, NEW c \in Calls, att[c].at \in {"execute", "wait"}, ~Valid(c), Skip(c),
           UNCHANGED <<procs, alive, versions, cancelled, finished, periods, procAttachments, opened>>
    PROVE  AttachInv'
  <1>0. /\ AttachTypeOK /\ att \in [Calls -> CallRecord] /\ att[c] \in CallRecord
        /\ \A d \in Calls : ProgressInv(d) /\ StoredInv(d)
    BY Zenon DEF AttachInv, AttachTypeOK
  <1>1. ~Current(c) /\ ~Newest(c) /\ inflight' = inflight
    BY Zenon DEF Valid, Current, Newest, Skip
  <1>2. PICK r \in CallRecord : /\ att' = [att EXCEPT ![c] = r] /\ SameToken(r, att[c]) /\ r.n = 2
                                /\ r.repeated = att[c].repeated /\ r.held = att[c].held
                                /\ r.err = att[c].err /\ r.waits = att[c].waits
                                /\ \/ r.at = "execute"
                                   \/ r.at = "end" /\ r.overtaken
    <2>1. CASE att[c].n = 1
      <3> DEFINE r == [att[c] EXCEPT !.n = 2, !.at = "execute"]
      <3>1. att' = [att EXCEPT ![c] = r]
        BY <1>0, <2>1, Zenon DEF Skip
      <3>2. /\ r \in CallRecord /\ SameToken(r, att[c]) /\ r.n = 2 /\ r.repeated = att[c].repeated
            /\ r.held = att[c].held /\ r.err = att[c].err /\ r.waits = att[c].waits /\ r.at = "execute"
        BY <1>0, Zenon DEF CallRecord, SameToken, InExecute
      <3> HIDE DEF r
      <3> QED
        BY <3>1, <3>2, Zenon
    <2>2. CASE att[c].n = 2
      <3> DEFINE o == ~Current(c)
                 r == [att[c] EXCEPT !.at = "end", !.overtaken = o]
      <3>4. EndA(c)
        BY <2>2 DEF Skip
      <3>1. att' = [att EXCEPT ![c] = r]
        BY <1>0, <3>4, Zenon DEF EndA
      <3>2. o = TRUE
        BY <1>1, Zenon
      <3> HIDE DEF o
      <3>3. /\ r \in CallRecord /\ SameToken(r, att[c]) /\ r.n = 2 /\ r.repeated = att[c].repeated
            /\ r.held = att[c].held /\ r.err = att[c].err /\ r.waits = att[c].waits
            /\ r.at = "end" /\ r.overtaken
        BY <1>0, <2>2, <3>2, Zenon DEF CallRecord, SameToken
      <3> HIDE DEF r
      <3> QED
        BY <3>1, <3>3, Zenon
    <2> QED
      BY <1>0, <2>1, <2>2, Zenon DEF CallRecord
  <1>3. Framed(c, r)
    BY <1>0, <1>2, AttachFrame, Zenon DEF CallRecord
  <1>4. \A d \in Calls : ProgressInv(d)'
    BY <1>0, <1>2, <1>3 DEF ProgressInv, Framed, SameToken, Early, Before, InExecute
  <1>5. \A d \in Calls : StoredInv(d)'
    BY <1>0, <1>2, <1>3 DEF StoredInv, Framed, SameToken, InExecute
  <1>6. OperationsInv'
    BY <1>0, <1>1, <1>2, <1>3 DEF AttachInv, OperationsInv, Framed, CallRecord, InExecute
  <1>7. ASSUME Undisturbed PROVE FlightInv'
    <2>1. \A d \in Calls : att'[d].at \in AtRun \cup {"cancel", "wait"} => d # c /\ att'[d] = att[d]
      BY <1>2, <1>3, Zenon DEF Framed, AtRun
    <2> QED
      BY <1>1, <1>3, <1>7, <2>1, Zenon DEF AttachInv, FlightInv, Framed, Op
  <1>8. ASSUME Undisturbed, NEW d \in Calls PROVE NewestInv(d)'
    <2>1. NewestInv(d)
      BY <1>8, Zenon DEF AttachInv
    <2>2. CASE d = c
      BY <1>1, <1>3, <2>2, Zenon DEF NewestInv, Framed
    <2>3. CASE d # c
      BY <1>1, <1>2, <1>3, <2>1, <2>3 DEF NewestInv, Framed, Begun, AtRun
    <2> QED
      BY <2>2, <2>3, Zenon
  <1>9. ASSUME Undisturbed, NEW d \in Calls PROVE LeftInv(d)'
    <2>1. LeftInv(d)
      BY <1>9, Zenon DEF AttachInv
    <2>2. CASE d = c
      BY <1>1, <1>2, <1>3, <2>2, Zenon DEF LeftInv, Good, Framed
    <2>3. CASE d # c
      <3>1. Good(d)' = Good(d) /\ (Single(d)' => Single(d))
        BY <1>2, <1>3, <2>3, Zenon DEF Good, Single, Framed
      <3>2. att[c].kind # "stopped"
        BY <1>0, Zenon DEF ProgressInv, InExecute
      <3> QED
        BY <1>2, <1>3, <2>1, <2>3, <3>1, <3>2, Zenon DEF LeftInv, Framed, SameToken
    <2> QED
      BY <2>2, <2>3, Zenon
  <1> QED
    BY <1>0, <1>1, <1>3, <1>4, <1>5, <1>6, <1>7, <1>8, <1>9, Zenon DEF AttachInv, AttachTypeOK, Framed

\* What calls leave open is not concerned by a step within Execute.
LEMMA AttachLeft ==
    ASSUME AttachInv, NEW c \in Calls, NEW r \in CallRecord, Framed(c, r), SameToken(r, att[c]),
           att[c].at \in InExecute, r.at \in InExecute, r.repeated = att[c].repeated,
           procAttachments' = procAttachments, opened' \subseteq opened \cup {c},
           Undisturbed, NEW d \in Calls
    PROVE  LeftInv(d)'
  <1>1. LeftInv(d) /\ ProgressInv(c)
    BY Zenon DEF AttachInv
  <1>2. att[c].kind # "stopped"
    BY <1>1, Zenon DEF ProgressInv
  <1>3. Good(d)' = Good(d) /\ (Single(d)' => Single(d))
    BY Zenon DEF Good, Single, Framed, InExecute, SameToken
  <1> QED
    BY <1>1, <1>2, <1>3 DEF LeftInv, Framed, SameToken, InExecute

LEMMA AttachBegin ==
    ASSUME AttachInv, NEW c \in Calls, att[c].at \in {"execute", "wait"}, Valid(c), Begin(c),
           UNCHANGED <<procs, alive, versions, cancelled, finished, periods, procAttachments, opened>>,
           Undisturbed /\ Newest(c) =>
             \A d \in Calls : ~(att[d].at \in AtRun /\ att[d].period = periods)
    PROVE  AttachInv'
  <1> DEFINE late == att[c].outdated \/ att[c].period # periods
             r == [att[c] EXCEPT !.at = "run", !.waits = NoneA, !.outdated = late]
  <1>0. /\ AttachTypeOK /\ att \in [Calls -> CallRecord] /\ att[c] \in CallRecord
        /\ \A d \in Calls : ProgressInv(d) /\ StoredInv(d)
    BY Zenon DEF AttachInv, AttachTypeOK
  <1>1. att' = [att EXCEPT ![c] = r] /\ inflight' = <<c, att[c].n>> /\ inflight' \in Ops
    <2>1. att' = [att EXCEPT ![c] = r] /\ inflight' = <<c, att[c].n>>
      BY <1>0, Zenon DEF Begin, Op
    <2> QED
      BY <1>0, <2>1, Zenon DEF Ops, CallRecord
  <1>2. late \in BOOLEAN /\ (att[c].outdated => late) /\ (~late => att[c].period = periods)
    BY <1>0, Zenon DEF CallRecord
  <1> HIDE DEF late
  <1>3. /\ r \in CallRecord /\ SameToken(r, att[c]) /\ r.at = "run" /\ r.n = att[c].n
        /\ r.repeated = att[c].repeated /\ r.held = att[c].held /\ r.err = att[c].err
        /\ r.outdated = late
    BY <1>0, <1>2, Zenon DEF CallRecord, SameToken, InExecute
  <1> HIDE DEF r
  <1>4. Framed(c, r)
    BY <1>1, <1>3, AttachFrame, Zenon
  <1>5. \A d \in Calls : ProgressInv(d)'
    BY <1>0, <1>3, <1>4 DEF ProgressInv, Framed, SameToken, Early, Before, InExecute
  <1>6. \A d \in Calls : StoredInv(d)'
    BY <1>0, <1>3, <1>4 DEF StoredInv, Framed, SameToken, InExecute
  <1>7. OperationsInv'
    BY <1>0, <1>1, <1>3, <1>4 DEF AttachInv, OperationsInv, Framed, CallRecord, InExecute
  <1>8. ASSUME Undisturbed'
        PROVE  /\ Undisturbed /\ Newest(c)
               /\ \A d \in Calls : ~(att[d].at \in AtRun /\ att[d].period = periods)
    <2>1. Undisturbed /\ att[c].period = periods
      BY <1>2, <1>3, <1>4, <1>8, Zenon DEF Undisturbed, Framed
    <2>2. Newest(c)
      BY <1>0, <2>1, Zenon DEF Newest, Current, Valid, ProgressInv, InExecute
    <2> QED
      BY <2>1, <2>2, Zenon
  <1>9. ASSUME Undisturbed' PROVE FlightInv'
    <2>1. FlightInv /\ Undisturbed
      BY <1>8, <1>9, Zenon DEF AttachInv
    <2>2. \A d \in Calls : att'[d].at \in AtRun /\ att'[d].period = periods => d = c
      BY <1>4, <1>8, <1>9, Zenon DEF Framed
    <2>3. \A d \in Calls : Newest(d) => d = c
      BY <1>8, <1>9, NewestIsOne, Zenon DEF Newest
    <2>4. att'[c].at = "run" /\ att'[c].period = periods /\ inflight' = Op(c)' /\ periods' = periods
      BY <1>1, <1>3, <1>4, <1>8, <1>9, Zenon DEF Framed, SameToken, Newest, Current, Op
    <2>5. \A d \in Calls : att'[d].at \in AtRun /\ att'[d].period = periods' => inflight' = Op(d)'
      BY <2>2, <2>4, Zenon DEF Op
    <2>6. \A d \in Calls : att'[d].at \in {"cancel", "wait"} => ~Newest(d)'
      BY <1>4, <2>3, <2>4, Zenon DEF Framed
    <2>7. \A d, e \in Calls :
            att'[d].at \in AtRun /\ att'[e].at \in AtRun /\ att'[d].period = att'[e].period => d = e
      BY <1>4, <2>1, <2>2, <2>4 DEF Framed, FlightInv
    <2> QED
      BY <2>5, <2>6, <2>7, Zenon DEF FlightInv
  <1>10. ASSUME Undisturbed', NEW d \in Calls PROVE NewestInv(d)'
    <2>1. NewestInv(d)
      BY <1>8, <1>10, Zenon DEF AttachInv
    <2>2. CASE d = c
      BY <1>3, <1>4, <1>8, <1>10, <2>1, <2>2 DEF NewestInv, Framed, Begun
    <2>3. CASE d # c
      BY <1>4, <1>8, <1>10, <2>3, NewestIsOne, Zenon DEF NewestInv, Framed, Newest
    <2> QED
      BY <2>2, <2>3, Zenon
  <1>11. ASSUME Undisturbed', NEW d \in Calls PROVE LeftInv(d)'
    BY <1>3, <1>4, <1>8, <1>11, AttachLeft, Zenon DEF InExecute
  <1> QED
    BY <1>0, <1>1, <1>4, <1>5, <1>6, <1>7, <1>8, <1>9, <1>10, <1>11, Zenon DEF AttachInv, AttachTypeOK, Framed

LEMMA AttachExecute ==
    ASSUME AttachInv, NEW c \in Calls, Execute(c)
    PROVE  AttachInv'
  <1>0. /\ AttachTypeOK /\ att \in [Calls -> CallRecord] /\ att[c] \in CallRecord
        /\ \A d \in Calls : ProgressInv(d) /\ StoredInv(d)
    BY Zenon DEF AttachInv, AttachTypeOK
  <1>1. /\ att[c].at = "execute"
        /\ UNCHANGED <<procs, alive, versions, cancelled, finished, periods, procAttachments, opened>>
    BY Zenon DEF Execute
  <1>2. CASE ~Valid(c)
    BY <1>1, <1>2, AttachSkip, Zenon DEF Execute
  <1>3. CASE Valid(c) /\ inflight = NoneA
    <2>1. Undisturbed => \A d \in Calls : ~(att[d].at \in AtRun /\ att[d].period = periods)
      <3>1. \A d \in Calls : Op(d) \in Calls \X {1, 2}
        BY <1>0, Zenon DEF AttachTypeOK, CallRecord, Op
      <3> QED
        BY <1>3, <3>1, AttachAssumption, Zenon DEF AttachInv, FlightInv
    <2> QED
      BY <1>1, <1>3, <2>1, AttachBegin, Zenon DEF Execute
  <1>4. CASE Valid(c) /\ inflight # NoneA
    <2> DEFINE late == att[c].outdated \/ att[c].period # periods
               r == [att[c] EXCEPT !.at = "cancel", !.waits = inflight, !.outdated = late]
    <2>1. att' = [att EXCEPT ![c] = r] /\ inflight' = inflight /\ inflight \in Ops
      <3>1. /\ att' = [att EXCEPT ![c].at = "cancel", ![c].waits = inflight,
                                ![c].outdated = @ \/ att[c].period # periods]
            /\ UNCHANGED inflight
        BY <1>4, Zenon DEF Execute
      <3>2. att' = [att EXCEPT ![c] = r]
        BY <1>0, <3>1, Zenon
      <3> QED
        BY <1>0, <1>4, <3>1, <3>2, Zenon DEF AttachTypeOK
    <2>2. late \in BOOLEAN /\ (att[c].outdated => late) /\ (~late => att[c].period = periods)
      BY <1>0, Zenon DEF CallRecord
    <2> HIDE DEF late
    <2>3. /\ r \in CallRecord /\ SameToken(r, att[c]) /\ r.at = "cancel" /\ r.n = att[c].n
          /\ r.repeated = att[c].repeated /\ r.held = att[c].held /\ r.err = att[c].err
          /\ r.outdated = late /\ r.waits = inflight
      BY <1>0, <2>1, <2>2, Zenon DEF CallRecord, SameToken, InExecute
    <2> HIDE DEF r
    <2>4. Framed(c, r)
      BY <1>1, <2>1, <2>3, AttachFrame, Zenon
    <2>5. \A d \in Calls : ProgressInv(d)'
      BY <1>0, <1>1, <2>1, <2>3, <2>4 DEF ProgressInv, Framed, SameToken, Early, Before, InExecute
    <2>6. \A d \in Calls : StoredInv(d)'
      BY <1>0, <1>1, <2>3, <2>4 DEF StoredInv, Framed, SameToken, InExecute
    <2>7. OperationsInv'
      BY <1>0, <1>1, <2>1, <2>3, <2>4 DEF AttachInv, OperationsInv, Framed, CallRecord, InExecute
    <2>8. ASSUME Undisturbed' PROVE Undisturbed /\ Newest(c)
      <3>1. Undisturbed /\ att[c].period = periods
        BY <2>2, <2>3, <2>4, <2>8, Zenon DEF Undisturbed, Framed
      <3> QED
        BY <1>0, <1>1, <1>4, <3>1, Zenon DEF Newest, Current, Valid, ProgressInv, InExecute
    <2>9. ASSUME Undisturbed' PROVE FlightInv'
      <3>1. FlightInv
        BY <2>8, <2>9, Zenon DEF AttachInv
      <3> QED
        BY <1>1, <2>1, <2>3, <2>4, <3>1, Zenon DEF FlightInv, Framed, Op, AtRun
    <2>10. ASSUME Undisturbed', NEW d \in Calls PROVE NewestInv(d)'
      <3>1. NewestInv(d) /\ Undisturbed /\ Newest(c)
        BY <2>8, <2>10, Zenon DEF AttachInv
      <3>2. CASE d = c
        <4>1. \A m \in {1, 2} : inflight # <<c, m>>
          BY <1>1, Zenon DEF AttachInv, OperationsInv
        <4> QED
          BY <1>1, <2>3, <2>4, <3>1, <3>2, <4>1 DEF NewestInv, Framed, Begun, AtRun
      <3>3. CASE d # c
        BY <2>4, <3>1, <3>3, NewestIsOne, Zenon DEF NewestInv, Framed, Newest
      <3> QED
        BY <3>2, <3>3, Zenon
    <2>11. ASSUME Undisturbed', NEW d \in Calls PROVE LeftInv(d)'
      BY <1>1, <2>3, <2>4, <2>8, <2>11, AttachLeft, Zenon DEF InExecute
    <2> QED
      BY <1>0, <1>1, <2>1, <2>4, <2>5, <2>6, <2>7, <2>8, <2>9, <2>10, <2>11, Zenon DEF AttachInv, AttachTypeOK, Framed
  <1> QED
    BY <1>2, <1>3, <1>4, Zenon

LEMMA AttachWake ==
    ASSUME AttachInv, NEW c \in Calls, Wake(c)
    PROVE  AttachInv'
  <1>1. /\ att[c].at = "wait" /\ att[c].waits \in finished
        /\ UNCHANGED <<procs, alive, versions, cancelled, finished, periods, procAttachments, opened>>
    BY Zenon DEF Wake
  <1>2. CASE ~Valid(c)
    BY <1>1, <1>2, AttachSkip, Zenon DEF Wake, Recheck
  <1>3. CASE Valid(c)
    <2>1. ASSUME Undisturbed, Newest(c), NEW d \in Calls, att[d].at \in AtRun, att[d].period = periods
          PROVE  FALSE
      <3>1. inflight = <<d, att[d].n>> /\ inflight \in {NoneA, att[c].waits}
        BY <1>1, <2>1, Zenon DEF AttachInv, FlightInv, Op
      <3>2. att[d].n \in {1, 2}
        BY Zenon DEF AttachInv, AttachTypeOK, CallRecord
      <3>3. <<d, att[d].n>> # NoneA
        BY <3>2, AttachAssumption
      <3>4. <<d, att[d].n>> \in finished
        BY <1>1, <3>1, <3>3, Zenon
      <3>5. \A m \in {1, 2} :
              <<d, m>> \in finished => m < att[d].n \/ att[d].at \in {"clear", "end"}
        BY Zenon DEF AttachInv, OperationsInv
      <3> QED
        BY <2>1, <3>2, <3>4, <3>5 DEF AtRun
    <2>2. Begin(c)
      BY <1>3, Zenon DEF Wake, Recheck
    <2> QED
      BY <1>1, <1>3, <2>1, <2>2, AttachBegin, Zenon
  <1> QED
    BY <1>2, <1>3, Zenon

\* A step of Cancel, Attach or Finish: the call stays within Execute with its token,
\* and Begin or Store is not taken.
LEMMA AttachWithin ==
    ASSUME AttachInv, NEW c \in Calls, NEW r \in CallRecord, att' = [att EXCEPT ![c] = r],
           SameToken(r, att[c]), r.n = att[c].n, r.repeated = att[c].repeated, r.held = att[c].held,
           r.outdated = att[c].outdated,
           UNCHANGED <<procs, alive, versions, inflight, periods, procAttachments>>,
           cancelled \subseteq cancelled', cancelled' \subseteq Ops,
           finished' \subseteq finished \cup {Op(c)}, opened' \subseteq opened \cup {c}, opened \subseteq opened',
           \/ /\ att[c].at = "cancel" /\ r.at = "wait" /\ r.waits = att[c].waits /\ r.err = att[c].err
              /\ cancelled' = cancelled \cup {att[c].waits} /\ UNCHANGED <<finished, opened>>
           \/ /\ att[c].at = "run" /\ att[c].n = 1 /\ r.at = "ran" /\ UNCHANGED <<cancelled, finished>>
              /\ (r.err = (c \notin opened'))
           \/ /\ att[c].at = "ran" /\ r.at = "clear" /\ r.err = att[c].err
              /\ UNCHANGED <<cancelled, opened>>
    PROVE  AttachInv'
  <1>0. /\ AttachTypeOK /\ att \in [Calls -> CallRecord] /\ att[c] \in CallRecord
        /\ \A d \in Calls : ProgressInv(d) /\ StoredInv(d)
    BY Zenon DEF AttachInv, AttachTypeOK
  <1>1. Framed(c, r)
    BY AttachFrame, Zenon
  <1>2. \A d \in Calls : ProgressInv(d)'
    <2>1. \A d \in Calls \ {c} : ProgressInv(d)'
      BY <1>0, <1>1 DEF ProgressInv, Framed
    <2>2. /\ att'[c].kind = att[c].kind /\ att'[c].version = att[c].version
          /\ att'[c].period = att[c].period /\ att'[c].n = att[c].n /\ att'[c].at = r.at
          /\ att'[c].repeated = att[c].repeated /\ att'[c].err = r.err
          /\ r.at \in {"wait", "ran", "clear"} /\ r.at = "wait" => att'[c].waits = att[c].waits
      BY <1>1, Zenon DEF Framed, SameToken
    <2>3. /\ r.err => r.at \in {"ran", "clear", "end"} /\ att[c].n = 1 /\ c \notin opened'
          /\ r.repeated => r.at \in {"ran", "clear", "end"} /\ att[c].n = 2
      BY <1>0, Zenon DEF ProgressInv, CallRecord
    <2>4. ProgressInv(c)'
      BY <1>0, <2>2, <2>3, ZenonT(30) DEF ProgressInv, Early, Before, InExecute
    <2> QED
      BY <2>1, <2>4, Zenon
  <1>3. \A d \in Calls : StoredInv(d)'
    <2>1. att[c].version > 0
      BY <1>0, Zenon DEF ProgressInv, InExecute
    <2>2. opened' = opened \/ \A d \in Calls : att[d].held # c
      BY <1>0, Zenon DEF StoredInv
    <2> QED
      BY <1>0, <1>1, <2>1, <2>2 DEF StoredInv, Framed, SameToken, InExecute
  <1>4. OperationsInv'
    <2>1. att[c].n \in {1, 2} /\ Op(c) = <<c, att[c].n>>
      BY <1>0, Zenon DEF CallRecord, Op
    <2> QED
      BY <1>0, <1>1, <2>1 DEF AttachInv, OperationsInv, Framed, InExecute
  <1>5. ASSUME Undisturbed PROVE FlightInv'
    <2>1. FlightInv
      BY <1>5, Zenon DEF AttachInv
    <2> QED
      BY <1>1, <2>1 DEF FlightInv, Framed, SameToken, Op, AtRun
  <1>6. ASSUME Undisturbed, NEW d \in Calls PROVE NewestInv(d)'
    <2>1. NewestInv(d)
      BY <1>6, Zenon DEF AttachInv
    <2>2. CASE d = c
      <3>1. att'[c].at = r.at /\ att'[c].n = att[c].n /\ att'[c].err = r.err
        BY <1>1, Zenon DEF Framed
      <3>2. Newest(c) => \A m \in {1, 2} : <<c, m>> \notin cancelled'
        BY <2>1, <2>2, Zenon DEF NewestInv
      <3>3. /\ \A e \in Calls : att'[e].held = att[e].held
            /\ \A e \in Calls : att'[e].at \in {"cancel", "wait"} =>
                 att[e].at \in {"cancel", "wait"} /\ att'[e].waits = att[e].waits
            /\ \A e \in Calls \ {c} : att'[e] = att[e]
        BY <1>1, Zenon DEF Framed
      <3>4. ~r.err /\ (att[c].n = 2 \/ r.at \in {"ran", "clear"}) /\ Newest(c) => c \in opened'
        BY <1>0, <2>1, <2>2, Zenon DEF NewestInv, ProgressInv, CallRecord
      <3> QED
        BY <1>1, <2>1, <2>2, <3>1, <3>2, <3>3, <3>4 DEF NewestInv, Framed, Begun
    <2>3. CASE d # c
      BY <1>0, <1>1, <2>1, <2>3 DEF NewestInv, Framed, Begun, AtRun, SameToken
    <2> QED
      BY <2>2, <2>3, Zenon
  <1>7. ASSUME Undisturbed, NEW d \in Calls PROVE LeftInv(d)'
    BY <1>1, <1>7, AttachLeft, Zenon DEF InExecute
  <1>8. inflight' \in Ops \cup {NoneA} /\ cancelled' \subseteq Ops /\ finished' \subseteq Ops /\ opened' \subseteq Calls
    <2>1. Op(c) \in Ops
      BY <1>0, Zenon DEF CallRecord, Op, Ops
    <2> QED
      BY <1>0, <2>1, Zenon DEF AttachTypeOK
  <1>9. AttachTypeOK'
    BY <1>0, <1>1, <1>8, Zenon DEF AttachTypeOK, Framed
  <1> QED
    BY <1>1, <1>2, <1>3, <1>4, <1>5, <1>6, <1>7, <1>9, Zenon DEF AttachInv, Framed

LEMMA AttachCancelFinish ==
    ASSUME AttachInv, NEW c \in Calls, Cancel(c) \/ Attach(c) \/ Finish(c)
    PROVE  AttachInv'
  <1>0. /\ AttachTypeOK /\ att \in [Calls -> CallRecord] /\ att[c] \in CallRecord
        /\ ProgressInv(c) /\ StoredInv(c)
    BY Zenon DEF AttachInv, AttachTypeOK
  <1>1. ASSUME NEW a \in InExecute PROVE
          LET r == [att[c] EXCEPT !.at = a]
          IN  /\ r \in CallRecord /\ SameToken(r, att[c]) /\ r.at = a /\ r.n = att[c].n
              /\ r.repeated = att[c].repeated /\ r.held = att[c].held /\ r.err = att[c].err
              /\ r.outdated = att[c].outdated /\ r.waits = att[c].waits
              /\ GotoA(c, a) => att' = [att EXCEPT ![c] = r]
    BY <1>0, <1>1, Zenon DEF CallRecord, SameToken, GotoA
  <1>2. CASE Cancel(c)
    <2> DEFINE r == [att[c] EXCEPT !.at = "wait"]
    <2>1. /\ r \in CallRecord /\ SameToken(r, att[c]) /\ r.at = "wait" /\ r.n = att[c].n
          /\ r.repeated = att[c].repeated /\ r.held = att[c].held /\ r.err = att[c].err
          /\ r.outdated = att[c].outdated /\ r.waits = att[c].waits /\ att' = [att EXCEPT ![c] = r]
      BY <1>1, <1>2, Zenon DEF Cancel, InExecute
    <2> HIDE DEF r
    <2>2. cancelled' \subseteq Ops
      BY <1>0, <1>2, Zenon DEF Cancel, ProgressInv, AttachTypeOK
    <2> QED
      BY <1>2, <2>1, <2>2, AttachWithin, Zenon DEF Cancel
  <1>3. CASE Finish(c)
    <2> DEFINE r == [att[c] EXCEPT !.at = "clear"]
    <2>1. /\ r \in CallRecord /\ SameToken(r, att[c]) /\ r.at = "clear" /\ r.n = att[c].n
          /\ r.repeated = att[c].repeated /\ r.held = att[c].held /\ r.err = att[c].err
          /\ r.outdated = att[c].outdated /\ r.waits = att[c].waits /\ att' = [att EXCEPT ![c] = r]
      BY <1>1, <1>3, Zenon DEF Finish, InExecute
    <2> HIDE DEF r
    <2>2. cancelled \subseteq Ops
      BY <1>0, Zenon DEF AttachTypeOK
    <2> QED
      BY <1>3, <2>1, <2>2, AttachWithin, Zenon DEF Finish
  <1>4. CASE Attach(c) /\ GotoA(c, "ran") /\ opened' = opened \cup {c}
    <2> DEFINE r == [att[c] EXCEPT !.at = "ran"]
    <2>1. /\ r \in CallRecord /\ SameToken(r, att[c]) /\ r.at = "ran" /\ r.n = att[c].n
          /\ r.repeated = att[c].repeated /\ r.held = att[c].held /\ r.err = att[c].err
          /\ r.outdated = att[c].outdated /\ att' = [att EXCEPT ![c] = r]
      BY <1>1, <1>4, Zenon DEF InExecute
    <2> HIDE DEF r
    <2>2. cancelled \subseteq Ops
      BY <1>0, Zenon DEF AttachTypeOK
    <2>3. r.err = FALSE
      BY <1>0, <1>4, <2>1, Zenon DEF Attach, ProgressInv, CallRecord
    <2> QED
      BY <1>4, <2>1, <2>2, <2>3, AttachWithin, Zenon DEF Attach, coordVars
  <1>5. CASE Attach(c) /\ att' = [att EXCEPT ![c].at = "ran", ![c].err = TRUE] /\ UNCHANGED opened
    <2> DEFINE r == [att[c] EXCEPT !.at = "ran", !.err = TRUE]
    <2>0. att' = [att EXCEPT ![c] = r]
      BY <1>0, <1>5, Zenon
    <2>1. /\ r \in CallRecord /\ SameToken(r, att[c]) /\ r.at = "ran" /\ r.n = att[c].n
          /\ r.repeated = att[c].repeated /\ r.held = att[c].held /\ r.err = TRUE
          /\ r.outdated = att[c].outdated
      BY <1>0, Zenon DEF CallRecord, SameToken, InExecute
    <2> HIDE DEF r
    <2>2. cancelled \subseteq Ops /\ c \notin opened
      BY <1>0, <1>5, Zenon DEF AttachTypeOK, StoredInv, Attach, InExecute
    <2> QED
      BY <1>5, <2>0, <2>1, <2>2, AttachWithin, Zenon DEF Attach, coordVars
  <1> QED
    BY <1>2, <1>3, <1>4, <1>5, Zenon DEF Attach

LEMMA AttachStore ==
    ASSUME AttachInv, NEW c \in Calls, Store(c)
    PROVE  AttachInv'
  <1> DEFINE late == att[c].outdated \/ att[c].period # periods
             over == procAttachments # NoneA
             r == [att[c] EXCEPT !.at = "ran", !.repeated = over, !.outdated = late]
  <1>0. /\ AttachTypeOK /\ att \in [Calls -> CallRecord] /\ att[c] \in CallRecord
        /\ \A d \in Calls : ProgressInv(d) /\ StoredInv(d)
    BY Zenon DEF AttachInv, AttachTypeOK
  <1>1. /\ att[c].at = "run" /\ att[c].n = 2 /\ procAttachments' = c /\ att' = [att EXCEPT ![c] = r]
        /\ UNCHANGED <<procs, alive, coordVars, opened>>
    BY <1>0, Zenon DEF Store
  <1>2. /\ late \in BOOLEAN /\ (att[c].outdated => late) /\ (~late => att[c].period = periods)
        /\ over \in BOOLEAN /\ ~att[c].repeated
    BY <1>0, <1>1, Zenon DEF CallRecord, ProgressInv
  <1>3. procAttachments \in Calls => over
    BY AttachAssumption, Zenon
  <1> HIDE DEF late, over
  <1>4. /\ r \in CallRecord /\ SameToken(r, att[c]) /\ r.at = "ran" /\ r.n = att[c].n
        /\ r.repeated = over /\ r.held = att[c].held /\ r.err = att[c].err
        /\ r.outdated = late
    BY <1>0, <1>2, Zenon DEF CallRecord, SameToken, InExecute
  <1> HIDE DEF r
  <1>5. Framed(c, r) /\ UNCHANGED <<procs, alive, versions, inflight, cancelled, finished, periods>>
    BY <1>1, <1>4, AttachFrame, Zenon DEF coordVars
  <1>6. /\ ~att[c].err /\ att[c].version > 0 /\ att[c].kind # "stopped"
    BY <1>0, <1>1, Zenon DEF ProgressInv, InExecute
  <1>7. \A d \in Calls : ProgressInv(d)'
    BY <1>0, <1>1, <1>4, <1>5, <1>6 DEF ProgressInv, Framed, SameToken, Early, Before, InExecute
  <1>8. \A d \in Calls : StoredInv(d)'
    BY <1>0, <1>1, <1>4, <1>5, <1>6 DEF StoredInv, Framed, SameToken, InExecute
  <1>9. OperationsInv'
    BY <1>0, <1>1, <1>4, <1>5 DEF AttachInv, OperationsInv, Framed, InExecute
  <1>10. ASSUME Undisturbed' PROVE Undisturbed /\ att[c].period = periods
    BY <1>2, <1>4, <1>5, <1>10, Zenon DEF Undisturbed, Framed
  <1>11. ASSUME Undisturbed PROVE FlightInv'
    <2>1. FlightInv
      BY <1>11, Zenon DEF AttachInv
    <2> QED
      BY <1>1, <1>4, <1>5, <2>1 DEF FlightInv, Framed, SameToken, Op, AtRun
  <1>12. ASSUME Undisturbed', NEW d \in Calls PROVE NewestInv(d)'
    <2>1. NewestInv(d) /\ att[c].period = periods
      BY <1>10, <1>12, Zenon DEF AttachInv
    <2>2. CASE d = c
      BY <1>1, <1>4, <1>5, <2>1, <2>2, Zenon DEF NewestInv, Framed, Begun, AtRun
    <2>3. CASE d # c
      <3>1. Newest(d) => ~Begun(d)
        BY <1>1, <2>1, <2>3, Zenon DEF NewestInv, AtRun
      <3> QED
        BY <1>1, <1>4, <1>5, <2>1, <2>3, <3>1 DEF NewestInv, Framed, Begun, AtRun
    <2> QED
      BY <2>2, <2>3, Zenon
  <1>13. ASSUME Undisturbed', NEW d \in Calls PROVE LeftInv(d)'
    <2>1. LeftInv(d) /\ Undisturbed
      BY <1>10, <1>13, Zenon DEF AttachInv
    <2>2. CASE d = c
      <3>1. \A e \in Calls : Newest(c) /\ Current(e) => e = c
        BY NewestIsOne, Zenon
      <3>2. Good(c)' => Newest(c)
        BY <1>4, <1>5, <1>6, Zenon DEF Good, Framed, Newest, SameToken
      <3> QED
        BY <1>4, <1>5, <2>2, <3>1, <3>2, Zenon DEF LeftInv, Framed
    <2>3. CASE d # c
      <3>1. Good(d)' = Good(d) /\ (Single(d)' => Single(d) /\ ~over)
        BY <1>2, <1>4, <1>5, <2>3, Zenon DEF Good, Single, Framed
      <3> QED
        BY <1>1, <1>3, <1>5, <2>1, <2>3, <3>1, Zenon DEF LeftInv, Framed
    <2> QED
      BY <2>2, <2>3, Zenon
  <1>14. AttachTypeOK'
    BY <1>0, <1>1, <1>5, Zenon DEF AttachTypeOK, Framed
  <1> QED
    BY <1>5, <1>7, <1>8, <1>9, <1>10, <1>11, <1>12, <1>13, <1>14, Zenon DEF AttachInv, Framed

LEMMA AttachClear ==
    ASSUME AttachInv, NEW c \in Calls, Clear(c)
    PROVE  AttachInv'
  <1>0. /\ AttachTypeOK /\ att \in [Calls -> CallRecord] /\ att[c] \in CallRecord
        /\ \A d \in Calls : ProgressInv(d) /\ StoredInv(d)
    BY Zenon DEF AttachInv, AttachTypeOK
  <1>1. /\ att[c].at = "clear" /\ inflight' = IF inflight = <<c, att[c].n>> THEN NoneA ELSE inflight
        /\ UNCHANGED <<procs, alive, versions, cancelled, finished, periods, procAttachments, opened>>
    BY Zenon DEF Clear, Cleared, Op
  <1>2. PICK r \in CallRecord :
          /\ att' = [att EXCEPT ![c] = r] /\ SameToken(r, att[c]) /\ r.held = att[c].held
          /\ r.repeated = att[c].repeated /\ r.err = att[c].err
          /\ \/ /\ r.at = "end" /\ r.n = att[c].n /\ r.overtaken = ~Current(c)
                /\ <<c, att[c].n>> \in cancelled \/ att[c].err \/ att[c].n = 2
             \/ r.at = "execute" /\ r.n = 2 /\ att[c].n = 1 /\ ~att[c].err
    <2>1. CASE <<c, att[c].n>> \in cancelled \/ att[c].err \/ att[c].n = 2
      <3> DEFINE o == ~Current(c)
                 r == [att[c] EXCEPT !.at = "end", !.overtaken = o]
      <3>1. EndA(c)
        BY <2>1, Zenon DEF Clear, Op
      <3>2. att' = [att EXCEPT ![c] = r] /\ o \in BOOLEAN
        BY <1>0, <3>1, Zenon DEF EndA, Current
      <3>3. o = ~Current(c)
        BY Zenon
      <3> HIDE DEF o
      <3>4. /\ r \in CallRecord /\ SameToken(r, att[c]) /\ r.at = "end" /\ r.n = att[c].n
            /\ r.repeated = att[c].repeated /\ r.held = att[c].held /\ r.err = att[c].err
            /\ r.overtaken = o
        BY <1>0, <3>2, Zenon DEF CallRecord, SameToken
      <3> HIDE DEF r
      <3> QED
        BY <2>1, <3>2, <3>3, <3>4, Zenon
    <2>2. CASE ~(<<c, att[c].n>> \in cancelled \/ att[c].err \/ att[c].n = 2)
      <3> DEFINE r == [att[c] EXCEPT !.n = 2, !.at = "execute"]
      <3>1. att' = [att EXCEPT ![c].n = 2, ![c].at = "execute"]
        BY <2>2, Zenon DEF Clear, Op
      <3>2. att' = [att EXCEPT ![c] = r]
        BY <1>0, <3>1, Zenon
      <3>3. /\ r \in CallRecord /\ SameToken(r, att[c]) /\ r.at = "execute" /\ r.n = 2
            /\ r.repeated = att[c].repeated /\ r.held = att[c].held /\ r.err = att[c].err
        BY <1>0, Zenon DEF CallRecord, SameToken, InExecute
      <3>4. att[c].n = 1
        BY <1>0, <2>2, Zenon DEF CallRecord
      <3> HIDE DEF r
      <3> QED
        BY <2>2, <3>2, <3>3, <3>4, Zenon
    <2> QED
      BY <2>1, <2>2, Zenon
  <1>3. Framed(c, r)
    BY <1>1, <1>2, AttachFrame, Zenon
  <1>4. att[c].n \in {1, 2} /\ att[c].kind # "stopped" /\ att[c].version > 0
    BY <1>0, <1>1, Zenon DEF CallRecord, ProgressInv, InExecute
  <1>5. \A d \in Calls : ProgressInv(d)'
    BY <1>0, <1>1, <1>2, <1>3 DEF ProgressInv, Framed, SameToken, Early, Before, InExecute
  <1>6. \A d \in Calls : StoredInv(d)'
    BY <1>0, <1>1, <1>2, <1>3 DEF StoredInv, Framed, SameToken, InExecute
  <1>7. OperationsInv'
    <2>1. \A d \in Calls, m \in {1, 2} : inflight' = <<d, m>> => inflight = <<d, m>> /\ d # c
      <3>1. \A d \in Calls, m \in {1, 2} : <<d, m>> # NoneA
        BY AttachAssumption
      <3>2. \A m \in {1, 2} : inflight = <<c, m>> => m = att[c].n
        BY Zenon DEF AttachInv, OperationsInv
      <3> QED
        BY <1>1, <3>1, <3>2, Zenon
    <2> QED
      BY <1>1, <1>2, <1>3, <1>4, <2>1 DEF AttachInv, OperationsInv, Framed, InExecute
  <1>8. ASSUME Undisturbed PROVE FlightInv'
    <2>1. FlightInv
      BY <1>8, Zenon DEF AttachInv
    <2>2. \A d \in Calls : att'[d].at \in AtRun \cup {"cancel", "wait"} => d # c /\ att'[d] = att[d]
      BY <1>2, <1>3, Zenon DEF Framed, AtRun
    <2>3. inflight' \in {inflight, NoneA} /\ \A d \in Calls \ {c} : inflight = Op(d) => inflight' = inflight
      BY <1>1 DEF Op
    <2> QED
      BY <1>1, <1>3, <2>1, <2>2, <2>3, Zenon DEF FlightInv, Framed, Op
  <1>9. ASSUME Undisturbed, NEW d \in Calls PROVE NewestInv(d)'
    <2>1. NewestInv(d)
      BY <1>9, Zenon DEF AttachInv
    <2>2. CASE d = c
      BY <1>1, <1>2, <1>3, <1>4, <2>1, <2>2, Zenon DEF NewestInv, Framed, Begun, AtRun
    <2>3. CASE d # c
      BY <1>1, <1>2, <1>3, <2>1, <2>3, Zenon DEF NewestInv, Framed, Begun, AtRun
    <2> QED
      BY <2>2, <2>3, Zenon
  <1>10. ASSUME Undisturbed, NEW d \in Calls PROVE LeftInv(d)'
    <2>1. LeftInv(d) /\ NewestInv(c)
      BY <1>10, Zenon DEF AttachInv
    <2>2. CASE d = c
      <3> SUFFICES ASSUME Good(c)' PROVE LeftInv(c)'
        BY <2>2, Zenon DEF LeftInv
      <3>1. Newest(c)
        BY <1>2, <1>3, <1>4, Zenon DEF Good, Framed, Newest, SameToken
      <3>2. \A e \in Calls : Current(e) => e = c
        BY <3>1, NewestIsOne, Zenon
      <3>3. r.at = "end" /\ c \in opened => procAttachments = c
        <4>1. ~(att[c].err /\ c \in opened)
          BY <1>0, Zenon DEF ProgressInv
        <4> QED
          BY <1>1, <1>2, <1>4, <2>1, <3>1, <4>1, Zenon DEF NewestInv
      <3>4. \A s \in Calls : att'[s].period <= att'[c].period
        BY <1>0, <1>2, <1>3, <3>1 DEF Framed, SameToken, Newest, Current, ProgressInv
      <3>5. \A s \in Calls : ~(att'[s].period > att'[c].period)
        BY <1>3, <3>4 DEF Framed, CallRecord
      <3> QED
        BY <1>1, <1>2, <1>3, <3>2, <3>3, <3>5, Zenon DEF LeftInv, Framed
    <2>3. CASE d # c
      <3>1. Good(d)' = Good(d) /\ (Single(d)' => Single(d))
        BY <1>2, <1>3, <2>3, Zenon DEF Good, Single, Framed
      <3> QED
        BY <1>1, <1>2, <1>3, <1>4, <2>1, <2>3, <3>1, Zenon DEF LeftInv, Framed, SameToken
    <2> QED
      BY <2>2, <2>3, Zenon
  <1>11. AttachTypeOK'
    BY <1>0, <1>1, <1>3, Zenon DEF AttachTypeOK, Framed
  <1> QED
    BY <1>3, <1>5, <1>6, <1>7, <1>8, <1>9, <1>10, <1>11, Zenon DEF AttachInv, Framed
-----------------------------------------------------------------------------
\* A new call is told of.
LEMMA AttachTell ==
    ASSUME AttachInv, NEW c \in Calls, addProc(c) \/ removeProc(c)
    PROVE  AttachInv'
  <1>0. /\ AttachTypeOK /\ att \in [Calls -> CallRecord] /\ att[c] \in CallRecord
        /\ \A d \in Calls : ProgressInv(d) /\ StoredInv(d)
    BY Zenon DEF AttachInv, AttachTypeOK
  <1>1. PICK kind \in {"started", "replaced", "stopped"}, proc \in Nat :
          /\ Tell(c, kind, proc) /\ procs' \in Nat /\ alive' \in BOOLEAN /\ proc \in 1..procs'
          /\ \/ ~alive /\ procs' = procs + 1 /\ alive' /\ kind = "started"
             \/ alive /\ procs' = procs /\ alive' /\ kind # "stopped"
             \/ alive /\ procs' = procs /\ ~alive' /\ kind = "stopped" /\ proc = procs
    <2>0. procs \in Nat /\ alive \in BOOLEAN /\ (alive => procs > 0)
      BY <1>0, Zenon DEF AttachTypeOK, AttachInv, ExitsInv
    <2>1. CASE ~alive /\ procs' = procs + 1 /\ alive' = TRUE /\ Tell(c, "started", procs')
      <3>1. procs' \in Nat /\ procs' \in 1..procs' /\ alive' \in BOOLEAN
        BY <2>0, <2>1
      <3> QED
        BY <2>1, <3>1, Zenon
    <2>2. CASE alive /\ UNCHANGED <<procs, alive>> /\ \E kind \in {"started", "replaced"} : Tell(c, kind, procs)
      <3>1. procs' \in Nat /\ procs \in 1..procs' /\ alive'
        BY <2>0, <2>2
      <3>2. PICK kind \in {"started", "replaced"} : Tell(c, kind, procs)
        BY <2>2, Zenon
      <3>3. kind # "stopped"
        BY Zenon
      <3> QED
        BY <2>0, <2>2, <3>1, <3>2, <3>3, Zenon
    <2>3. CASE alive /\ alive' = FALSE /\ UNCHANGED procs /\ Tell(c, "stopped", procs)
      <3>1. procs' \in Nat /\ procs \in 1..procs'
        BY <2>0, <2>3
      <3> QED
        BY <2>0, <2>3, <3>1, Zenon
    <2> QED
      BY <2>1, <2>2, <2>3, Zenon DEF addProc, removeProc
  <1> DEFINE r == [att[c] EXCEPT !.at = "told", !.kind = kind, !.proc = proc]
  <1>2. /\ att' = [att EXCEPT ![c] = r] /\ att[c].at = "none"
        /\ UNCHANGED <<coordVars, procAttachments, opened>>
    BY <1>0, <1>1, Zenon DEF Tell
  <1>3. /\ r \in CallRecord /\ r.at = "told" /\ r.kind = kind /\ r.proc = proc
        /\ r.version = att[c].version /\ r.period = att[c].period /\ r.n = att[c].n
        /\ r.held = att[c].held /\ r.err = att[c].err /\ r.outdated = att[c].outdated
        /\ r.repeated = att[c].repeated
    BY <1>0, Zenon DEF CallRecord, Early
  <1> HIDE DEF r
  <1>4. /\ att' \in [Calls -> CallRecord] /\ att'[c] = r /\ \A d \in Calls \ {c} : att'[d] = att[d]
        /\ UNCHANGED <<versions, inflight, cancelled, finished, periods, procAttachments, opened>>
    BY <1>0, <1>2, <1>3, Zenon DEF coordVars
  <1>5. /\ att[c].version = 0 /\ att[c].period = 0 /\ att[c].n = 1 /\ ~att[c].outdated
        /\ att[c].kind # "stopped" /\ ~att[c].err /\ ~att[c].repeated /\ c \notin opened
        /\ procAttachments # c
    BY <1>0, <1>2, Zenon DEF ProgressInv, StoredInv, Early, InExecute
  <1>6. \A d \in Calls : /\ att'[d].version = att[d].version /\ att'[d].period = att[d].period
                         /\ att'[d].n = att[d].n /\ att'[d].held = att[d].held
                         /\ att'[d].outdated = att[d].outdated /\ att'[d].repeated = att[d].repeated
                         /\ Current(d)' = Current(d) /\ Newest(d)' = Newest(d)
    BY <1>3, <1>4, Zenon DEF Current, Newest
  <1>7. \A d \in Calls : ProgressInv(d)'
    BY <1>0, <1>2, <1>3, <1>4, <1>5 DEF ProgressInv, Early, Before, InExecute
  <1>8. \A d \in Calls : StoredInv(d)'
    BY <1>0, <1>2, <1>3, <1>4, <1>5, <1>6 DEF StoredInv, InExecute
  <1>9. OperationsInv'
    BY <1>2, <1>3, <1>4, <1>5, <1>6 DEF AttachInv, OperationsInv, InExecute
  <1>10. ExitsInv'
    <2>1. ExitsInv /\ procs \in Nat /\ (alive' => procs' > 0)
      BY <1>0, <1>1 DEF AttachInv, AttachTypeOK
    <2>2. \A d \in Calls : att'[d].proc \in 0..procs' /\ (att'[d].at # "none" => att'[d].proc > 0)
      BY <1>1, <1>3, <1>4, <2>1 DEF ExitsInv
    <2>3. ASSUME NEW p \in 1..procs', p < procs' \/ ~alive'
          PROVE  \E s \in Calls : att'[s].kind = "stopped" /\ att'[s].proc = p
      <3>1. CASE kind = "stopped" /\ p = procs
        BY <1>1, <1>3, <1>4, <3>1, Zenon
      <3>2. CASE p \in 1..procs /\ (p < procs \/ ~alive)
        <4>1. PICK s \in Calls : att[s].kind = "stopped" /\ att[s].proc = p
          BY <2>1, <3>2, Zenon DEF ExitsInv
        <4> QED
          BY <1>4, <1>5, <4>1, Zenon
      <3> QED
        BY <1>1, <2>1, <2>3, <3>1, <3>2
    <2> QED
      BY <2>1, <2>2, <2>3, Zenon DEF ExitsInv
  <1>11. Undisturbed' => Undisturbed
    BY <1>6, Zenon DEF Undisturbed
  <1>12. ASSUME Undisturbed PROVE FlightInv'
    <2>1. FlightInv
      BY <1>12, Zenon DEF AttachInv
    <2>2. \A d \in Calls : att'[d].at \in AtRun \cup {"cancel", "wait"} => d # c /\ att'[d] = att[d]
      BY <1>3, <1>4, Zenon DEF AtRun
    <2> QED
      BY <1>4, <1>6, <2>1, <2>2, Zenon DEF FlightInv, Op
  <1>13. ASSUME Undisturbed PROVE TokensInv'
    <2>1. TokensInv
      BY <1>13, Zenon DEF AttachInv
    <2>2. \A d \in Calls : att'[d].version > 0 => d # c
      BY <1>5, <1>6
    <2> QED
      BY <1>3, <1>4, <2>1, <2>2 DEF TokensInv
  <1>14. ASSUME Undisturbed, NEW d \in Calls PROVE NewestInv(d)'
    <2>1. NewestInv(d)
      BY <1>14, Zenon DEF AttachInv
    <2>2. Newest(d) => d # c
      BY <1>5 DEF Newest
    <2> QED
      BY <1>3, <1>4, <1>6, <2>1, <2>2 DEF NewestInv, Begun, AtRun
  <1>15. ASSUME Undisturbed, NEW d \in Calls PROVE LeftInv(d)'
    <2>1. LeftInv(d)
      BY <1>15, Zenon DEF AttachInv
    <2>2. CASE d = c
      BY <1>4, <1>5, <2>2, Zenon DEF LeftInv
    <2>3. CASE d # c
      <3>1. Good(d)' = Good(d) /\ (Single(d)' => Single(d))
        BY <1>4, <1>6, <2>3, Zenon DEF Good, Single
      <3>2. ~(att'[c].period > att'[d].period)
        BY <1>0, <1>5, <1>6 DEF CallRecord
      <3> QED
        BY <1>3, <1>4, <1>6, <2>1, <2>3, <3>1, <3>2 DEF LeftInv
    <2> QED
      BY <2>2, <2>3, Zenon
  <1>16. AttachTypeOK'
    BY <1>0, <1>1, <1>4, Zenon DEF AttachTypeOK
  <1> QED
    BY <1>7, <1>8, <1>9, <1>10, <1>11, <1>12, <1>13, <1>14, <1>15, <1>16, Zenon DEF AttachInv

\* A token is taken: no other call has the newest now.
LEMMA AttachStartOp ==
    ASSUME AttachInv, NEW c \in Calls, StartOp(c)
    PROVE  AttachInv'
  <1> DEFINE late == Stopped(c)
             a == IF att[c].kind = "started" THEN "check" ELSE "load"
             r == [att[c] EXCEPT !.version = versions + 1, !.period = periods, !.outdated = late, !.at = a]
  <1>0. /\ AttachTypeOK /\ att \in [Calls -> CallRecord] /\ att[c] \in CallRecord
        /\ versions \in Nat /\ periods \in Nat
        /\ \A d \in Calls : ProgressInv(d) /\ StoredInv(d)
    BY Zenon DEF AttachInv, AttachTypeOK
  <1>1. /\ att[c].at = "start" /\ versions' = versions + 1 /\ att' = [att EXCEPT ![c] = r]
        /\ UNCHANGED <<procs, alive, inflight, cancelled, finished, periods, procAttachments, opened>>
    BY <1>0, Zenon DEF StartOp
  <1>2. late \in BOOLEAN /\ a \in {"check", "load"} /\ versions + 1 \in Nat /\ versions + 1 > 0
    BY <1>0 DEF Stopped
  <1>3. late = Stopped(c)
    BY Zenon
  <1> HIDE DEF late, a
  <1>4. /\ r \in CallRecord /\ r.at \in {"check", "load"} /\ r.kind = att[c].kind /\ r.proc = att[c].proc
        /\ r.version = versions + 1 /\ r.period = periods /\ r.n = att[c].n
        /\ r.held = att[c].held /\ r.err = att[c].err /\ r.outdated = late
        /\ r.repeated = att[c].repeated
    BY <1>0, <1>2, Zenon DEF CallRecord, Before
  <1> HIDE DEF r
  <1>5. att' \in [Calls -> CallRecord] /\ att'[c] = r /\ \A d \in Calls \ {c} : att'[d] = att[d]
    BY <1>0, <1>1, <1>4, Zenon
  <1>6. /\ att[c].kind # "stopped" /\ ~att[c].err /\ ~att[c].repeated /\ att[c].n = 1 /\ c \notin opened
        /\ procAttachments # c /\ (\A d \in Calls : att[d].held # c) /\ ~att[c].outdated
    BY <1>0, <1>1, Zenon DEF ProgressInv, StoredInv, Early, InExecute
  <1>7. \A d \in Calls \ {c} : ~Current(d)' /\ ~Newest(d)'
    BY <1>0, <1>1, <1>5 DEF ProgressInv, Current, Newest, CallRecord
  <1>8. \A d \in Calls : ProgressInv(d)'
    <2>1. \A d \in Calls \ {c} : ProgressInv(d)'
      BY <1>0, <1>1, <1>5 DEF ProgressInv, CallRecord
    <2>2. ProgressInv(c)'
      BY <1>0, <1>1, <1>2, <1>4, <1>5, <1>6 DEF ProgressInv, Early, Before, InExecute
    <2> QED
      BY <2>1, <2>2, Zenon
  <1>9. \A d \in Calls : StoredInv(d)'
    BY <1>0, <1>1, <1>4, <1>5, <1>6 DEF StoredInv, InExecute
  <1>10. OperationsInv'
    <2>1. \A d, e \in Calls :
            /\ att'[d].version > 0 /\ att'[d].version = att'[e].version
            /\ att'[d].period = att'[e].period
            => d = e
      <3>1. \A d \in Calls \ {c} : ~(att'[d].version = att'[c].version /\ att'[d].period = att'[c].period)
        BY <1>0, <1>4, <1>5 DEF ProgressInv, CallRecord
      <3> QED
        BY <1>5, <3>1, Zenon DEF AttachInv, OperationsInv
    <2> QED
      BY <1>1, <1>4, <1>5, <1>6, <2>1 DEF AttachInv, OperationsInv, InExecute
  <1>11. ExitsInv'
    BY <1>1, <1>4, <1>5 DEF AttachInv, ExitsInv
  <1>12. ASSUME Undisturbed' PROVE Undisturbed /\ ~Stopped(c)
    BY <1>3, <1>4, <1>5, <1>6, <1>12, Zenon DEF Undisturbed
  <1>13. ASSUME Undisturbed PROVE FlightInv'
    <2>1. FlightInv
      BY <1>13, Zenon DEF AttachInv
    <2>2. \A d \in Calls : att'[d].at \in AtRun \cup {"cancel", "wait"} => d # c /\ att'[d] = att[d]
      BY <1>4, <1>5, Zenon DEF AtRun
    <2> QED
      BY <1>1, <1>7, <2>1, <2>2, Zenon DEF FlightInv, Op
  <1>14. ASSUME Undisturbed' PROVE TokensInv'
    <2>1. TokensInv /\ ~Stopped(c)
      BY <1>12, <1>14, Zenon DEF AttachInv
    <2> QED
      BY <1>4, <1>5, <1>6, <2>1 DEF TokensInv, Stopped
  <1>15. ASSUME NEW d \in Calls PROVE NewestInv(d)'
    <2>1. \A m \in {1, 2} : /\ <<c, m>> \notin cancelled
                            /\ \A e \in Calls : att[e].at \in {"cancel", "wait"} => att[e].waits # <<c, m>>
      BY <1>1, Zenon DEF AttachInv, OperationsInv, InExecute
    <2>2. CASE d = c
      BY <1>1, <1>4, <1>5, <1>6, <2>1, <2>2 DEF NewestInv, Begun
    <2>3. CASE d # c
      BY <1>7, <2>3, Zenon DEF NewestInv
    <2> QED
      BY <2>2, <2>3, Zenon
  <1>16. ASSUME Undisturbed, NEW d \in Calls PROVE LeftInv(d)'
    <2>1. LeftInv(d)
      BY <1>16, Zenon DEF AttachInv
    <2>2. CASE d = c
      BY <1>1, <1>6, <2>2, Zenon DEF LeftInv
    <2>3. CASE d # c
      <3>1. (Good(d)' => Good(d)) /\ (Single(d)' => Single(d))
        BY <1>4, <1>5, <1>7, <2>3, Zenon DEF Good, Single
      <3> QED
        BY <1>1, <1>4, <1>5, <1>6, <1>7, <2>1, <2>3, <3>1, Zenon DEF LeftInv
    <2> QED
      BY <2>2, <2>3, Zenon
  <1>17. AttachTypeOK'
    BY <1>0, <1>1, <1>2, <1>5, Zenon DEF AttachTypeOK
  <1> QED
    BY <1>8, <1>9, <1>10, <1>11, <1>12, <1>13, <1>14, <1>15, <1>16, <1>17, Zenon DEF AttachInv

\* The tokens are forgotten: no call has the newest now.
LEMMA AttachCleanup ==
    ASSUME AttachInv, NEW c \in Calls, Cleanup(c)
    PROVE  AttachInv'
  <1> DEFINE r == [att[c] EXCEPT !.at = "load", !.version = 0, !.period = periods + 1]
  <1>0. /\ AttachTypeOK /\ att \in [Calls -> CallRecord] /\ att[c] \in CallRecord
        /\ versions \in Nat /\ periods \in Nat /\ periods + 1 \in Nat
        /\ \A d \in Calls : ProgressInv(d) /\ StoredInv(d)
    BY DEF AttachInv, AttachTypeOK
  <1>1. /\ att[c].at = "told" /\ att[c].kind = "stopped" /\ versions' = 0 /\ periods' = periods + 1
        /\ att' = [att EXCEPT ![c] = r] /\ cancelled' = cancelled \cup ({inflight} \ {NoneA})
        /\ inflight' = NoneA /\ UNCHANGED <<procs, alive, finished, procAttachments, opened>>
    BY <1>0, Zenon DEF Cleanup
  <1>2. /\ r \in CallRecord /\ r.at = "load" /\ r.kind = att[c].kind /\ r.proc = att[c].proc
        /\ r.version = 0 /\ r.period = periods + 1 /\ r.n = att[c].n
        /\ r.held = att[c].held /\ r.err = att[c].err /\ r.outdated = att[c].outdated
        /\ r.repeated = att[c].repeated
    BY <1>0, Zenon DEF CallRecord, Before
  <1> HIDE DEF r
  <1>3. att' \in [Calls -> CallRecord] /\ att'[c] = r /\ \A d \in Calls \ {c} : att'[d] = att[d]
    BY <1>0, <1>1, <1>2, Zenon
  <1>4. /\ ~att[c].err /\ ~att[c].repeated /\ att[c].n = 1 /\ c \notin opened /\ procAttachments # c
        /\ (\A d \in Calls : att[d].held # c) /\ ~att[c].outdated /\ att[c].version = 0
    BY <1>0, <1>1, Zenon DEF ProgressInv, StoredInv, Early, InExecute
  <1>5. /\ \A d \in Calls : ~Newest(d)' /\ att[d].period < periods'
        /\ \A d \in Calls \ {c} : ~Current(d)' /\ att'[d].period # periods'
    BY <1>0, <1>1, <1>2, <1>3 DEF ProgressInv, Current, Newest, CallRecord
  <1>6. \A d \in Calls : ProgressInv(d)'
    <2>1. \A d \in Calls \ {c} : ProgressInv(d)'
      BY <1>0, <1>1, <1>3, <1>5 DEF ProgressInv, CallRecord
    <2>2. ProgressInv(c)'
      BY <1>0, <1>1, <1>2, <1>3, <1>4 DEF ProgressInv, Early, Before, InExecute
    <2> QED
      BY <2>1, <2>2, Zenon
  <1>7. \A d \in Calls : StoredInv(d)'
    BY <1>0, <1>1, <1>2, <1>3, <1>4 DEF StoredInv, InExecute
  <1>8. OperationsInv'
    <2>1. \A d, e \in Calls :
            /\ att'[d].version > 0 /\ att'[d].version = att'[e].version
            /\ att'[d].period = att'[e].period
            => d = e
      BY <1>2, <1>3 DEF AttachInv, OperationsInv
    <2>2. \A d \in Calls, m \in {1, 2} : inflight' # <<d, m>>
      BY <1>1, AttachAssumption
    <2>3. \A d \in Calls, m \in {1, 2} :
            <<d, m>> \in cancelled' => d # c /\ att[d].at \in InExecute \cup {"end"}
      BY <1>1, Zenon DEF AttachInv, OperationsInv, InExecute
    <2>4. \A d \in Calls, m \in {1, 2} :
            <<d, m>> \in finished' =>
              m < att'[d].n \/ (m = att'[d].n /\ att'[d].at \in {"clear", "end"})
      <3>1. \A d \in Calls, m \in {1, 2} :
              <<d, m>> \in finished =>
                m < att[d].n \/ (m = att[d].n /\ att[d].at \in {"clear", "end"})
        BY Zenon DEF AttachInv, OperationsInv
      <3>2. \A m \in {1, 2} : <<c, m>> \notin finished
        <4>1. \A m \in {1, 2} : ~(m < att[c].n) /\ att[c].at \notin {"clear", "end"}
          BY <1>1, <1>4
        <4> QED  BY <3>1, <4>1, Zenon
      <3> QED  BY <1>1, <1>3, <3>1, <3>2, Zenon
    <2>5. \A d \in Calls, m \in {1, 2} :
            \/ <<d, m>> \in cancelled'
            \/ \E e \in Calls : att'[e].at \in {"cancel", "wait"} /\ att'[e].waits = <<d, m>>
            => att'[d].at \in InExecute \cup {"end"}
      <3>1. \A e \in Calls : att'[e].at \in {"cancel", "wait"} => att'[e] = att[e]
        BY <1>2, <1>3, Zenon
      <3>2. "told" \notin InExecute \cup {"end"}
        BY DEF InExecute
      <3>3. \A d, e \in Calls, m \in {1, 2} :
              att[e].at \in {"cancel", "wait"} /\ att[e].waits = <<d, m>> =>
                d # c /\ att[d].at \in InExecute \cup {"end"}
        BY <1>1, <3>2, ZenonT(30) DEF AttachInv, OperationsInv
      <3> QED  BY <1>3, <2>3, <3>1, <3>3, Zenon
    <2> QED
      BY <2>1, <2>2, <2>4, <2>5, Zenon DEF OperationsInv
  <1>9. ExitsInv'
    BY <1>1, <1>2, <1>3 DEF AttachInv, ExitsInv
  <1>10. Undisturbed' => Undisturbed
    BY <1>2, <1>3, Zenon DEF Undisturbed
  <1>11. ASSUME Undisturbed PROVE FlightInv'
    <2>1. FlightInv
      BY <1>11, Zenon DEF AttachInv
    <2>2. \A d \in Calls : att'[d].at \in AtRun \cup {"cancel", "wait"} => d # c /\ att'[d] = att[d]
      BY <1>2, <1>3, Zenon DEF AtRun
    <2> QED
      BY <1>5, <2>1, <2>2, Zenon DEF FlightInv
  <1>12. ASSUME Undisturbed PROVE TokensInv'
    <2>1. TokensInv
      BY <1>12, Zenon DEF AttachInv
    <2>2. \A d \in Calls : att'[d].version > 0 => d # c /\ periods + 1 > att'[d].period
      BY <1>0, <1>1, <1>2, <1>3, <1>5 DEF CallRecord
    <2> QED
      BY <1>2, <1>3, <2>1, <2>2 DEF TokensInv
  <1>13. ASSUME NEW d \in Calls PROVE NewestInv(d)'
    BY <1>5, Zenon DEF NewestInv
  <1>14. ASSUME Undisturbed, NEW d \in Calls PROVE LeftInv(d)'
    <2>1. LeftInv(d)
      BY <1>14, Zenon DEF AttachInv
    <2>2. CASE d = c
      BY <1>1, <1>4, <2>2, Zenon DEF LeftInv
    <2>3. CASE d # c
      <3>1. (Good(d)' => Good(d)) /\ (Single(d)' => Single(d))
        BY <1>2, <1>3, <1>5, <2>3, Zenon DEF Good, Single
      <3> QED
        BY <1>1, <1>2, <1>3, <1>5, <2>1, <2>3, <3>1, Zenon DEF LeftInv
    <2> QED
      BY <2>2, <2>3, Zenon
  <1>15. AttachTypeOK'
    BY <1>0, <1>1, <1>3, Zenon DEF AttachTypeOK
  <1> QED
    BY <1>6, <1>7, <1>8, <1>9, <1>10, <1>11, <1>12, <1>13, <1>14, <1>15, Zenon DEF AttachInv

\* Inductive invariant of the calls of TlsManager for one pid and of the
\* coordinator's tokens and operations (Start, Execute, Cleanup): see above.
THEOREM AttachInvariant == AttachSpec => []AttachInv
  <1>1. AttachInit => AttachInv
    <2> SUFFICES ASSUME AttachInit PROVE AttachInv
      BY Zenon
    <2> USE DEF AttachInit, NoCall
    <2>1. AttachTypeOK
      BY Zenon DEF AttachTypeOK, CallRecord, Early
    <2>2. \A c \in Calls : ProgressInv(c)
      BY DEF ProgressInv, Early, Before, InExecute
    <2>3. \A c \in Calls : StoredInv(c)
      BY AttachAssumption, Zenon DEF StoredInv
    <2>4. OperationsInv
      BY AttachAssumption DEF OperationsInv
    <2>5. ExitsInv
      BY DEF ExitsInv
    <2>6. FlightInv /\ TokensInv
      BY Zenon DEF FlightInv, TokensInv, AtRun
    <2>7. \A c \in Calls : NewestInv(c) /\ LeftInv(c)
      BY DEF NewestInv, LeftInv, Newest, Good
    <2> QED
      BY <2>1, <2>2, <2>3, <2>4, <2>5, <2>6, <2>7, Zenon DEF AttachInv
  <1>2. AttachInv /\ [AttachNext]_attachVars => AttachInv'
    <2> SUFFICES ASSUME AttachInv, [AttachNext]_attachVars PROVE AttachInv'
      BY Zenon
    <2>1. ASSUME NEW c \in Calls, addProc(c) \/ removeProc(c) PROVE AttachInv'
      BY <2>1, AttachTell, Zenon
    <2>2. ASSUME NEW c \in Calls, CallStep(c) PROVE AttachInv'
      <3>1. CASE Notify(c) \/ Check(c) \/ Scan(c)
        BY <3>1, AttachBefore, Zenon
      <3>2. CASE detachProcess(c)
        BY <3>2, AttachBefore, AttachLoad, AttachClose, AttachDelete, Zenon DEF detachProcess
      <3>3. CASE StartOp(c) \/ Cleanup(c)
        BY <3>3, AttachStartOp, AttachCleanup, Zenon
      <3>4. CASE Execute(c) \/ Cancel(c) \/ Wake(c) \/ Attach(c) \/ Store(c) \/ Finish(c) \/ Clear(c)
        BY <3>4, AttachExecute, AttachCancelFinish, AttachWake, AttachStore, AttachClear, Zenon
      <3> QED
        BY <2>2, <3>1, <3>2, <3>3, <3>4, Zenon DEF CallStep, scanAndAttachProcess
    <2>3. CASE UNCHANGED attachVars
      <3> USE <2>3 DEF attachVars, coordVars
      <3>1. AttachTypeOK'
        BY Zenon DEF AttachInv, AttachTypeOK
      <3>a. OperationsInv'
        BY Zenon DEF AttachInv, OperationsInv
      <3>b. ExitsInv'
        BY Zenon DEF AttachInv, ExitsInv
      <3>2. OperationsInv' /\ ExitsInv'
        BY <3>a, <3>b, Zenon
      <3>3. ASSUME NEW c \in Calls PROVE ProgressInv(c)'
        BY Zenon DEF AttachInv, ProgressInv, Begun
      <3>4. \A c \in Calls : StoredInv(c)'
        BY DEF AttachInv, StoredInv
      <3>5. Undisturbed' => Undisturbed
        BY Zenon DEF Undisturbed
      <3>6. Undisturbed => FlightInv' /\ TokensInv'
        BY Zenon DEF AttachInv, FlightInv, TokensInv, Newest, Current, Op
      <3>7. ASSUME NEW c \in Calls PROVE Undisturbed => NewestInv(c)'
        BY DEF AttachInv, NewestInv, Newest, Current, Begun
      <3>8. ASSUME NEW c \in Calls PROVE Undisturbed => LeftInv(c)'
        BY DEF AttachInv, LeftInv, Good, Single, Current
      <3> QED  BY <3>1, <3>2, <3>3, <3>4, <3>5, <3>6, <3>7, <3>8, Zenon DEF AttachInv
    <2> QED
      BY <2>1, <2>2, <2>3, Zenon DEF AttachNext
  <1> QED
    BY <1>1, <1>2, PTL DEF AttachSpec

\* Functions under Execute for one pid do not run at the same time, those that
\* Cleanup has cancelled apart (KeyedCoordinator), as long as no call acts out of
\* date.
THEOREM AttachSerialized == AttachSpec => []Serialized
  <1>1. AttachInv => Serialized
    BY Zenon DEF AttachInv, FlightInv, Serialized, AtRun
  <1> QED
    BY <1>1, AttachInvariant, PTL

\* When the calls for a pid have returned, the probes that stay attached are those
\* of the newest call and their closer is stored (TlsManager, procAttachments).
THEOREM AttachNewestAttached == AttachSpec => []NewestAttached
  <1>1. AttachInv => NewestAttached
    <2> SUFFICES ASSUME AttachInv, QuietA, Undisturbed PROVE NewestAttached
      BY Zenon DEF NewestAttached
    <2>0. \A c \in Calls : ProgressInv(c) /\ StoredInv(c) /\ NewestInv(c) /\ LeftInv(c) /\ att[c] \in CallRecord
      BY Zenon DEF AttachInv, AttachTypeOK
    <2>1. ASSUME NEW c \in Calls, att[c].at = "end", att[c].version > 0, Current(c), ~att[c].err
          PROVE  procAttachments = c /\ c \in opened
      BY <2>0, <2>1, Zenon DEF NewestInv, Newest
    <2>2. ASSUME NEW c \in opened, ~att[c].overtaken, ~\E d \in Calls : d # c /\ att[d].repeated
          PROVE  procAttachments = c /\ alive
      <3>1. c \in Calls /\ att[c].at = "end" /\ att[c].version > 0
        BY <2>0, <2>2, Zenon DEF AttachInv, AttachTypeOK, StoredInv, QuietA, InExecute
      <3>2. Good(c) /\ Single(c)
        BY <2>2, <3>1, Zenon DEF Good, Single
      <3>3. procAttachments = c
        BY <2>0, <2>2, <3>1, <3>2, Zenon DEF LeftInv
      <3>4. ASSUME ~alive PROVE FALSE
        <4>1. att[c].proc \in 1..procs
          BY <3>1 DEF AttachInv, ExitsInv, AttachTypeOK
        <4>2. PICK s \in Calls : att[s].kind = "stopped" /\ att[s].proc = att[c].proc
          BY <3>4, <4>1, Zenon DEF AttachInv, ExitsInv
        <4>3. att[s].at = "end"
          BY <2>0, <4>2, Zenon DEF QuietA, ProgressInv
        <4>4. att[s].period > att[c].period
          BY <3>1, <4>2, <4>3, Zenon DEF AttachInv, TokensInv
        <4> QED
          BY <2>0, <2>2, <3>1, <3>2, <4>2, <4>3, <4>4, Zenon DEF LeftInv
      <3> QED
        BY <3>3, <3>4, Zenon
    <2> QED
      BY <2>1, <2>2, Zenon DEF NewestAttached
  <1> QED
    BY <1>1, AttachInvariant, PTL

-----------------------------------------------------------------------------
(* The cached domain.                                                      *)

Storing == {"set_store", "dns_store", "ip_store"}

\* Where a call can be once a name was returned: on its way out.
Calm == {"idle", "set_isip", "set_len", "get_len", "get_isip", "get_return"}

DomainType ==
    /\ domain \in [{"ptr", "len"} -> Texts]
    /\ answer \in [{"ptr", "len"} -> Texts]
    /\ origDest \in IPs \cup {Empty} /\ dstAddr \in IPs \cup {Empty} /\ dnsRecord \in Names \cup {Empty}
    /\ pc \in [Threads -> Calm \cup Storing \cup {"set_parsed", "set_same", "get_dns", "get_empty"}]
    /\ host \in [Threads -> Texts]
    /\ unstored \in [Threads -> SUBSET Words]

\* One call at a time; what it has stored of a host, and the flag that goes with
\* the domain when none is storing.
AloneInv ==
    ~overlap =>
      /\ \A t, u \in Threads : pc[t] # "idle" /\ pc[u] # "idle" => t = u
      /\ \A t \in Threads : pc[t] \in Storing => "len" \in unstored[t] \/ domain.len = host[t]
      /\ \A t \in Threads : pc[t] = "ip_store" => host[t] \notin Names
      /\ (\A t \in Threads : pc[t] \notin Storing) => (domain.len \in Names => ~domainIsIP)

\* A name that was returned stays the domain, and no call gets as far as to change
\* it.
AnswerInv ==
    ~overlap /\ answer.len \in Names =>
      /\ domain = answer /\ ~domainIsIP
      /\ \A t \in Threads : pc[t] \in Calm

\* A call begins: there is no other, or the calls overlap.
LEMMA BeginAlone ==
    ASSUME DomainType, AloneInv, AnswerInv, NEW t \in Threads, NEW at \in {"set_isip", "get_len"}, BeginCall(t, at),
           UNCHANGED <<domain, domainIsIP, unstored, answer>>,
           \A u \in Threads : u # t => host'[u] = host[u]
    PROVE  AloneInv' /\ AnswerInv'
<1> SUFFICES ASSUME ~overlap' PROVE AloneInv' /\ AnswerInv'
  BY DEF AloneInv, AnswerInv
<1>1. ~overlap /\ (\A u \in Threads : pc[u] = "idle") /\ pc' = [pc EXCEPT ![t] = at]
  BY Zenon DEF BeginCall, Goto
<1>2. \A u \in Threads : pc'[u] = IF u = t THEN at ELSE "idle"
  BY <1>1 DEF DomainType
<1>3. at \notin Storing /\ "idle" \notin Storing /\ at # "ip_store" /\ at \in Calm /\ "idle" \in Calm
  BY Zenon DEF Storing, Calm
<1>4. AloneInv'
  BY <1>1, <1>2, <1>3 DEF AloneInv
<1>5. AnswerInv'
  BY <1>1, <1>2, <1>3 DEF AnswerInv
<1> QED  BY <1>4, <1>5, Zenon

\* The steps of a call that only read.
LEMMA StepAlone ==
    ASSUME DomainType, AloneInv, AnswerInv, NEW t \in Threads, NEW at, NEW to, Step(t, at, to), at # "idle",
           at \notin Storing, to \notin Storing,
           ~overlap /\ answer.len \in Names => to \in Calm
    PROVE  AloneInv' /\ AnswerInv'
<1> SUFFICES ASSUME ~overlap' PROVE AloneInv' /\ AnswerInv'
  BY DEF AloneInv, AnswerInv
<1>1. /\ ~overlap /\ UNCHANGED <<domain, domainIsIP, host, unstored, answer>>
      /\ pc[t] = at /\ pc' = [pc EXCEPT ![t] = to]
  BY DEF Step, Goto, counts
<1>2. \A u \in Threads : pc'[u] = IF u = t THEN to ELSE pc[u]
  BY <1>1 DEF DomainType
<1>3. to # "ip_store"
  BY DEF Storing
<1>4. AloneInv'
  BY <1>1, <1>2, <1>3 DEF AloneInv
<1>5. AnswerInv'
  BY <1>1, <1>2 DEF AnswerInv
<1> QED  BY <1>4, <1>5, Zenon

LEMMA CalmIs ==
    ASSUME AnswerInv, ~overlap, answer.len \in Names, DomainType
    PROVE  domain.len # Empty /\ ~domainIsIP /\ \A t \in Threads : pc[t] \in Calm
BY DomainAssumption DEF AnswerInv, Hosts

LEMMA ParsedHost == \A input \in HostInputs : parseHostString(input) \in Texts
BY Zenon DEF parseHostString, Texts

LEMMA DomainTypeStep == ASSUME DomainType, Next PROVE DomainType'
<1> DEFINE PCs == Calm \cup Storing \cup {"set_parsed", "set_same", "get_dns", "get_empty"}
<1>0. /\ pc \in [Threads -> PCs] /\ host \in [Threads -> Texts] /\ unstored \in [Threads -> SUBSET Words]
      /\ domain \in [{"ptr", "len"} -> Texts] /\ answer \in [{"ptr", "len"} -> Texts]
      /\ origDest \in IPs \cup {Empty} /\ dstAddr \in IPs \cup {Empty} /\ dnsRecord \in Names \cup {Empty}
  BY DEF DomainType
<1>a. IPs \cup {Empty} \subseteq Texts /\ Names \cup {Empty} \subseteq Texts
  BY DEF Texts, Hosts
<1>b. \A x \in {"idle", "set_isip", "set_len", "get_len", "get_isip", "get_return", "set_parsed", "set_same",
                "get_dns", "get_empty", "set_store", "dns_store", "ip_store"} : x \in PCs
  BY DEF Calm, Storing
<1> HIDE DEF PCs
<1> SUFFICES /\ pc' \in [Threads -> PCs] /\ host' \in [Threads -> Texts] /\ unstored' \in [Threads -> SUBSET Words]
             /\ domain' \in [{"ptr", "len"} -> Texts] /\ answer' \in [{"ptr", "len"} -> Texts]
             /\ origDest' \in IPs \cup {Empty} /\ dstAddr' \in IPs \cup {Empty} /\ dnsRecord' \in Names \cup {Empty}
  BY DEF DomainType, PCs
<1> PICK t \in Threads : \/ t \in {Watch, Request} /\ \E input \in HostInputs : SetDomain(t, input)
                         \/ \E ip \in IPs : OriginalDestination(t, ip)
                         \/ t \in {Watch, Reporter} /\ Domain(t)
                         \/ Running(t)
  BY DEF Next
<1>1. CASE \E input \in HostInputs : SetDomain(t, input)
  BY <1>0, <1>1, <1>b, ParsedHost DEF SetDomain, BeginCall, Goto, given
<1>2. CASE \E ip \in IPs : OriginalDestination(t, ip)
  BY <1>0, <1>2, <1>a, <1>b, Zenon DEF OriginalDestination, BeginCall, Goto, given
<1>3. CASE Domain(t)
  BY <1>0, <1>3, <1>b DEF Domain, BeginCall, Goto, given
<1>4. CASE SetIsIP(t) \/ SetLen(t) \/ SetParsed(t) \/ GetLen(t) \/ GetIsIP(t)
  <2>1. \E to \in PCs : \E at : Step(t, at, to)
    BY <1>4, <1>b DEF SetIsIP, SetLen, SetParsed, GetLen, GetIsIP
  <2> QED  BY <1>0, <2>1 DEF Step, Goto, given
<1>5. CASE SetSame(t)
  BY <1>0, <1>5, <1>b DEF SetSame, Goto, given
<1>6. CASE StoreWord(t)
  BY <1>0, <1>6 DEF StoreWord, given, Words
<1>7. CASE SetFlag(t) \/ DNSFlag(t) \/ IPFlag(t)
  BY <1>0, <1>7, <1>b DEF SetFlag, DNSFlag, IPFlag, Goto, given
<1>8. CASE GetDNS(t)
  BY <1>0, <1>8, <1>a, <1>b DEF GetDNS, Goto, given
<1>9. CASE GetEmpty(t)
  BY <1>0, <1>9, <1>a, <1>b DEF GetEmpty, Goto, given
<1>10. CASE Return(t)
  BY <1>0, <1>10, <1>b DEF Return, Goto, given
<1> QED  BY <1>1, <1>2, <1>3, <1>4, <1>5, <1>6, <1>7, <1>8, <1>9, <1>10 DEF Running

LEMMA AnswerStep ==
    ASSUME DomainType, AloneInv, AnswerInv, Next
    PROVE  AloneInv' /\ AnswerInv'
<1>0. /\ pc \in [Threads -> Calm \cup Storing \cup {"set_parsed", "set_same", "get_dns", "get_empty"}]
      /\ host \in [Threads -> Texts] /\ unstored \in [Threads -> SUBSET Words]
      /\ domain \in [{"ptr", "len"} -> Texts]
  BY DEF DomainType
<1>a. ~overlap /\ answer.len \in Names => domain.len # Empty /\ ~domainIsIP /\ \A t \in Threads : pc[t] \in Calm
  BY CalmIs
<1> PICK t \in Threads : \/ t \in {Watch, Request} /\ \E input \in HostInputs : SetDomain(t, input)
                         \/ \E ip \in IPs : OriginalDestination(t, ip)
                         \/ t \in {Watch, Reporter} /\ Domain(t)
                         \/ Running(t)
  BY DEF Next
<1>1. CASE \E input \in HostInputs : SetDomain(t, input)
  <2>1. BeginCall(t, "set_isip") /\ UNCHANGED <<domain, domainIsIP, unstored, answer>>
    BY <1>1 DEF SetDomain
  <2>2. \A u \in Threads : u # t => host'[u] = host[u]
    BY <1>0, <1>1 DEF SetDomain
  <2> QED  BY <2>1, <2>2, BeginAlone
<1>2. CASE \E ip \in IPs : OriginalDestination(t, ip)
  <2>1. BeginCall(t, "set_isip") /\ UNCHANGED <<domain, domainIsIP, unstored, answer>>
    BY <1>2 DEF OriginalDestination
  <2>2. \A u \in Threads : u # t => host'[u] = host[u]
    BY <1>0, <1>2 DEF OriginalDestination
  <2> QED  BY <2>1, <2>2, BeginAlone
<1>3. CASE Domain(t)
  BY <1>3, BeginAlone DEF Domain
<1>4. CASE SetIsIP(t) \/ SetLen(t) \/ SetParsed(t) \/ GetLen(t) \/ GetIsIP(t)
  <2>1. PICK at, to : /\ Step(t, at, to) /\ at # "idle" /\ at \notin Storing /\ to \notin Storing
                      /\ ~overlap /\ answer.len \in Names => to \in Calm
    <3>1. CASE SetIsIP(t)
      BY <1>a, <3>1 DEF SetIsIP, Calm, Storing
    <3>2. CASE SetLen(t)
      BY <1>a, <3>2, Zenon DEF SetLen, Calm, Storing
    <3>3. CASE SetParsed(t)
      BY <1>a, <3>3 DEF SetParsed, Calm, Storing, Step
    <3>4. CASE GetLen(t)
      BY <1>a, <3>4 DEF GetLen, Calm, Storing
    <3>5. CASE GetIsIP(t)
      BY <1>a, <3>5 DEF GetIsIP, Calm, Storing
    <3> QED  BY <1>4, <3>1, <3>2, <3>3, <3>4, <3>5
  <2> QED  BY <2>1, StepAlone
<1> SUFFICES ASSUME ~overlap', \/ SetSame(t) \/ StoreWord(t) \/ SetFlag(t) \/ DNSFlag(t) \/ IPFlag(t)
                               \/ GetDNS(t) \/ GetEmpty(t) \/ Return(t)
             PROVE  AloneInv' /\ AnswerInv'
  <2>1. overlap' => AloneInv' /\ AnswerInv'
    BY Zenon DEF AloneInv, AnswerInv
  <2> QED  BY <1>1, <1>2, <1>3, <1>4, <2>1, ZenonT(30) DEF Running
<1>b. ~overlap /\ pc[t] # "idle"
  <2>1. CASE SetSame(t)
    BY <2>1, Zenon DEF SetSame, counts
  <2>2. CASE StoreWord(t)
    BY <2>2, Zenon DEF StoreWord, counts
  <2>3. CASE SetFlag(t)
    BY <2>3, Zenon DEF SetFlag, counts
  <2>4. CASE DNSFlag(t)
    BY <2>4, Zenon DEF DNSFlag, counts
  <2>5. CASE IPFlag(t)
    BY <2>5, Zenon DEF IPFlag, counts
  <2>6. CASE GetDNS(t)
    BY <2>6, Zenon DEF GetDNS, counts
  <2>7. CASE GetEmpty(t)
    BY <2>7, Zenon DEF GetEmpty, counts
  <2>8. CASE Return(t)
    BY <2>8, ZenonT(30) DEF Return, counts
  <2> QED  BY <2>1, <2>2, <2>3, <2>4, <2>5, <2>6, <2>7, <2>8, Zenon
<1>c. \A u \in Threads : u # t => pc[u] = "idle"
  BY <1>b DEF AloneInv
<1>d. "idle" \notin Storing /\ "ip_store" \in Storing /\ "idle" \in Calm
  BY Zenon DEF Storing, Calm
<1>e. \A u \in Threads : u # t => pc'[u] = "idle"
  BY <1>0, <1>c DEF SetSame, StoreWord, SetFlag, DNSFlag, IPFlag, GetDNS, GetEmpty, Return, Goto
<1>5. CASE Return(t)
  <2>1. /\ pc[t] = "get_return" /\ pc'[t] = "idle" /\ answer' = domain
        /\ UNCHANGED <<domain, domainIsIP, host, unstored>>
    BY <1>0, <1>5, Zenon DEF Return, Goto
  <2>2. \A u \in Threads : pc[u] \notin Storing /\ pc'[u] = "idle"
    BY <1>c, <1>d, <1>e, <2>1, ZenonT(30) DEF Storing
  <2>3. domain.len \in Names => ~domainIsIP
    BY <1>b, <2>2, ZenonT(30) DEF AloneInv
  <2>4. AloneInv'
    BY <1>d, <2>1, <2>2, <2>3, Zenon DEF AloneInv
  <2>5. AnswerInv'
    BY <1>d, <2>1, <2>2, <2>3, Zenon DEF AnswerInv
  <2> QED  BY <2>4, <2>5, Zenon
<1>6. CASE ~Return(t)
  <2>1. pc[t] \notin Calm /\ answer' = answer
    BY <1>6, Zenon DEF SetSame, StoreWord, SetFlag, DNSFlag, IPFlag, GetDNS, GetEmpty, Calm
  <2>2. answer'.len \notin Names
    BY <1>a, <1>b, <2>1, Zenon
  <2>3. AnswerInv'
    BY <2>2, Zenon DEF AnswerInv
  <2>4. SUFFICES /\ pc'[t] \in Storing => "len" \in unstored'[t] \/ domain'.len = host'[t]
                 /\ pc'[t] = "ip_store" => host'[t] \notin Names
                 /\ pc'[t] \notin Storing => (domain'.len \in Names => ~domainIsIP')
    BY <1>d, <1>e, <2>3, Zenon DEF AloneInv
  <2>5. CASE SetSame(t) \/ GetDNS(t) \/ GetEmpty(t)
    <3>1. domain' = domain /\ domainIsIP' = domainIsIP /\ pc[t] \notin Storing
      BY <2>5, ZenonT(30) DEF SetSame, GetDNS, GetEmpty, Storing
    <3>2. domain.len \in Names => ~domainIsIP
      BY <1>b, <1>c, <1>d, <3>1, Zenon DEF AloneInv
    <3>3. pc'[t] \in Storing => "len" \in unstored'[t]
      <4>1. CASE SetSame(t)
        BY <1>0, <4>1 DEF SetSame, Goto, Words, Storing
      <4>2. CASE GetDNS(t)
        BY <1>0, <4>2 DEF GetDNS, Goto, Words, Storing
      <4>3. CASE GetEmpty(t)
        BY <1>0, <4>3 DEF GetEmpty, Goto, Words, Storing
      <4> QED  BY <2>5, <4>1, <4>2, <4>3, Zenon
    <3>4. pc'[t] = "ip_store" => host'[t] \in IPs \cup {Empty}
      <4>1. CASE SetSame(t)
        BY <1>0, <4>1, Zenon DEF SetSame, Goto
      <4>2. CASE GetDNS(t)
        BY <1>0, <4>2, Zenon DEF GetDNS, Goto
      <4>3. CASE GetEmpty(t)
        BY <1>0, <4>3, ZenonT(30) DEF GetEmpty, Goto, DomainType
      <4> QED  BY <2>5, <4>1, <4>2, <4>3, Zenon
    <3> QED  BY <3>1, <3>2, <3>3, <3>4, DomainAssumption, Zenon DEF Hosts
  <2>6. CASE StoreWord(t)
    <3>1. PICK w \in unstored[t] : /\ domain' = [domain EXCEPT ![w] = host[t]]
                                   /\ unstored' = [unstored EXCEPT ![t] = @ \ {w}]
      BY <2>6, ZenonT(30) DEF StoreWord
    <3>2. pc[t] \in Storing /\ pc' = pc /\ host' = host
      BY <2>6, Zenon DEF StoreWord, Storing
    <3>3. w \in {"ptr", "len"} /\ unstored'[t] = unstored[t] \ {w}
      BY <1>0, <3>1, ZenonT(30) DEF Words
    <3>4. "len" \in unstored'[t] \/ domain'.len = host[t]
      <4>1. CASE w = "len"
        BY <1>0, <3>1, <4>1, Zenon
      <4>2. CASE w # "len"
        BY <1>0, <1>b, <3>1, <3>2, <3>3, <4>2 DEF AloneInv
      <4> QED  BY <4>1, <4>2, Zenon
    <3> QED  BY <1>b, <3>2, <3>4 DEF AloneInv
  <2>7. CASE SetFlag(t) \/ DNSFlag(t) \/ IPFlag(t)
    <3>1. /\ pc[t] \in Storing /\ unstored[t] = {} /\ domain' = domain /\ pc'[t] \notin Storing
          /\ \/ domainIsIP' = (host[t] \in IPs) \/ domainIsIP' = FALSE
             \/ pc[t] = "ip_store" /\ domainIsIP' = TRUE
      BY <1>0, <2>7, ZenonT(30) DEF SetFlag, DNSFlag, IPFlag, Goto, Storing
    <3>2. domain.len = host[t] /\ (pc[t] = "ip_store" => host[t] \notin Names)
      BY <1>b, <3>1, Zenon DEF AloneInv
    <3>3. host[t] \in Names => host[t] \notin IPs
      BY DomainAssumption
    <3> QED  BY <1>d, <3>1, <3>2, <3>3, Zenon
  <2> QED  BY <1>6, <2>5, <2>6, <2>7, ZenonT(30)
<1> QED  BY <1>5, <1>6

LEMMA DomainInvariant == Spec => [](DomainType /\ AloneInv /\ AnswerInv)
<1>1. Init => DomainType /\ AloneInv /\ AnswerInv
  <2> SUFFICES ASSUME Init PROVE DomainType /\ AloneInv /\ AnswerInv
    OBVIOUS
  <2>1. DomainType
    <3>1. domain = Whole(Empty) /\ answer = Whole(Empty) /\ Whole(Empty) \in [{"ptr", "len"} -> Texts]
      BY DEF Init, Whole, Texts
    <3>2. \A t \in Threads : pc[t] = "idle" /\ host[t] = Empty /\ unstored[t] = {}
      BY Zenon DEF Init
    <3>3. pc \in [Threads -> Calm] /\ host \in [Threads -> Texts] /\ unstored \in [Threads -> SUBSET Words]
      BY <3>2 DEF Init, Calm, Texts
    <3> QED  BY <3>1, <3>3, Zenon DEF Init, DomainType
  <2>2. AloneInv
    BY DEF Init, AloneInv, Storing
  <2>3. AnswerInv
    BY DomainAssumption DEF Init, AnswerInv, Whole, Hosts
  <2> QED  BY <2>1, <2>2, <2>3
<1>2. DomainType /\ AloneInv /\ AnswerInv /\ [Next]_vars => (DomainType /\ AloneInv /\ AnswerInv)'
  <2>1. ASSUME UNCHANGED vars, DomainType, AloneInv, AnswerInv PROVE (DomainType /\ AloneInv /\ AnswerInv)'
    BY <2>1, Zenon DEF vars, DomainType, AloneInv, AnswerInv
  <2> QED  BY <2>1, DomainTypeStep, AnswerStep, Zenon
<1> QED  BY <1>1, <1>2, PTL DEF Spec

\* What Domain returns for a connection does not change once it is a name, for any
\* hosts and any number of calls, as long as no two of them overlap.
THEOREM DomainAnswerStays == Spec => AnswerStays
<1>1. DomainType /\ AnswerInv /\ [Next]_vars => [~overlap /\ answer.len \in Names => answer' = answer]_vars
  <2> SUFFICES ASSUME DomainType, AnswerInv, Next, ~overlap, answer.len \in Names PROVE answer' = answer
    OBVIOUS
  <2>1. domain = answer
    BY DEF AnswerInv
  <2>2. answer' = answer \/ answer' = domain
    BY Zenon DEF Next, Running, SetDomain, OriginalDestination, Domain, SetIsIP, SetLen, SetParsed, SetSame, StoreWord,
           SetFlag, GetLen, GetIsIP, GetDNS, DNSFlag, GetEmpty, IPFlag, Return, Step
  <2> QED  BY <2>1, <2>2
<1> QED  BY <1>1, DomainInvariant, PTL DEF Spec, AnswerStays

=============================================================================
