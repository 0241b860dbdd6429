------------------------- MODULE CommandStreamProofs -------------------------
(****************************************************************************)
(* The streams that match answers with commands, for any number of commands *)
(* and any limit of those that are pending.                                 *)
(*                                                                          *)
(* A command that is sent is owed an answer, is being answered or is done.  *)
(* CmdInv says where a plugin connection is held, which is what its release *)
(* needs.  SessionInv and MatchInv say, for sessions in which each command  *)
(* is answered, that what is pending is what is still owed or on the wire,  *)
(* in the same order, and that the phase of a result set is the one of the  *)
(* packet that comes next.                                                  *)
(****************************************************************************)
EXTENDS CommandStream, TLAPS

-----------------------------------------------------------------------------
(* Sequences.                                                              *)

LEMMA SeqMonotonic ==
  ASSUME NEW S, NEW T, S \subseteq T
  PROVE  Seq(S) \subseteq Seq(T)
OBVIOUS

LEMMA LenProperties ==
  ASSUME NEW S, NEW s \in Seq(S)
  PROVE  Len(s) \in Nat /\ DOMAIN s = 1 .. Len(s)
OBVIOUS

LEMMA SeqEqual ==
  ASSUME NEW S, NEW s \in Seq(S), NEW t \in Seq(S), Len(s) = Len(t),
         \A i \in 1 .. Len(s) : s[i] = t[i]
  PROVE  s = t
OBVIOUS

LEMMA AppendProperties ==
  ASSUME NEW S, NEW s \in Seq(S), NEW e \in S
  PROVE  /\ Append(s, e) \in Seq(S) /\ Len(Append(s, e)) = Len(s) + 1
         /\ \A i \in 1 .. Len(s) : Append(s, e)[i] = s[i]
         /\ Append(s, e)[Len(s) + 1] = e
OBVIOUS

LEMMA ConcatProperties ==
  ASSUME NEW S, NEW s \in Seq(S), NEW t \in Seq(S)
  PROVE  /\ s \o t \in Seq(S) /\ Len(s \o t) = Len(s) + Len(t)
         /\ \A i \in 1 .. Len(s) + Len(t) :
              (s \o t)[i] = IF i <= Len(s) THEN s[i] ELSE t[i - Len(s)]
OBVIOUS

LEMMA ConcatEmptySeq ==
  ASSUME NEW S, NEW s \in Seq(S)
  PROVE  s \o <<>> = s /\ <<>> \o s = s
OBVIOUS

LEMMA ConcatAssociative ==
  ASSUME NEW S, NEW s \in Seq(S), NEW t \in Seq(S), NEW u \in Seq(S)
  PROVE  (s \o t) \o u = s \o (t \o u)
OBVIOUS

LEMMA SubSeqProperties ==
  ASSUME NEW S, NEW s \in Seq(S), NEW m \in 1 .. Len(s) + 1, NEW n \in m - 1 .. Len(s)
  PROVE  /\ SubSeq(s, m, n) \in Seq(S) /\ Len(SubSeq(s, m, n)) = n - m + 1
         /\ \A i \in 1 .. n - m + 1 : SubSeq(s, m, n)[i] = s[m + i - 1]
OBVIOUS

-----------------------------------------------------------------------------
CmdKinds == {"auth"} \cup UNION {s.kinds : s \in CmdScopes}
Commands == [kind : CmdKinds, corr : CorrelationIds]
Sent == 1 .. Len(cmds)
Tags == {"greeting", "value", "header", "col", "row", "eof", "ok", "err"} \cup {cs.last} \cup cs.auths

CmdType ==
    /\ cs \in CmdScopes
    /\ cmds \in Seq(Commands) /\ Len(cmds) <= MaxCmds
    /\ pending \in Seq(Sent)
    /\ pendingRequests \in [CorrelationIds -> 0 .. Len(cmds)]
    /\ plugin \in [1 .. MaxCmds -> {"none", "open", "down"}]
    /\ streamClosed \in BOOLEAN
    /\ rset = [phase |-> rset.phase, active |-> rset.active, left |-> rset.left, of |-> rset.of]
    /\ rset.active \in 0 .. Len(cmds)

\* The packets that the server has still to send answer commands of the client.
WireInv ==
    /\ owed \in Seq(Sent)
    /\ session # "ready" => cs.proto = "mysql"
    /\ wire \in Seq([t : Tags, n : Int, of : 0 .. Len(cmds)])
    /\ cs.proto # "mysql" => \A i \in DOMAIN wire : wire[i].of # 0

FreshInv == \A c \in 1 .. MaxCmds : c > Len(cmds) => plugin[c] = "none"

Members(q) == {q[i] : i \in DOMAIN q}
Injective(q) == \A i, j \in DOMAIN q : q[i] = q[j] => i = j

\* A command is pending once, and its plugin connection has not been torn down.
QueueInv ==
    /\ cs.proto = "kafka" => pending = <<>>
    /\ Injective(pending)
    /\ ~streamClosed => \A c \in Members(pending) : plugin[c] # "down"

RequestInv ==
    /\ cs.proto # "kafka" => \A id \in CorrelationIds : pendingRequests[id] = 0
    /\ \A id \in CorrelationIds :
         pendingRequests[id] # 0 =>
           /\ cmds[pendingRequests[id]].corr = id
           /\ ~streamClosed => plugin[pendingRequests[id]] # "down"

SetInv ==
    /\ cs.proto # "mysql" => rset.active = 0
    /\ rset.phase # "none" <=> rset.active # 0
    /\ rset.active # 0 =>
         /\ plugin[rset.active] # "down"
         /\ rset.active \notin Members(pending)

OpenInv ==
    \A c \in 1 .. Len(cmds) :
      plugin[c] = "open" =>
        \/ cs.proto # "kafka" /\ ~streamClosed /\ c \in Members(pending)
        \/ cs.proto = "kafka" /\ ~streamClosed /\ \E id \in CorrelationIds : pendingRequests[id] = c
        \/ c = rset.active
        \/ cs.proto = "kafka" /\ \E d \in 1 .. Len(cmds) : d > c /\ cmds[d].corr = cmds[c].corr

CmdInv == CmdType /\ WireInv /\ FreshInv /\ QueueInv /\ RequestInv /\ SetInv /\ OpenInv
-----------------------------------------------------------------------------
\* The environment.

\* Every packet of an answer to a command is one of that command.
PacketsOf(c) == [t : Tags, n : Int, of : {c}]

LEMMA MiddleLemma ==
  ASSUME NEW c
  PROVE  Middle(c) \in Seq(PacketsOf(c))
<1>1. Pkt("eof", 0, c) \in PacketsOf(c)
  BY DEF Pkt, PacketsOf, Tags
<1> QED  BY <1>1 DEF Middle

LEMMA TimesLemma ==
  ASSUME NEW S, NEW n \in Nat, NEW p \in S
  PROVE  Times(n, p) \in Seq(S)
BY DEF Times

LEMMA ResultSetsLemma ==
  ASSUME NEW c, NEW a \in ResultSets(c)
  PROVE  a \in Seq(PacketsOf(c)) /\ a # <<>>
<1> DEFINE P == PacketsOf(c)
<1>1. PICK n \in 1 .. 2, m \in 0 .. 1, e \in {cs.last, "err"} : a = ResultSet(n, m, e, c)
  BY DEF ResultSets
<1>2. /\ Pkt("header", n, c) \in P /\ Pkt("col", 3, c) \in P /\ Pkt("row", 1, c) \in P
      /\ Pkt(e, 0, c) \in P
  BY DEF Pkt, PacketsOf, Tags
<1>3. Times(n, Pkt("col", 3, c)) \in Seq(P) /\ Times(m, Pkt("row", 1, c)) \in Seq(P)
  <2>1. n \in Nat /\ m \in Nat  OBVIOUS
  <2> QED  BY <2>1, <1>2, TimesLemma
<1>4. Middle(c) \in Seq(P)
  BY MiddleLemma
<1> DEFINE h == <<Pkt("header", n, c)>>  ts == Times(n, Pkt("col", 3, c))  md == Middle(c)
           rs == Times(m, Pkt("row", 1, c))  l == <<Pkt(e, 0, c)>>
<1>5. h \in Seq(P) /\ l \in Seq(P) /\ Len(l) = 1
  BY <1>2
<1>6. a = h \o ts \o md \o rs \o l
  BY <1>1 DEF ResultSet
<1>7. ts \in Seq(P) /\ md \in Seq(P) /\ rs \in Seq(P)
  BY <1>3, <1>4
<1> HIDE DEF P, h, ts, md, rs, l
<1>8. h \o ts \o md \o rs \in Seq(P)
  BY <1>5, <1>7, ConcatProperties
<1>9. a \in Seq(P) /\ Len(a) = Len(h \o ts \o md \o rs) + Len(l)
  BY <1>5, <1>6, <1>8, ConcatProperties, Zenon
<1> QED  BY <1>5, <1>8, <1>9, LenProperties DEF P

LEMMA AnswersLemma ==
  ASSUME NEW c, NEW a \in Answers(c)
  PROVE  a \in Seq(PacketsOf(c)) /\ a # <<>>
<1> DEFINE P == PacketsOf(c)
<1>1. /\ Value(c) \in P /\ Pkt("ok", 0, c) \in P /\ Pkt("err", 0, c) \in P /\ Pkt("col", 3, c) \in P
      /\ \A t \in cs.auths : Pkt(t, 1, c) \in P
  BY DEF Value, Pkt, PacketsOf, Tags
<1>2. CASE cmds[c].kind = "subscribe"
  <2>1. a = <<Value(c), Value(c)>>
    BY <1>2 DEF Answers
  <2> QED  BY <2>1, <1>1
<1>3. CASE cmds[c].kind = "query"
  <2>1. a \in {<<Pkt("ok", 0, c)>>, <<Pkt("err", 0, c)>>} \cup ResultSets(c)
    BY <1>3 DEF Answers
  <2>2. CASE a \in ResultSets(c)
    BY <2>2, ResultSetsLemma
  <2>3. CASE a = <<Pkt("ok", 0, c)>>
    BY <2>3, <1>1
  <2>4. CASE a = <<Pkt("err", 0, c)>>
    BY <2>4, <1>1
  <2> QED  BY <2>1, <2>2, <2>3, <2>4
<1>4. CASE cmds[c].kind = "prepare"
  <2>1. a = <<Pkt("ok", 0, c), Pkt("col", 3, c)>> \o Middle(c)
    BY <1>4 DEF Answers
  <2> DEFINE h == <<Pkt("ok", 0, c), Pkt("col", 3, c)>>  md == Middle(c)
  <2>2. h \in Seq(P) /\ Len(h) = 2
    BY <1>1
  <2>3. md \in Seq(P)
    BY MiddleLemma
  <2>4. a = h \o md
    BY <2>1
  <2> HIDE DEF P, h, md
  <2>5. a \in Seq(P) /\ Len(a) = Len(h) + Len(md)
    BY <2>2, <2>3, <2>4, ConcatProperties, Zenon
  <2> QED  BY <2>2, <2>3, <2>5, LenProperties DEF P
<1>5. CASE cmds[c].kind = "auth"
  <2>1. PICK t \in cs.auths : a = <<Pkt(t, 1, c)>>
    BY <1>5 DEF Answers
  <2> QED  BY <2>1, <1>1
<1>6. CASE cmds[c].kind \notin {"subscribe", "query", "prepare", "auth"}
  <2>1. a = <<Value(c)>>
    BY <1>6 DEF Answers
  <2> QED  BY <2>1, <1>1
<1> QED  BY <1>2, <1>3, <1>4, <1>5, <1>6
LEMMA AppendMembers ==
  ASSUME NEW S, NEW q \in Seq(S), NEW c
  PROVE  Members(Append(q, c)) = Members(q) \cup {c}
<1> DEFINE r == Append(q, c)
<1>1. /\ DOMAIN r = 1 .. Len(q) + 1 /\ DOMAIN q = 1 .. Len(q) /\ Len(q) \in Nat
      /\ \A i \in 1 .. Len(q) : r[i] = q[i]
      /\ r[Len(q) + 1] = c
  OBVIOUS
<1> HIDE DEF r
<1>2. \A i \in DOMAIN r : i \in DOMAIN q \/ i = Len(q) + 1
  BY <1>1
<1>3. Len(q) + 1 \in DOMAIN r /\ DOMAIN q \subseteq DOMAIN r
  BY <1>1
<1>4. \A i \in DOMAIN q : r[i] = q[i]
  BY <1>1
<1>5. Members(r) = Members(q) \cup {c}
  BY <1>1, <1>2, <1>3, <1>4, Zenon DEF Members
<1> QED  BY <1>5 DEF r

LEMMA SeqFacts ==
  ASSUME NEW S, NEW q \in Seq(S), NEW c
  PROVE  /\ Members(q) = {} => q = <<>>
         /\ Append(q, c) \in Seq(S \cup {c}) /\ Append(q, c) # <<>> /\ Append(<<>>, c) = <<c>>
         /\ Len(Append(q, c)) = Len(q) + 1 /\ Len(q) \in Nat
<1>1. q # <<>> => q[1] \in Members(q)
  BY DEF Members
<1>2. Append(q, c) \in Seq(S \cup {c}) /\ Append(<<>>, c) = <<c>>
  OBVIOUS
<1>3. Len(Append(q, c)) = Len(q) + 1 /\ Len(q) \in Nat
  OBVIOUS
<1>4. Append(q, c) # <<>>
  BY <1>2, <1>3
<1>5. Members(q) = {} => q = <<>>
  BY <1>1
<1> QED  BY <1>2, <1>3, <1>4, <1>5

LEMMA AppendQueue ==
  ASSUME NEW S, NEW q \in Seq(S), NEW c, Injective(q)
  PROVE  /\ Append(q, c) \in Seq(S \cup {c})
         /\ Members(Append(q, c)) = Members(q) \cup {c}
         /\ c \notin Members(q) => Injective(Append(q, c))
<1> DEFINE r == Append(q, c)
<1>1. /\ r \in Seq(S \cup {c}) /\ Len(q) \in Nat
      /\ DOMAIN r = 1 .. Len(q) + 1 /\ DOMAIN q = 1 .. Len(q)
      /\ \A i \in 1 .. Len(q) : r[i] = q[i]
      /\ r[Len(q) + 1] = c
  OBVIOUS
<1>2. Members(r) = Members(q) \cup {c}
  BY AppendMembers
<1> HIDE DEF r
<1>3. ASSUME c \notin Members(q)  PROVE Injective(r)
  <2> SUFFICES ASSUME NEW i \in DOMAIN r, NEW j \in DOMAIN r, r[i] = r[j]  PROVE i = j
    BY DEF Injective
  <2>1. \A k \in 1 .. Len(q) : r[k] # c
    BY <1>1, <1>3 DEF Members
  <2>2. CASE i \in 1 .. Len(q) /\ j \in 1 .. Len(q)
    BY <2>2, <1>1 DEF Injective
  <2>3. CASE ~(i \in 1 .. Len(q) /\ j \in 1 .. Len(q))
    BY <2>1, <2>3, <1>1
  <2> QED  BY <2>2, <2>3
<1> QED  BY <1>1, <1>2, <1>3 DEF r

LEMMA TailQueue ==
  ASSUME NEW S, NEW q \in Seq(S), q # <<>>, Injective(q)
  PROVE  /\ Tail(q) \in Seq(S) /\ Head(q) \in S /\ Head(q) \in Members(q)
         /\ Members(Tail(q)) = Members(q) \ {Head(q)} /\ Injective(Tail(q))
<1> DEFINE r == Tail(q)  h == Head(q)
<1>1. /\ r \in Seq(S) /\ Len(q) \in Nat /\ Len(q) >= 1
      /\ DOMAIN r = 1 .. Len(q) - 1 /\ DOMAIN q = 1 .. Len(q)
      /\ \A i \in 1 .. Len(q) - 1 : r[i] = q[i + 1]
      /\ h = q[1] /\ h \in S
  OBVIOUS
<1> HIDE DEF r, h
<1>2. h \in Members(q)
  BY <1>1 DEF Members
<1>3. \A i \in 1 .. Len(q) - 1 : i + 1 \in 1 .. Len(q) /\ q[i + 1] # h
  BY <1>1 DEF Injective
<1>4. Members(r) = Members(q) \ {h}
  <2>1. ASSUME NEW x \in Members(r)  PROVE x \in Members(q) \ {h}
    BY <1>1, <1>3 DEF Members
  <2>2. ASSUME NEW x \in Members(q), x # h  PROVE x \in Members(r)
    <3>1. PICK i \in 1 .. Len(q) : x = q[i]
      BY <1>1 DEF Members
    <3>2. i # 1 /\ i - 1 \in 1 .. Len(q) - 1 /\ (i - 1) + 1 = i
      BY <3>1, <2>2, <1>1
    <3>3. r[i - 1] = x
      BY <3>1, <3>2, <1>1
    <3> QED  BY <3>2, <3>3, <1>1 DEF Members
  <2> QED  BY <2>1, <2>2
<1>5. Injective(r)
  <2>1. ASSUME NEW i \in 1 .. Len(q) - 1, NEW j \in 1 .. Len(q) - 1, r[i] = r[j]  PROVE i = j
    <3>1. q[i + 1] = q[j + 1]
      BY <1>1, <2>1, Zenon
    <3>2. i + 1 \in DOMAIN q /\ j + 1 \in DOMAIN q
      BY <1>1, <1>3, Zenon
    <3>3. i + 1 = j + 1
      BY <3>1, <3>2, Zenon DEF Injective
    <3> QED  BY <3>3
  <2> QED  BY <1>1, <2>1, Zenon DEF Injective
<1> QED  BY <1>1, <1>2, <1>4, <1>5 DEF r, h

LEMMA CmdInitInv == CmdInit => CmdInv
<1> SUFFICES ASSUME CmdInit  PROVE CmdInv  OBVIOUS
<1>1. cmds = <<>> /\ Len(cmds) = 0 /\ pending = <<>> /\ DOMAIN pending = {} /\ rset.active = 0
  BY DEF CmdInit, NoSet
<1>2. CmdType
  <2>1. rset = [phase |-> rset.phase, active |-> rset.active, left |-> rset.left, of |-> rset.of]
    BY DEF CmdInit, NoSet
  <2>2. pendingRequests \in [CorrelationIds -> 0 .. Len(cmds)]
    BY <1>1 DEF CmdInit
  <2>3. plugin \in [1 .. MaxCmds -> {"none", "open", "down"}] /\ streamClosed \in BOOLEAN
    BY Zenon DEF CmdInit
  <2>4. /\ cs \in CmdScopes /\ cmds \in Seq(Commands) /\ Len(cmds) <= MaxCmds
        /\ pending \in Seq(Sent) /\ rset.active \in 0 .. Len(cmds)
    BY <1>1, CmdAssumption DEF CmdInit
  <2> QED  BY <2>1, <2>2, <2>3, <2>4 DEF CmdType
<1>3. WireInv
  <2>1. session # "ready" => cs.proto = "mysql"
    BY CmdAssumption DEF CmdInit
  <2> QED  BY <1>1, <2>1 DEF CmdInit, WireInv, Sent
<1>4. FreshInv
  BY DEF CmdInit, FreshInv
<1>5. QueueInv /\ RequestInv /\ SetInv /\ OpenInv
  BY <1>1 DEF CmdInit, QueueInv, RequestInv, SetInv, OpenInv, NoSet, Injective, Members
<1> QED  BY <1>2, <1>3, <1>4, <1>5 DEF CmdInv

\* What a step that leaves the stream and the client's commands as they are preserves.
StreamInv == CmdType /\ FreshInv /\ QueueInv /\ RequestInv /\ SetInv /\ OpenInv

LEMMA StreamKept ==
  ASSUME StreamInv, UNCHANGED <<cs, cmds, streamClosed, streamVars>>
  PROVE  StreamInv'
BY DEF StreamInv, CmdType, FreshInv, QueueInv, RequestInv, SetInv, OpenInv, streamVars, Sent

LEMMA GreetInv ==
  ASSUME CmdInv, Greet
  PROVE  CmdInv'
<1>1. StreamInv'
  BY StreamKept DEF CmdInv, StreamInv, Greet
<1>2. WireInv'
  <2>1. cs.proto = "mysql"
    BY DEF CmdInv, WireInv, Greet
  <2>2. Len(cmds) \in Nat
    BY DEF CmdInv, CmdType
  <2> DEFINE P == [t : Tags, n : Int, of : 0 .. Len(cmds)]
  <2>3. Pkt("greeting", 10, 0) \in P
    BY <2>2 DEF Pkt, Tags
  <2> HIDE DEF P
  <2>4. wire' \in Seq(P)
    BY <2>3 DEF Greet
  <2>5. Tags' = Tags /\ Sent' = Sent /\ Len(cmds') = Len(cmds)
    BY DEF Greet, Tags, Sent
  <2> QED  BY <2>1, <2>4, <2>5 DEF CmdInv, WireInv, Greet, P
<1> QED  BY <1>1, <1>2 DEF CmdInv, StreamInv

LEMMA AnswerInv ==
  ASSUME CmdInv, Answer
  PROVE  CmdInv'
<1>1. StreamInv'
  BY StreamKept DEF CmdInv, StreamInv, Answer
<1>2. PICK i \in DOMAIN owed :
        /\ owed' = Without(owed, i) /\ wire' \in Answers(owed[i])
        /\ session' = IF wire'[1].t = "ok" THEN "ready" ELSE session
        /\ UNCHANGED <<cs, cmds, streamClosed, streamVars>>
  BY DEF Answer
<1>3. /\ owed \in Seq(Sent) /\ owed[i] \in Sent
      /\ Len(cmds) \in Nat
  BY DEF CmdInv, CmdType, WireInv
<1>4. owed' \in Seq(Sent)
  <2>1. i \in 1 .. Len(owed) /\ Len(owed) \in Nat
    BY <1>3
  <2>2. SubSeq(owed, 1, i - 1) \in Seq(Sent) /\ SubSeq(owed, i + 1, Len(owed)) \in Seq(Sent)
    BY <1>3, <2>1, SubSeqProperties
  <2> QED  BY <1>2, <2>2, ConcatProperties DEF Without
<1>5. wire' \in Seq(PacketsOf(owed[i]))
  BY <1>2, AnswersLemma
<1>6. PacketsOf(owed[i]) \subseteq [t : Tags, n : Int, of : 0 .. Len(cmds)]
  BY <1>3 DEF PacketsOf, Sent
<1>7. wire' \in Seq([t : Tags, n : Int, of : 0 .. Len(cmds)])
  BY <1>5, <1>6, SeqMonotonic, Zenon
<1>8. \A j \in DOMAIN wire' : wire'[j].of # 0
  <2> SUFFICES ASSUME NEW j \in DOMAIN wire'  PROVE wire'[j].of # 0  OBVIOUS
  <2>1. wire'[j] \in PacketsOf(owed[i])
    BY <1>5
  <2> QED  BY <2>1, <1>3 DEF PacketsOf, Sent
<1>9. Tags' = Tags /\ Sent' = Sent /\ Len(cmds') = Len(cmds)
  BY <1>2 DEF Tags, Sent
<1>10. WireInv'
  BY <1>2, <1>4, <1>7, <1>8, <1>9 DEF CmdInv, WireInv
<1> QED  BY <1>1, <1>10 DEF CmdInv, StreamInv
-----------------------------------------------------------------------------
\* processRequests

\* The client's part of a command: one is appended, and the packets on their way stay.
SendsCommand(kind, corr) ==
    /\ ~streamClosed /\ Len(cmds) + 1 <= MaxCmds
    /\ session = (IF kind = "auth" THEN "auth" ELSE "ready") /\ MaySend(corr)
    /\ cmds' = Append(cmds, [kind |-> kind, corr |-> corr])
    /\ owed' = IF kind \in Silent THEN owed ELSE Append(owed, Len(cmds) + 1)
    /\ UNCHANGED <<cs, session, wire, streamClosed>>

LEMMA SendFacts ==
  ASSUME CmdInv, NEW kind \in cs.kinds \cup {"auth"}, NEW corr \in cs.ids, SendsCommand(kind, corr)
  PROVE  /\ Len(cmds) \in Nat /\ cmds' \in Seq(Commands) /\ Len(cmds') = Len(cmds) + 1
         /\ \A d \in Sent : cmds'[d] = cmds[d]
         /\ cmds'[Len(cmds) + 1].corr = corr /\ corr \in CorrelationIds
         /\ cmds'[Len(cmds) + 1].kind = kind
         /\ WireInv'
<1>1. cs \in CmdScopes /\ cmds \in Seq(Commands)
  BY DEF CmdInv, CmdType
<1>2. corr \in CorrelationIds /\ kind \in CmdKinds
  BY <1>1 DEF CorrelationIds, CmdKinds
<1> DEFINE n == [kind |-> kind, corr |-> corr]
<1>3. n \in Commands
  BY <1>2 DEF Commands
<1>4. n.kind = kind /\ n.corr = corr
  OBVIOUS
<1> HIDE DEF n
<1>5. cmds' = Append(cmds, n)
  BY DEF SendsCommand, n
<1>6. /\ Len(cmds) \in Nat /\ cmds' \in Seq(Commands) /\ Len(cmds') = Len(cmds) + 1
      /\ \A d \in Sent : cmds'[d] = cmds[d]
      /\ cmds'[Len(cmds) + 1] = n
  BY <1>1, <1>3, <1>5, AppendProperties DEF Sent
<1>7. WireInv'
  <2>1. owed' \in Seq(Sent')
    <3>1. Sent \subseteq Sent' /\ Len(cmds) + 1 \in Sent'
      BY <1>6 DEF Sent
    <3>2. owed \in Seq(Sent')
      BY <3>1, SeqMonotonic DEF CmdInv, WireInv
    <3>3. Append(owed, Len(cmds) + 1) \in Seq(Sent')
      BY <3>1, <3>2, AppendProperties
    <3> QED  BY <3>2, <3>3 DEF SendsCommand
  <2> DEFINE P == [t : Tags, n : Int, of : 0 .. Len(cmds)]
             Q == [t : Tags, n : Int, of : 0 .. Len(cmds')]
  <2>2. P \subseteq Q
    BY <1>6
  <2> HIDE DEF P, Q
  <2>3. wire' \in Seq(Q)
    BY <2>2, SeqMonotonic, Zenon DEF CmdInv, WireInv, SendsCommand, P
  <2>4. Tags' = Tags
    BY DEF SendsCommand, Tags
  <2> QED  BY <2>1, <2>3, <2>4 DEF CmdInv, WireInv, SendsCommand, Q
<1> QED  BY <1>2, <1>4, <1>6, <1>7

\* The parts of the type that a request changes.
LEMMA OpenedType ==
  ASSUME CmdInv, NEW kind \in cs.kinds \cup {"auth"}, NEW corr \in cs.ids, SendsCommand(kind, corr)
  PROVE  LET c == Len(cmds) + 1 IN
         /\ c \in 1 .. MaxCmds /\ plugin[c] = "none"
         /\ Opened(c) \in [1 .. MaxCmds -> {"none", "open", "down"}]
         /\ \A d \in 1 .. MaxCmds : d # c => Opened(c)[d] = plugin[d]
         /\ Opened(c)[c] # "down"
<1>1. Len(cmds) + 1 \in 1 .. MaxCmds /\ plugin[Len(cmds) + 1] = "none"
  BY SendFacts, CmdAssumption DEF CmdInv, CmdType, FreshInv, SendsCommand
<1> QED  BY <1>1 DEF CmdInv, CmdType, Opened

LEMMA KafkaRequestInv ==
  ASSUME CmdInv, NEW kind \in cs.kinds \cup {"auth"}, NEW corr \in cs.ids, SendsCommand(kind, corr),
         cs.proto = "kafka", KafkaRequest(Len(cmds) + 1)
  PROVE  CmdInv'
<1> DEFINE c == Len(cmds) + 1
<1>1. /\ Len(cmds) \in Nat /\ cmds' \in Seq(Commands) /\ Len(cmds') = c
      /\ \A d \in Sent : cmds'[d] = cmds[d]
      /\ cmds'[c].corr = corr /\ corr \in CorrelationIds /\ WireInv'
  BY SendFacts
<1>2. /\ c \in 1 .. MaxCmds
      /\ plugin' \in [1 .. MaxCmds -> {"none", "open", "down"}]
      /\ \A d \in 1 .. MaxCmds : d # c => plugin'[d] = plugin[d]
      /\ plugin'[c] # "down"
  BY OpenedType DEF KafkaRequest
<1>3. /\ pendingRequests' = [pendingRequests EXCEPT ![corr] = c]
      /\ UNCHANGED <<cs, pending, rset, streamClosed>>
  BY <1>1, Zenon DEF KafkaRequest, SendsCommand
<1>4. /\ pendingRequests \in [CorrelationIds -> 0 .. Len(cmds)] /\ pending = <<>> /\ rset.active = 0
      /\ rset' = rset /\ DOMAIN pending = {} /\ ~streamClosed
  BY <1>3 DEF CmdInv, CmdType, QueueInv, SetInv, SendsCommand
<1>5. /\ pendingRequests' \in [CorrelationIds -> 0 .. c] /\ pendingRequests'[corr] = c
      /\ \A id \in CorrelationIds : id # corr => pendingRequests'[id] = pendingRequests[id]
  BY <1>1, <1>3, <1>4
<1> HIDE DEF c
<1>6. CmdType'
  <2>1. /\ cs' \in CmdScopes /\ streamClosed' \in BOOLEAN /\ pending' \in Seq(Sent')
        /\ rset' = [phase |-> rset'.phase, active |-> rset'.active, left |-> rset'.left, of |-> rset'.of]
    BY <1>3, <1>4 DEF CmdInv, CmdType
  <2>2. rset'.active \in 0 .. Len(cmds')
    BY <1>1, <1>4 DEF c
  <2> QED  BY <1>1, <1>2, <1>5, <2>1, <2>2 DEF CmdType
<1>7. FreshInv'
  BY <1>1, <1>2 DEF CmdInv, FreshInv, c
<1>8. QueueInv' /\ SetInv'
  BY <1>3, <1>4 DEF CmdInv, QueueInv, SetInv, Members
<1>9. RequestInv'
  <2> SUFFICES ASSUME NEW id \in CorrelationIds, pendingRequests'[id] # 0
               PROVE  cmds'[pendingRequests'[id]].corr = id /\ plugin'[pendingRequests'[id]] # "down"
    BY <1>3 DEF CmdInv, RequestInv
  <2>1. CASE id = corr
    BY <2>1, <1>1, <1>2, <1>5
  <2>2. CASE id # corr
    <3>1. pendingRequests'[id] = pendingRequests[id] /\ pendingRequests[id] \in Sent
          /\ pendingRequests[id] # c /\ pendingRequests[id] \in 1 .. MaxCmds
      BY CmdAssumption, <2>2, <1>1, <1>2, <1>4, <1>5 DEF Sent, c
    <3>2. cmds[pendingRequests[id]].corr = id /\ plugin[pendingRequests[id]] # "down"
      BY <3>1, <1>4 DEF CmdInv, RequestInv
    <3> QED  BY <3>1, <3>2, <1>1, <1>2
  <2> QED  BY <2>1, <2>2
<1>10. OpenInv'
  <2> SUFFICES ASSUME NEW d \in 1 .. c, plugin'[d] = "open"
               PROVE  \/ \E id \in CorrelationIds : pendingRequests'[id] = d
                      \/ \E e \in 1 .. c : e > d /\ cmds'[e].corr = cmds'[d].corr
    BY <1>1, <1>3, <1>4 DEF OpenInv
  <2>1. CASE d = c
    BY <2>1, <1>1, <1>5
  <2>2. CASE d # c
    <3>1. d \in Sent /\ d < c /\ d \in 1 .. MaxCmds /\ d # 0
      BY CmdAssumption, <2>2, <1>1, <1>2 DEF Sent, c
    <3>2. plugin[d] = "open" /\ cmds'[d] = cmds[d]
      BY <2>2, <3>1, <1>1, <1>2
    <3>3. \/ \E id \in CorrelationIds : pendingRequests[id] = d
          \/ \E e \in 1 .. Len(cmds) : e > d /\ cmds[e].corr = cmds[d].corr
      BY <3>1, <3>2, <1>4, Zenon DEF CmdInv, OpenInv, Sent
    <3>4. CASE \E id \in CorrelationIds : pendingRequests[id] = d
      <4>1. PICK id \in CorrelationIds : pendingRequests[id] = d
        BY <3>4
      <4>2. cmds[d].corr = id
        BY <4>1, <3>1 DEF CmdInv, RequestInv
      <4>3. CASE id = corr
        BY <4>2, <4>3, <3>1, <3>2, <1>1, <1>2
      <4>4. CASE id # corr
        BY <4>1, <4>4, <1>5
      <4> QED  BY <4>3, <4>4
    <3>5. CASE \E e \in 1 .. Len(cmds) : e > d /\ cmds[e].corr = cmds[d].corr
      <4>1. PICK e \in 1 .. Len(cmds) : e > d /\ cmds[e].corr = cmds[d].corr
        BY <3>5
      <4>2. e \in 1 .. c /\ cmds'[e] = cmds[e]
        BY <4>1, <1>1 DEF Sent, c
      <4> QED  BY <4>1, <4>2, <3>2
    <3> QED  BY <3>3, <3>4, <3>5
  <2> QED  BY <2>1, <2>2
<1> QED  BY <1>1, <1>6, <1>7, <1>8, <1>9, <1>10 DEF CmdInv

\* A command joins the queue, which may have lost its oldest one: its plugin connection
\* may be opened, that of the oldest is torn down.
LEMMA EnqueueInv ==
  ASSUME CmdInv, NEW kind \in cs.kinds \cup {"auth"}, NEW corr \in cs.ids, SendsCommand(kind, corr),
         cs.proto # "kafka", UNCHANGED <<pendingRequests, rset>>,
         NEW made \in {plugin, Opened(Len(cmds) + 1)},
         \/ pending' = Append(pending, Len(cmds) + 1) /\ plugin' = made
         \/ /\ pending # <<>> /\ pending' = Append(Tail(pending), Len(cmds) + 1)
            /\ plugin' = [made EXCEPT ![Head(pending)] = TornDown(@)]
  PROVE  CmdInv'
<1> DEFINE c == Len(cmds) + 1
<1>1. /\ Len(cmds) \in Nat /\ cmds' \in Seq(Commands) /\ Len(cmds') = c
      /\ \A d \in Sent : cmds'[d] = cmds[d]
      /\ WireInv'
  BY SendFacts
<1>2. /\ c \in 1 .. MaxCmds /\ MaxCmds \in Nat
      /\ made \in [1 .. MaxCmds -> {"none", "open", "down"}]
      /\ \A d \in 1 .. MaxCmds : d # c => made[d] = plugin[d]
      /\ made[c] # "down"
  BY OpenedType, CmdAssumption, Zenon DEF CmdInv, CmdType
<1>3. /\ pending \in Seq(Sent) /\ rset' = rset /\ ~streamClosed /\ streamClosed' = streamClosed
      /\ cs' = cs /\ pendingRequests' = pendingRequests
      /\ rset.active \in 0 .. Len(cmds) /\ cs.proto # "kafka"
      /\ pendingRequests \in [CorrelationIds -> 0 .. Len(cmds)]
      /\ Injective(pending)
      /\ \A d \in Members(pending) : plugin[d] # "down"
  BY DEF CmdInv, CmdType, QueueInv, SendsCommand
<1>0. /\ Sent = 1 .. Len(cmds) /\ Sent' = 1 .. c /\ Sent' = Sent \cup {c} /\ c \notin Sent
      /\ Sent \subseteq 1 .. MaxCmds /\ Sent' \subseteq 1 .. MaxCmds
  BY <1>1, <1>2 DEF Sent
<1> HIDE DEF c
<1>11. Members(pending) \subseteq Sent
  BY <1>3 DEF Members
<1>4. /\ plugin' \in [1 .. MaxCmds -> {"none", "open", "down"}]
      /\ pending' \in Seq(Sent') /\ Injective(pending')
      /\ c \in Members(pending') /\ Members(pending') \subseteq Members(pending) \cup {c}
      /\ \A d \in Members(pending') : plugin'[d] # "down"
      /\ \A d \in 1 .. MaxCmds : d # c /\ d \notin Members(pending) => plugin'[d] = plugin[d]
      /\ \A d \in Members(pending) : plugin'[d] = "open" => d \in Members(pending')
  <2>1. CASE pending' = Append(pending, c) /\ plugin' = made
    <3>1. pending' \in Seq(Sent \cup {c}) /\ Members(pending') = Members(pending) \cup {c} /\ Injective(pending')
      BY <2>1, <1>0, <1>3, <1>11, AppendQueue, Zenon
    <3> QED  BY <2>1, <3>1, <1>0, <1>2, <1>3, <1>11, Zenon
  <2>2. CASE /\ pending # <<>> /\ pending' = Append(Tail(pending), c)
             /\ plugin' = [made EXCEPT ![Head(pending)] = TornDown(@)]
    <3>1. /\ Tail(pending) \in Seq(Sent) /\ Head(pending) \in Sent /\ Head(pending) \in Members(pending)
          /\ Members(Tail(pending)) = Members(pending) \ {Head(pending)} /\ Injective(Tail(pending))
      BY <2>2, <1>3, TailQueue
    <3>2. /\ pending' \in Seq(Sent \cup {c}) /\ Members(pending') = (Members(pending) \ {Head(pending)}) \cup {c}
          /\ Injective(pending')
      <4>1. c \notin Members(Tail(pending))
        BY <3>1, <1>0, <1>11
      <4>2. /\ Append(Tail(pending), c) \in Seq(Sent \cup {c})
            /\ Members(Append(Tail(pending), c)) = Members(Tail(pending)) \cup {c}
            /\ Injective(Append(Tail(pending), c))
        BY <3>1, <4>1, AppendQueue, Zenon
      <4> QED  BY <2>2, <3>1, <4>2
    <3>3. Head(pending) # c /\ Head(pending) \in 1 .. MaxCmds /\ made[Head(pending)] # "down"
      BY <3>1, <1>0, <1>2, <1>3
    <3>4. /\ plugin' \in [1 .. MaxCmds -> {"none", "open", "down"}]
          /\ plugin'[Head(pending)] # "open"
          /\ \A d \in 1 .. MaxCmds : d # Head(pending) => plugin'[d] = made[d]
      BY <2>2, <3>3, <1>2 DEF TornDown
    <3> QED  BY <3>1, <3>2, <3>3, <3>4, <1>0, <1>2, <1>3, <1>11, Zenon
  <2> QED  BY <2>1, <2>2 DEF c
<1>5. CmdType'
  <2>1. /\ cs' \in CmdScopes /\ streamClosed' \in BOOLEAN
        /\ rset' = [phase |-> rset'.phase, active |-> rset'.active, left |-> rset'.left, of |-> rset'.of]
    BY <1>3 DEF CmdInv, CmdType
  <2>2. rset'.active \in 0 .. Len(cmds') /\ pendingRequests' \in [CorrelationIds -> 0 .. Len(cmds')]
    BY <1>1, <1>3 DEF c
  <2> QED  BY <1>1, <1>2, <1>4, <2>1, <2>2 DEF CmdType
<1>6. FreshInv'
  BY <1>0, <1>1, <1>2, <1>4, <1>11 DEF CmdInv, FreshInv, c
<1>7. QueueInv'
  BY <1>3, <1>4 DEF QueueInv
<1>8. RequestInv'
  BY <1>3 DEF CmdInv, RequestInv
<1>9. SetInv'
  <2>1. rset.active # 0 => rset.active \in 1 .. MaxCmds /\ rset.active # c
    BY <1>0, <1>1, <1>3
  <2> QED  BY <2>1, <1>3, <1>4 DEF CmdInv, SetInv
<1>10. OpenInv'
  <2> SUFFICES ASSUME NEW d \in 1 .. c, plugin'[d] = "open"
               PROVE  d \in Members(pending') \/ d = rset'.active
    BY <1>1, <1>3 DEF OpenInv
  <2>1. CASE d = c
    BY <2>1, <1>4
  <2>2. CASE d \in Members(pending)
    BY <2>2, <1>4
  <2>3. CASE d # c /\ d \notin Members(pending)
    <3>1. d \in Sent /\ plugin[d] = "open"
      BY <2>3, <1>0, <1>4
    <3> QED  BY <2>3, <3>1, <1>0, <1>3 DEF CmdInv, OpenInv
  <2> QED  BY <2>1, <2>2, <2>3
<1> QED  BY <1>1, <1>5, <1>6, <1>7, <1>8, <1>9, <1>10 DEF CmdInv

\* A command that the stream does not take.
LEMMA IgnoredInv ==
  ASSUME CmdInv, NEW kind \in cs.kinds \cup {"auth"}, NEW corr \in cs.ids, SendsCommand(kind, corr),
         cs.proto # "kafka", UNCHANGED <<pending, pendingRequests, rset, plugin>>
  PROVE  CmdInv'
<1> DEFINE c == Len(cmds) + 1
<1>1. /\ Len(cmds) \in Nat /\ cmds' \in Seq(Commands) /\ Len(cmds') = c
      /\ \A d \in Sent : cmds'[d] = cmds[d]
      /\ WireInv'
  BY SendFacts
<1>2. c \in 1 .. MaxCmds /\ plugin[c] = "none"
  BY OpenedType
<1>3. /\ pending \in Seq(Sent) /\ rset' = rset /\ streamClosed' = streamClosed /\ pending' = pending
      /\ cs' = cs /\ pendingRequests' = pendingRequests /\ plugin' = plugin
      /\ rset.active \in 0 .. Len(cmds) /\ cs.proto # "kafka"
      /\ pendingRequests \in [CorrelationIds -> 0 .. Len(cmds)]
  BY DEF CmdInv, CmdType, SendsCommand
<1>4. CmdType'
  <2>1. /\ cs' \in CmdScopes /\ streamClosed' \in BOOLEAN
        /\ plugin' \in [1 .. MaxCmds -> {"none", "open", "down"}]
        /\ rset' = [phase |-> rset'.phase, active |-> rset'.active, left |-> rset'.left, of |-> rset'.of]
    BY <1>3 DEF CmdInv, CmdType
  <2>2. rset'.active \in 0 .. Len(cmds') /\ pendingRequests' \in [CorrelationIds -> 0 .. Len(cmds')]
    BY <1>1, <1>3
  <2>3. Sent \subseteq Sent' /\ Len(cmds') <= MaxCmds
    BY <1>1, <1>2, CmdAssumption DEF Sent
  <2>4. pending' \in Seq(Sent')
    BY <2>3, <1>3, SeqMonotonic
  <2> QED  BY <1>1, <2>1, <2>2, <2>3, <2>4 DEF CmdType
<1>5. FreshInv'
  BY <1>1, <1>3 DEF CmdInv, FreshInv
<1>6. QueueInv' /\ SetInv'
  BY <1>3 DEF CmdInv, QueueInv, SetInv
<1>7. RequestInv'
  BY <1>3 DEF CmdInv, RequestInv
<1>8. OpenInv'
  <2> SUFFICES ASSUME NEW d \in 1 .. c, plugin[d] = "open"
               PROVE  (~streamClosed /\ d \in Members(pending)) \/ d = rset.active
    BY <1>1, <1>3 DEF OpenInv
  <2>1. d \in 1 .. Len(cmds)
    BY <1>1, <1>2
  <2> QED  BY <2>1, <1>3 DEF CmdInv, OpenInv
<1> QED  BY <1>1, <1>4, <1>5, <1>6, <1>7, <1>8 DEF CmdInv

LEMMA ClientSendsPick ==
  ASSUME ClientSends
  PROVE  \E kind \in cs.kinds \cup {"auth"}, corr \in cs.ids :
           /\ SendsCommand(kind, corr)
           /\ \/ cs.proto = "redis" /\ RedisRequest(Len(cmds) + 1)
              \/ cs.proto = "kafka" /\ KafkaRequest(Len(cmds) + 1)
              \/ cs.proto = "mysql" /\ MySQLRequest(Len(cmds) + 1)
BY Zenon DEF ClientSends, SendsCommand

LEMMA ClientSendsInv ==
  ASSUME CmdInv, ClientSends
  PROVE  CmdInv'
<1>1. PICK kind \in cs.kinds \cup {"auth"}, corr \in cs.ids :
        /\ SendsCommand(kind, corr)
        /\ \/ cs.proto = "redis" /\ RedisRequest(Len(cmds) + 1)
           \/ cs.proto = "kafka" /\ KafkaRequest(Len(cmds) + 1)
           \/ cs.proto = "mysql" /\ MySQLRequest(Len(cmds) + 1)
  BY ClientSendsPick
<1>2. SendsCommand(kind, corr)
  BY <1>1
<1>3. CASE cs.proto = "redis" /\ RedisRequest(Len(cmds) + 1)
  <2>1. UNCHANGED <<pendingRequests, rset>>
    BY <1>3 DEF RedisRequest
  <2>2. CASE UNCHANGED <<pending, plugin>>
    BY <1>2, <1>3, <2>1, <2>2, IgnoredInv
  <2>3. CASE pending' = Append(pending, Len(cmds) + 1) /\ plugin' = Opened(Len(cmds) + 1)
    BY <1>2, <1>3, <2>1, <2>3, EnqueueInv
  <2> QED  BY <1>3, <2>2, <2>3 DEF RedisRequest
<1>4. CASE cs.proto = "kafka" /\ KafkaRequest(Len(cmds) + 1)
  BY <1>2, <1>4, KafkaRequestInv
<1>5. CASE cs.proto = "mysql" /\ MySQLRequest(Len(cmds) + 1)
  <2> DEFINE c == Len(cmds) + 1
             full == Len(pending) >= maxPendingCommands
             made == IF cmds'[c].kind \in {"query", "prepare"} THEN Opened(c) ELSE plugin
  <2>1. UNCHANGED <<pendingRequests, rset>>
    BY <1>5 DEF MySQLRequest
  <2>2. CASE ~handshakeComplete
    <3>1. UNCHANGED <<pending, plugin>>
      BY <1>5, <2>2 DEF MySQLRequest
    <3> QED  BY <1>2, <1>5, <2>1, <3>1, IgnoredInv
  <2>3. CASE handshakeComplete
    <3>1. /\ pending' = Append(IF full THEN Tail(pending) ELSE pending, c)
          /\ plugin' = IF full THEN Dropped(made, Head(pending)) ELSE made
      BY <1>5, <2>3 DEF MySQLRequest
    <3>2. made \in {plugin, Opened(c)}
      OBVIOUS
    <3>3. full => pending # <<>>
      BY CmdAssumption
    <3> HIDE DEF made
    <3>4. CASE full
      <4>1. /\ pending # <<>> /\ pending' = Append(Tail(pending), Len(cmds) + 1)
            /\ plugin' = [made EXCEPT ![Head(pending)] = TornDown(@)]
        BY <3>1, <3>3, <3>4 DEF Dropped, Torn
      <4> QED  BY <1>2, <1>5, <2>1, <3>2, <4>1, EnqueueInv, Zenon
    <3>5. CASE ~full
      <4>1. pending' = Append(pending, Len(cmds) + 1) /\ plugin' = made
        BY <3>1, <3>5
      <4> QED  BY <1>2, <1>5, <2>1, <3>2, <4>1, EnqueueInv
    <3> QED  BY <3>4, <3>5
  <2> QED  BY <2>2, <2>3
<1> QED  BY <1>1, <1>3, <1>4, <1>5
-----------------------------------------------------------------------------
\* processResponses

\* The server's part of a packet.
TakesPacket ==
    /\ ~streamClosed /\ wire # <<>> /\ wire' = Tail(wire)
    /\ UNCHANGED <<cs, session, cmds, owed, streamClosed>>

LEMMA PacketFacts ==
  ASSUME CmdInv, TakesPacket
  PROVE  /\ Head(wire).of \in 0 .. Len(cmds)
         /\ cs.proto # "mysql" => Head(wire).of # 0
         /\ WireInv'
<1> DEFINE P == [t : Tags, n : Int, of : 0 .. Len(cmds)]
<1>1. wire \in Seq(P) /\ wire # <<>>
  BY DEF CmdInv, WireInv, TakesPacket
<1> HIDE DEF P
<1>2. /\ Head(wire) \in P /\ Head(wire) = wire[1] /\ 1 \in DOMAIN wire /\ wire' \in Seq(P)
      /\ \A i \in DOMAIN wire' : i + 1 \in DOMAIN wire /\ wire'[i] = wire[i + 1]
  BY <1>1 DEF TakesPacket
<1>3. Tags' = Tags /\ Sent' = Sent /\ Len(cmds') = Len(cmds)
  BY DEF TakesPacket, Tags, Sent
<1>4. cs.proto # "mysql" => \A i \in DOMAIN wire' : wire'[i].of # 0
  BY <1>2, Zenon DEF CmdInv, WireInv
<1>5. WireInv'
  BY <1>2, <1>3, <1>4 DEF CmdInv, WireInv, TakesPacket, P
<1>6. Head(wire).of \in 0 .. Len(cmds)
  BY <1>2 DEF P
<1> QED  BY <1>2, <1>5, <1>6 DEF CmdInv, WireInv

LEMMA KafkaResponseInv ==
  ASSUME CmdInv, TakesPacket, cs.proto = "kafka", KafkaResponse(Head(wire))
  PROVE  CmdInv'
<1> DEFINE id == cmds[Head(wire).of].corr
           c == pendingRequests[id]
<1>1. /\ Head(wire).of \in Sent /\ WireInv' /\ Len(cmds) \in Nat /\ MaxCmds \in Nat
  BY PacketFacts, CmdAssumption DEF CmdInv, CmdType, Sent
<1>2. id \in CorrelationIds
  <2>1. cmds[Head(wire).of] \in Commands
    BY <1>1 DEF CmdInv, CmdType, Sent
  <2> QED  BY <2>1 DEF Commands
<1>3. /\ c \in 0 .. Len(cmds) /\ pending = <<>> /\ rset.active = 0 /\ Members(pending) = {}
      /\ pendingRequests \in [CorrelationIds -> 0 .. Len(cmds)]
      /\ plugin \in [1 .. MaxCmds -> {"none", "open", "down"}]
      /\ ~streamClosed /\ Len(cmds) <= MaxCmds
      /\ UNCHANGED <<cs, cmds, streamClosed, pending, rset>>
  BY <1>2 DEF CmdInv, CmdType, QueueInv, SetInv, TakesPacket, KafkaResponse, Members
<1>4. CASE c = 0
  <2>1. UNCHANGED <<pendingRequests, plugin>>
    BY <1>4, Zenon DEF KafkaResponse
  <2>2. CmdType' /\ FreshInv' /\ QueueInv' /\ RequestInv' /\ SetInv' /\ OpenInv'
    BY <2>1, <1>3 DEF CmdInv, CmdType, FreshInv, QueueInv, RequestInv, SetInv, OpenInv, Sent
  <2> QED  BY <2>2, <1>1 DEF CmdInv
<1>5. CASE c # 0
  <2>1. pendingRequests' = [pendingRequests EXCEPT ![id] = 0] /\ plugin' = [plugin EXCEPT ![c] = TornDown(@)]
    BY <1>5, Zenon DEF KafkaResponse, Complete, Torn
  <2>2. c \in 1 .. MaxCmds /\ plugin[c] # "down" /\ cmds[c].corr = id
    BY <1>1, <1>2, <1>3, <1>5 DEF CmdInv, RequestInv
  <2>3. \A k \in CorrelationIds : pendingRequests[k] = c => k = id
    BY <2>2, <1>2, <1>5 DEF CmdInv, RequestInv
  <2> HIDE DEF id, c
  <2>4. /\ plugin' \in [1 .. MaxCmds -> {"none", "open", "down"}]
        /\ plugin'[c] # "open" /\ \A d \in 1 .. MaxCmds : d # c => plugin'[d] = plugin[d]
        /\ plugin[c] = "none" => plugin'[c] = "none"
    BY <2>1, <2>2, <1>3 DEF TornDown
  <2>5. /\ pendingRequests' \in [CorrelationIds -> 0 .. Len(cmds)] /\ pendingRequests'[id] = 0
        /\ \A k \in CorrelationIds : k # id => pendingRequests'[k] = pendingRequests[k]
    BY <2>1, <1>1, <1>2, <1>3
  <2>6. CmdType'
    BY <2>4, <2>5, <1>3 DEF CmdInv, CmdType, Sent
  <2>7. FreshInv'
    BY <2>4, <1>3, <2>2 DEF CmdInv, FreshInv
  <2>8. QueueInv' /\ SetInv'
    BY <1>3 DEF CmdInv, QueueInv, SetInv
  <2>9. RequestInv'
    <3> SUFFICES ASSUME NEW k \in CorrelationIds, pendingRequests'[k] # 0
                 PROVE  cmds[pendingRequests'[k]].corr = k /\ plugin'[pendingRequests'[k]] # "down"
      BY <1>3 DEF CmdInv, RequestInv
    <3>1. k # id /\ pendingRequests'[k] = pendingRequests[k] /\ pendingRequests[k] # c
      BY <2>3, <2>5
    <3>2. pendingRequests[k] \in 1 .. MaxCmds
      BY <3>1, <1>1, <1>3
    <3> QED  BY <3>1, <3>2, <2>4, <1>3 DEF CmdInv, RequestInv
  <2>10. OpenInv'
    <3> SUFFICES ASSUME NEW d \in 1 .. Len(cmds), plugin'[d] = "open"
                 PROVE  \/ \E k \in CorrelationIds : pendingRequests'[k] = d
                        \/ \E e \in 1 .. Len(cmds) : e > d /\ cmds[e].corr = cmds[d].corr
      BY <1>3 DEF OpenInv
    <3>1. d # c /\ d \in 1 .. MaxCmds /\ d # 0
      BY <2>4, <1>1, <1>3
    <3>2. plugin[d] = "open"
      BY <2>4, <3>1
    <3>3. \/ \E k \in CorrelationIds : pendingRequests[k] = d
          \/ \E e \in 1 .. Len(cmds) : e > d /\ cmds[e].corr = cmds[d].corr
      BY <3>1, <3>2, <1>3 DEF CmdInv, OpenInv
    <3>4. \A k \in CorrelationIds : pendingRequests[k] = d => pendingRequests'[k] = d
      BY <2>5, <3>1, Zenon DEF c
    <3> QED  BY <3>3, <3>4
  <2> QED  BY <2>6, <2>7, <2>8, <2>9, <2>10, <1>1 DEF CmdInv
<1> QED  BY <1>4, <1>5

\* A response to a command of the queue.  The oldest command leaves it and is completed,
\* or begins a result set; or the command of the result set is completed, or goes on.
QueueStep ==
    \/ pending # <<>> /\ pending' = Tail(pending) /\ plugin' = Torn(plugin, Head(pending)) /\ rset' = rset
    \/ /\ pending # <<>> /\ pending' = Tail(pending) /\ plugin' = plugin
       /\ cs.proto = "mysql" /\ rset.phase = "none" /\ rset'.phase # "none" /\ rset'.active = Head(pending)
    \/ rset.active # 0 /\ pending' = pending /\ plugin' = Torn(plugin, rset.active) /\ rset' = NoSet
    \/ /\ pending' = pending /\ plugin' = plugin
       /\ rset'.active = rset.active /\ (rset'.phase # "none" <=> rset.phase # "none")

LEMMA QueueStepInv ==
  ASSUME CmdInv, TakesPacket, cs.proto # "kafka", pendingRequests' = pendingRequests, QueueStep,
         rset' = [phase |-> rset'.phase, active |-> rset'.active, left |-> rset'.left, of |-> rset'.of]
  PROVE  CmdInv'
<1>1. /\ UNCHANGED <<cs, cmds, streamClosed, pendingRequests>> /\ ~streamClosed
      /\ WireInv' /\ Len(cmds) \in Nat /\ MaxCmds \in Nat /\ Len(cmds) <= MaxCmds
      /\ pending \in Seq(Sent) /\ Injective(pending)
      /\ plugin \in [1 .. MaxCmds -> {"none", "open", "down"}]
      /\ rset.active \in 0 .. Len(cmds) /\ rset.active \notin Members(pending)
      /\ \A c \in Members(pending) : plugin[c] # "down"
  <2>1. Members(pending) \subseteq Sent /\ 0 \notin Sent
    BY DEF CmdInv, CmdType, Members, Sent
  <2> QED  BY <2>1, PacketFacts, CmdAssumption DEF CmdInv, CmdType, QueueInv, SetInv, TakesPacket
<1>2. Sent = 1 .. Len(cmds) /\ Sent \subseteq 1 .. MaxCmds /\ Members(pending) \subseteq Sent
  BY <1>1 DEF Sent, Members
<1>3. ASSUME NEW c \in 1 .. MaxCmds, plugin[c] # "down", plugin' = Torn(plugin, c)
      PROVE  /\ plugin' \in [1 .. MaxCmds -> {"none", "open", "down"}]
             /\ plugin'[c] # "open" /\ (plugin[c] = "none" => plugin'[c] = "none")
             /\ \A d \in 1 .. MaxCmds : d # c => plugin'[d] = plugin[d]
  BY <1>1, <1>3 DEF Torn, TornDown
<1>4. ASSUME pending # <<>>, pending' = Tail(pending)
      PROVE  /\ pending' \in Seq(Sent) /\ Head(pending) \in Sent /\ Head(pending) \in Members(pending)
             /\ Members(pending') = Members(pending) \ {Head(pending)} /\ Injective(pending')
  BY <1>1, <1>4, TailQueue
\* What is needed of the new state.
<1>5. SUFFICES
        /\ plugin' \in [1 .. MaxCmds -> {"none", "open", "down"}]
        /\ \A d \in 1 .. MaxCmds : plugin[d] = "none" => plugin'[d] = "none"
        /\ pending' \in Seq(Sent) /\ Injective(pending')
        /\ \A d \in Members(pending') : plugin'[d] # "down"
        /\ rset'.active \in 0 .. Len(cmds)
        /\ SetInv'
        /\ \A d \in Sent : plugin'[d] = "open" =>
             /\ plugin[d] = "open"
             /\ (d \in Members(pending) \/ d = rset.active => d \in Members(pending') \/ d = rset'.active)
  <2>1. CmdType'
    BY <1>1, <1>5 DEF CmdInv, CmdType, Sent
  <2>2. FreshInv'
    BY <1>1, <1>5 DEF CmdInv, FreshInv
  <2>3. QueueInv' /\ RequestInv'
    BY <1>1, <1>5 DEF CmdInv, QueueInv, RequestInv
  <2>4. OpenInv'
    <3> SUFFICES ASSUME NEW d \in Sent, plugin'[d] = "open"
                 PROVE  d \in Members(pending') \/ d = rset'.active
      BY <1>1, <1>2 DEF OpenInv
    <3> QED  BY <1>1, <1>2, <1>5 DEF CmdInv, OpenInv
  <2> QED  BY <2>1, <2>2, <2>3, <2>4, <1>1, <1>5 DEF CmdInv
<1>6. CASE pending # <<>> /\ pending' = Tail(pending) /\ plugin' = Torn(plugin, Head(pending)) /\ rset' = rset
  <2>1. Head(pending) \in 1 .. MaxCmds /\ plugin[Head(pending)] # "down" /\ Head(pending) # rset.active
    BY <1>1, <1>2, <1>4, <1>6, Zenon
  <2>2. SetInv'
    <3>1. rset.active # 0 => rset.active \in 1 .. MaxCmds
      BY <1>1
    <3> QED  BY <3>1, <2>1, <1>1, <1>3, <1>4, <1>6 DEF CmdInv, SetInv
  <2> QED  BY <2>1, <2>2, <1>1, <1>2, <1>3, <1>4, <1>6
<1>7. CASE /\ pending # <<>> /\ pending' = Tail(pending) /\ plugin' = plugin
           /\ cs.proto = "mysql" /\ rset.phase = "none" /\ rset'.phase # "none" /\ rset'.active = Head(pending)
  <2>1. rset.active = 0 /\ Head(pending) \in 0 .. Len(cmds) /\ Head(pending) # 0
    BY <1>2, <1>4, <1>7 DEF CmdInv, SetInv
  <2>2. SetInv'
    BY <2>1, <1>1, <1>4, <1>7 DEF SetInv
  <2>3. 0 \notin Sent
    BY <1>2
  <2> QED  BY <2>1, <2>2, <2>3, <1>1, <1>2, <1>4, <1>7
<1>8. CASE rset.active # 0 /\ pending' = pending /\ plugin' = Torn(plugin, rset.active) /\ rset' = NoSet
  <2>1. rset.active \in 1 .. MaxCmds /\ plugin[rset.active] # "down"
    BY <1>1, <1>8 DEF CmdInv, SetInv
  <2>2. rset'.active = 0 /\ rset'.phase = "none"
    BY <1>8 DEF NoSet
  <2>3. SetInv'
    BY <2>2 DEF SetInv
  <2>4. \A d \in Members(pending') : plugin'[d] # "down"
    BY <2>1, <1>1, <1>2, <1>3, <1>8
  <2> QED  BY <2>1, <2>2, <2>3, <2>4, <1>1, <1>2, <1>3, <1>8
<1>9. CASE /\ pending' = pending /\ plugin' = plugin
           /\ rset'.active = rset.active /\ (rset'.phase # "none" <=> rset.phase # "none")
  <2>1. SetInv'
    BY <1>1, <1>9 DEF CmdInv, SetInv
  <2> QED  BY <2>1, <1>1, <1>2, <1>9
<1> QED  BY <1>6, <1>7, <1>8, <1>9 DEF QueueStep

LEMMA RsetKept ==
  ASSUME CmdInv, NEW phase, NEW left, NEW p, InSet(phase, left, p)
  PROVE  /\ rset'.active = rset.active /\ rset'.phase = phase /\ plugin' = plugin
         /\ rset' = [phase |-> rset'.phase, active |-> rset'.active, left |-> rset'.left, of |-> rset'.of]
<1>1. rset = [phase |-> rset.phase, active |-> rset.active, left |-> rset.left, of |-> rset.of]
  BY DEF CmdInv, CmdType
<1>2. rset' = [phase |-> phase, active |-> rset.active, left |-> left, of |-> rset.of \cup {p.of}]
  BY <1>1, Zenon DEF InSet
<1> QED  BY <1>2, Zenon DEF InSet

LEMMA SetStep ==
  ASSUME CmdInv, NEW p, processResultSetPacket(p), rset.phase # "none"
  PROVE  /\ QueueStep
         /\ rset' = [phase |-> rset'.phase, active |-> rset'.active, left |-> rset'.left, of |-> rset'.of]
<1>1. rset.active # 0 /\ pending' = pending
  BY DEF CmdInv, SetInv, processResultSetPacket
<1>2. ASSUME finishResultSet(p)  PROVE QueueStep /\ rset' = NoSet
  BY <1>1, <1>2 DEF finishResultSet, Complete, QueueStep
<1>3. ASSUME NEW phase \in {"columnDefs", "columnsEOF", "rows"}, NEW left, InSet(phase, left, p)
      PROVE  /\ QueueStep
             /\ rset' = [phase |-> rset'.phase, active |-> rset'.active, left |-> rset'.left, of |-> rset'.of]
  <2>1. /\ rset'.active = rset.active /\ rset'.phase # "none" /\ plugin' = plugin
        /\ rset' = [phase |-> rset'.phase, active |-> rset'.active, left |-> rset'.left, of |-> rset'.of]
    BY <1>3, RsetKept
  <2> QED  BY <2>1, <1>1 DEF QueueStep
<1>4. finishResultSet(p) \/ \E phase \in {"columnDefs", "columnsEOF", "rows"} : \E left : InSet(phase, left, p)
  <2>1. ASSUME phaseRows(p)
        PROVE  finishResultSet(p) \/ \E phase \in {"columnDefs", "columnsEOF", "rows"} : \E left : InSet(phase, left, p)
    BY <2>1, Zenon DEF phaseRows
  <2>2. CASE phaseColumnDefs(p)
    <3>1. \/ InSet("rows", 0, p) \/ finishResultSet(p)
          \/ InSet("columnsEOF", rset.left - 1, p) \/ InSet("columnDefs", rset.left - 1, p)
      BY <2>2, Zenon DEF phaseColumnDefs
    <3> QED  BY <3>1, Zenon
  <2>3. CASE phaseColumnsEOF(p)
    <3>1. InSet("rows", 0, p) \/ phaseRows(p)
      BY <2>3, Zenon DEF phaseColumnsEOF
    <3> QED  BY <2>1, <3>1, Zenon
  <2>4. CASE phaseRows(p)
    BY <2>1, <2>4
  <2> QED  BY <2>2, <2>3, <2>4 DEF processResultSetPacket
<1>5. NoSet = [phase |-> NoSet.phase, active |-> NoSet.active, left |-> NoSet.left, of |-> NoSet.of]
  BY DEF NoSet
<1>6. CASE finishResultSet(p)
  BY <1>2, <1>5, <1>6
<1>7. CASE \E phase \in {"columnDefs", "columnsEOF", "rows"} : \E left : InSet(phase, left, p)
  BY <1>3, <1>7
<1> QED  BY <1>4, <1>6, <1>7

LEMMA ServerSendsInv ==
  ASSUME CmdInv, ServerSends
  PROVE  CmdInv'
<1> DEFINE p == Head(wire)
           Rec(r) == r = [phase |-> r.phase, active |-> r.active, left |-> r.left, of |-> r.of]
<1>1. TakesPacket
  BY DEF ServerSends, TakesPacket
<1>2. CASE cs.proto = "kafka" /\ KafkaResponse(p)
  BY <1>1, <1>2, KafkaResponseInv
<1>3. CASE cs.proto = "redis" /\ RedisResponse(p)
  <2>1. rset' = rset /\ pendingRequests' = pendingRequests /\ Rec(rset')
    BY <1>3 DEF RedisResponse, CmdInv, CmdType
  <2>2. QueueStep
    BY <1>3, <2>1 DEF RedisResponse, Complete, QueueStep
  <2> QED  BY <1>1, <1>3, <2>1, <2>2, QueueStepInv
<1>4. CASE cs.proto = "mysql" /\ MySQLResponse(p)
  <2>1. pendingRequests' = pendingRequests
    BY <1>4 DEF MySQLResponse
  <2>2. QueueStep /\ Rec(rset')
    <3>1. CASE rset.phase # "none"
      <4>1. processResultSetPacket(p)
        BY <1>4, <3>1 DEF MySQLResponse
      <4> QED  BY <3>1, <4>1, SetStep
    <3>2. CASE rset.phase = "none" /\ pending = <<>>
      <4>1. UNCHANGED <<pending, rset, plugin>>
        BY <1>4, <3>2 DEF MySQLResponse, Uncorrelated
      <4> QED  BY <4>1 DEF QueueStep, CmdInv, CmdType
    <3>3. CASE rset.phase = "none" /\ pending # <<>>
      <4>1. Correlated(p)
        BY <1>4, <3>3 DEF MySQLResponse
      <4>2. CASE p.t \in {"ok", "err", "eof", "fe9", "switch"}
        <5>1. pending' = Tail(pending) /\ rset' = rset /\ plugin' = Torn(plugin, Head(pending))
          BY <4>1, <4>2 DEF Correlated, Complete
        <5> QED  BY <5>1, <3>3 DEF QueueStep, CmdInv, CmdType
      <4>3. CASE p.t \notin {"ok", "err", "eof", "fe9", "switch"}
        <5>1. /\ pending' = Tail(pending) /\ plugin' = plugin
              /\ rset' = [phase |-> "columnDefs", active |-> Head(pending), left |-> p.n, of |-> {p.of}]
          BY <4>1, <4>3 DEF Correlated
        <5>2. rset'.phase # "none" /\ rset'.active = Head(pending) /\ Rec(rset')
          BY <5>1
        <5> QED  BY <5>1, <5>2, <3>3, <1>4, Zenon DEF QueueStep
      <4> QED  BY <4>2, <4>3
    <3> QED  BY <3>1, <3>2, <3>3
  <2> QED  BY <1>1, <1>4, <2>1, <2>2, QueueStepInv
<1> QED  BY <1>2, <1>3, <1>4 DEF ServerSends
-----------------------------------------------------------------------------
\* Close

\* A command is held in one place, so that the loop of Close reaches it once.
LEMMA HeldOnce ==
  ASSUME CmdInv, NEW c \in 1 .. MaxCmds
  PROVE  /\ \A i, j \in Holders(c) : i = j
         /\ cs.proto # "kafka" => (Holders(c) # {} <=> c \in Members(pending))
         /\ cs.proto = "kafka" => (Holders(c) # {} <=> \E id \in CorrelationIds : pendingRequests[id] = c)
         /\ Holders(c) # {} /\ ~streamClosed => plugin[c] # "down"
         /\ rset.active = c => Holders(c) = {}
<1>1. c # 0
  BY CmdAssumption
<1>2. CASE cs.proto = "kafka"
  <2>1. Holders(c) = {id \in CorrelationIds : pendingRequests[id] = c}
    BY <1>2 DEF Holders, CmdInv, CmdType
  <2>2. \A id \in Holders(c) : cmds[c].corr = id /\ (~streamClosed => plugin[c] # "down")
    BY <1>1, <2>1 DEF CmdInv, RequestInv
  <2>3. rset.active = 0
    BY <1>2 DEF CmdInv, SetInv
  <2> QED  BY <1>1, <1>2, <2>1, <2>2, <2>3
<1>3. CASE cs.proto # "kafka"
  <2>1. Holders(c) = {i \in DOMAIN pending : pending[i] = c}
    BY <1>3 DEF Holders
  <2>2. Holders(c) # {} <=> c \in Members(pending)
    BY <2>1 DEF Members
  <2>3. \A i, j \in Holders(c) : i = j
    BY <2>1 DEF CmdInv, QueueInv, Injective
  <2>4. c \in Members(pending) /\ ~streamClosed => plugin[c] # "down"
    BY DEF CmdInv, QueueInv
  <2>5. rset.active = c => c \notin Members(pending)
    BY <1>1 DEF CmdInv, SetInv
  <2> QED  BY <1>3, <2>2, <2>3, <2>4, <2>5
<1> QED  BY <1>2, <1>3

LEMMA CloseStreamInv ==
  ASSUME CmdInv, CloseStream
  PROVE  CmdInv'
<1>1. /\ ~streamClosed /\ streamClosed' = TRUE
      /\ plugin' = [c \in 1 .. MaxCmds |-> Released(c)]
      /\ pending' \in {pending, <<>>}
      /\ UNCHANGED <<cs, session, cmds, owed, wire, pendingRequests, rset>>
      /\ plugin \in [1 .. MaxCmds -> {"none", "open", "down"}]
      /\ Len(cmds) \in Nat /\ MaxCmds \in Nat /\ Len(cmds) <= MaxCmds
  BY CmdAssumption DEF CmdInv, CmdType, CloseStream, clientVars
<1>2. ASSUME NEW c \in 1 .. MaxCmds
      PROVE  /\ plugin'[c] \in {"none", "open", "down"}
             /\ Holders(c) = {} => plugin'[c] = plugin[c]
             /\ Holders(c) # {} => plugin'[c] # "open"
             /\ plugin[c] = "none" => plugin'[c] = "none"
  <2>1. plugin'[c] = Released(c) /\ plugin[c] \in {"none", "open", "down"}
    BY <1>1
  <2>2. CASE Holders(c) = {}
    BY <2>1, <2>2 DEF Released
  <2>3. CASE Holders(c) # {}
    <3>1. plugin'[c] = TornDown(plugin[c]) /\ plugin[c] # "down"
      BY <2>1, <2>3, <1>1, HeldOnce DEF Released
    <3> QED  BY <2>1, <2>3, <3>1 DEF TornDown
  <2> QED  BY <2>2, <2>3
<1>3. plugin' \in [1 .. MaxCmds -> {"none", "open", "down"}]
  BY <1>1, <1>2
<1>4. /\ pending' \in Seq(Sent) /\ Injective(pending') /\ Members(pending') \subseteq Members(pending)
      /\ Members(pending) \subseteq Sent
      /\ cs.proto = "kafka" => pending' = <<>>
  <2>1. pending \in Seq(Sent) /\ Injective(pending) /\ (cs.proto = "kafka" => pending = <<>>)
    BY DEF CmdInv, CmdType, QueueInv
  <2>2. Members(pending) \subseteq Sent
    BY <2>1 DEF Members
  <2>3. CASE pending' = <<>>
    BY <2>2, <2>3 DEF Injective, Members
  <2>4. CASE pending' = pending
    BY <2>1, <2>2, <2>4
  <2> QED  BY <1>1, <2>3, <2>4
<1>5. CmdType'
  BY <1>1, <1>3, <1>4 DEF CmdInv, CmdType, Sent
<1>6. WireInv'
  BY <1>1 DEF CmdInv, WireInv, Tags, Sent
<1>7. FreshInv'
  BY <1>1, <1>2 DEF CmdInv, FreshInv
<1>8. QueueInv' /\ RequestInv'
  BY <1>1, <1>4 DEF CmdInv, QueueInv, RequestInv
<1>9. SetInv'
  <2>1. ASSUME rset.active # 0
        PROVE  plugin'[rset.active] # "down" /\ rset.active \notin Members(pending')
    <3>1. rset.active \in 1 .. MaxCmds
      BY <1>1, <2>1 DEF CmdInv, CmdType
    <3>2. Holders(rset.active) = {}
      BY <3>1, HeldOnce
    <3> QED  BY <2>1, <3>1, <3>2, <1>2, <1>4 DEF CmdInv, SetInv
  <2> QED  BY <2>1, <1>1 DEF CmdInv, SetInv
<1>10. OpenInv'
  <2> SUFFICES ASSUME NEW c \in 1 .. Len(cmds), plugin'[c] = "open"
               PROVE  \/ c = rset.active
                      \/ cs.proto = "kafka" /\ \E d \in 1 .. Len(cmds) : d > c /\ cmds[d].corr = cmds[c].corr
    BY <1>1, Zenon DEF OpenInv
  <2>1. c \in 1 .. MaxCmds
    BY <1>1
  <2>2. Holders(c) = {} /\ plugin[c] = "open"
    BY <2>1, <1>2
  <2>3. cs.proto # "kafka" => c \notin Members(pending)
    BY <2>1, <2>2, HeldOnce
  <2>4. cs.proto = "kafka" => ~ \E id \in CorrelationIds : pendingRequests[id] = c
    BY <2>1, <2>2, HeldOnce
  <2> QED  BY <2>2, <2>3, <2>4 DEF CmdInv, OpenInv
<1> QED  BY <1>5, <1>6, <1>7, <1>8, <1>9, <1>10 DEF CmdInv

-----------------------------------------------------------------------------
LEMMA CmdInvReleased == CmdInv => PluginsReleased
<1> SUFFICES ASSUME CmdInv, NEW c \in DOMAIN cmds
             PROVE  /\ plugin[c] # "twice"
                    /\ plugin[c] = "open" =>
                         \/ Holders(c) # {} /\ ~streamClosed
                         \/ c = rset.active
                         \/ cs.proto = "kafka" /\ \E d \in DOMAIN cmds : d > c /\ cmds[d].corr = cmds[c].corr
  BY DEF PluginsReleased
<1>1. /\ DOMAIN cmds = 1 .. Len(cmds) /\ c \in 1 .. Len(cmds) /\ c \in 1 .. MaxCmds
      /\ plugin[c] \in {"none", "open", "down"}
  BY CmdAssumption DEF CmdInv, CmdType
<1>2. /\ cs.proto # "kafka" => (Holders(c) # {} <=> c \in Members(pending))
      /\ cs.proto = "kafka" => (Holders(c) # {} <=> \E id \in CorrelationIds : pendingRequests[id] = c)
  BY <1>1, HeldOnce
<1> QED  BY <1>1, <1>2 DEF CmdInv, OpenInv

THEOREM CmdInvariant == CmdSpec => []CmdInv
<1>1. CmdInv /\ [CmdNext]_cmdVars => CmdInv'
  <2> SUFFICES ASSUME CmdInv, [CmdNext]_cmdVars  PROVE CmdInv'  OBVIOUS
  <2>1. CASE UNCHANGED cmdVars
    <3>1. StreamInv'
      BY <2>1, StreamKept DEF CmdInv, StreamInv, cmdVars, streamVars
    <3>2. WireInv'
      BY <2>1 DEF CmdInv, WireInv, cmdVars, Tags, Sent
    <3> QED  BY <3>1, <3>2 DEF CmdInv, StreamInv
  <2> QED  BY <2>1, GreetInv, AnswerInv, ClientSendsInv, ServerSendsInv, CloseStreamInv DEF CmdNext
<1> QED  BY <1>1, CmdInitInv, PTL DEF CmdSpec

\* Every plugin connection of a command is torn down once: by its response, by the limit
\* of the queue or by Close, whatever the client and the server send, in any of the three
\* protocols and for any limits.
THEOREM CmdPluginsReleased == CmdSpec => []PluginsReleased
BY CmdInvariant, CmdInvReleased, PTL
-----------------------------------------------------------------------------
\* AnswersMatch

\* What is awaited, in the order of the answers.
Outstanding == (IF wire = <<>> THEN <<>> ELSE <<wire[1].of>>) \o owed

\* The rest of a result set, by what comes next: rows and the last packet, the packet
\* after the columns, one column, two.
Rest0(w) == w # <<>> /\ w[1].t \in {cs.last, "err"} /\ Tail(w) = <<>>
Rest1(w) == Rest0(w) \/ (w # <<>> /\ w[1].t = "row" /\ Rest0(Tail(w)))
Rest2(w) == IF cs.eofs THEN w # <<>> /\ w[1].t = "eof" /\ Rest1(Tail(w)) ELSE Rest1(w)
Rest3(w) == w # <<>> /\ w[1].t = "col" /\ Rest2(Tail(w))
Rest4(w) == w # <<>> /\ w[1].t = "col" /\ Rest3(Tail(w))
WholeSet(w) ==
    /\ w # <<>> /\ w[1].t = "header"
    /\ (w[1].n = 1 /\ Rest3(Tail(w))) \/ (w[1].n = 2 /\ Rest4(Tail(w)))

\* A whole answer to a command that is pending.
WholeAnswer(w) ==
    \/ w[1].t \in {"ok", "err", "switch"} /\ (cs.pipelined => session # "ready" \/ Tail(w) = <<>>)
    \/ WholeSet(w)

SetRest ==
    \/ rset.phase = "columnDefs" /\ rset.left = 1 /\ Rest3(wire)
    \/ rset.phase = "columnDefs" /\ rset.left = 2 /\ Rest4(wire)
    \/ rset.phase = "columnsEOF" /\ Rest2(wire)
    \/ rset.phase = "rows" /\ Rest1(wire)

Prefix(s, t) == Len(s) <= Len(t) /\ \A i \in DOMAIN s : s[i] = t[i]

SameOf(w) == \A i \in DOMAIN w : w[i].of = w[1].of

ResultInv ==
    /\ \A r \in results : r.of = {r.to}
    /\ SameOf(wire)

RedisMatch ==
    /\ Prefix(pending, Outstanding)
    /\ ~cs.pipelined => Len(Outstanding) <= 1
    /\ cs.pipelined =>
         /\ wire # <<>> => Tail(wire) = <<>>
         /\ ~stuck /\ cs.stack /\ ~streamClosed => pending = Outstanding
    /\ ~cs.stack => pending = <<>>

KafkaMatch ==
    /\ \A id \in CorrelationIds : pendingRequests[id] # 0 => pendingRequests[id] \in Awaited
    /\ \A d \in Awaited : pendingRequests[cmds[d].corr] = d
    /\ Injective(owed) /\ (wire # <<>> => Tail(wire) = <<>> /\ wire[1].of \notin Members(owed))

\* The client may send before an answer is whole.
Ahead == cs.pipelined /\ session = "ready" /\ \A d \in Awaited : d # 0 /\ cmds[d].kind # "auth"

\* The exchange of credentials: it ends what is awaited before the first command, and
\* the stream has seen its end before it sees an answer that commands were pipelined to.
SessionInv ==
    /\ session \in {"greeting", "auth", "ready"}
    /\ session = "greeting" =>
         cmds = <<>> /\ wire = <<>> /\ owed = <<>> /\ pending = <<>> /\ ~handshakeComplete
    /\ session = "auth" =>
         /\ \A d \in Awaited : d = 0 \/ cmds[d].kind = "auth"
         /\ wire # <<>> => wire[1].t \in {"greeting"} \cup (cs.auths \ {"ok"}) /\ Tail(wire) = <<>>
         /\ handshakeComplete => "switch" \in cs.auths
    /\ session = "ready" =>
         /\ \A d \in Members(owed) : cmds[d].kind # "auth"
         /\ cs.auth =>
              \/ handshakeComplete
              \/ wire # <<>> /\ wire[1].t = "ok" /\ wire[1].of # 0 /\ cmds[wire[1].of].kind = "auth"

MySQLMatch ==
    /\ rset.phase = "none" =>
         /\ rset = NoSet
         /\ pending = <<>> \/ pending = Outstanding
         /\ pending # <<>> /\ wire # <<>> => WholeAnswer(wire)
         /\ Ahead => pending = Outstanding
    /\ rset.phase # "none" =>
         /\ wire # <<>> /\ rset.active = wire[1].of /\ rset.of = {wire[1].of}
         /\ SetRest
         /\ pending = <<>> \/ pending = owed
         /\ Ahead => pending = owed
    /\ ~Ahead => Len(Outstanding) <= 1
    /\ pending # <<>> => handshakeComplete
    /\ SessionInv

MatchInv ==
    Regular /\ ~overflow =>
      /\ ResultInv
      /\ cs.proto = "redis" => RedisMatch
      /\ cs.proto = "kafka" => KafkaMatch
      /\ cs.proto = "mysql" => MySQLMatch

KindInv ==
    \A d \in 1 .. Len(cmds) :
      cmds[d].kind \in cs.kinds \/ (cmds[d].kind = "auth" /\ cs.proto = "mysql")


\* The sequence w begins with x, and the rest is q.
LEMMA ConsFacts ==
  ASSUME NEW S, NEW q \in Seq(S), NEW x
  PROVE  /\ <<x>> \o q \in Seq(S \cup {x}) /\ <<x>> \o q # <<>>
         /\ Len(<<x>> \o q) = Len(q) + 1
         /\ Head(<<x>> \o q) = x /\ Tail(<<x>> \o q) = q
         /\ Members(<<x>> \o q) = {x} \cup Members(q)
         /\ \A y : Append(<<x>> \o q, y) = <<x>> \o Append(q, y)
<1> DEFINE w == <<x>> \o q
<1>1. /\ w \in Seq(S \cup {x}) /\ Len(w) = Len(q) + 1 /\ Len(q) \in Nat
      /\ w[1] = x /\ \A i \in 1 .. Len(q) : w[i + 1] = q[i]
  OBVIOUS
<1>2. \A y : Append(w, y) = <<x>> \o Append(q, y)
  OBVIOUS
<1> HIDE DEF w
<1>3. /\ w # <<>> /\ Head(w) = x /\ DOMAIN w = 1 .. Len(q) + 1 /\ DOMAIN q = 1 .. Len(q)
      /\ q = [i \in 1 .. Len(q) |-> q[i]]
  BY <1>1
<1>4. Tail(w) = q
  <2>1. Tail(w) \in Seq(S \cup {x}) /\ Len(Tail(w)) = Len(q) /\ q \in Seq(S \cup {x})
    BY <1>1, <1>3
  <2>2. \A i \in 1 .. Len(q) : Tail(w)[i] = q[i]
    BY <1>1, <1>3
  <2> QED  BY <2>1, <2>2, SeqEqual
<1>5. Members(w) = {x} \cup Members(q)
  <2>1. ASSUME NEW y \in Members(w)  PROVE y \in {x} \cup Members(q)
    <3>1. PICK i \in 1 .. Len(q) + 1 : y = w[i]
      BY <1>3 DEF Members
    <3>2. CASE i = 1
      BY <3>1, <3>2, <1>1
    <3>3. CASE i # 1
      <4>1. i - 1 \in 1 .. Len(q) /\ (i - 1) + 1 = i
        BY <3>3, <1>1
      <4>2. y = q[i - 1]
        BY <3>1, <4>1, <1>1
      <4> QED  BY <4>1, <4>2, <1>3 DEF Members
    <3> QED  BY <3>2, <3>3
  <2>2. x \in Members(w)
    BY <1>1, <1>3 DEF Members
  <2>3. ASSUME NEW y \in Members(q)  PROVE y \in Members(w)
    <3>1. PICK i \in 1 .. Len(q) : y = q[i]
      BY <1>3 DEF Members
    <3>2. i + 1 \in DOMAIN w /\ w[i + 1] = y
      BY <3>1, <1>1, <1>3
    <3> QED  BY <3>2 DEF Members
  <2> QED  BY <2>1, <2>2, <2>3
<1> QED  BY <1>1, <1>2, <1>3, <1>4, <1>5 DEF w

LEMMA OutFacts ==
  ASSUME CmdInv, SameOf(wire)
  PROVE  /\ Outstanding \in Seq(0 .. Len(cmds)) /\ Awaited = Members(Outstanding)
         /\ wire = <<>> => Outstanding = owed
         /\ wire # <<>> => /\ Outstanding = <<wire[1].of>> \o owed /\ Outstanding # <<>>
                           /\ Head(Outstanding) = wire[1].of /\ Tail(Outstanding) = owed
                           /\ wire[1].of \in 0 .. Len(cmds)
<1> DEFINE N == 0 .. Len(cmds)
<1>1. owed \in Seq(N)
  <2>1. Len(cmds) \in Nat /\ owed \in Seq(Sent)
    BY DEF CmdInv, CmdType, WireInv
  <2>2. Sent \subseteq N
    BY <2>1 DEF Sent
  <2> QED  BY <2>1, <2>2, SeqMonotonic, Zenon
<1>2. Range(owed) = Members(owed)
  BY DEF Range, Members
<1>3. CASE wire = <<>>
  <2>1. Outstanding = owed
    BY <1>1, <1>3 DEF Outstanding
  <2>2. {wire[i].of : i \in DOMAIN wire} = {}
    BY <1>3
  <2> QED  BY <1>1, <1>2, <1>3, <2>1, <2>2 DEF Awaited
<1>4. CASE wire # <<>>
  <2>1. 1 \in DOMAIN wire /\ wire[1].of \in N
    <3> DEFINE P == [t : Tags, n : Int, of : N]
    <3>1. wire \in Seq(P)
      BY DEF CmdInv, WireInv
    <3> HIDE DEF P
    <3>2. 1 \in DOMAIN wire /\ wire[1] \in P
      BY <3>1, <1>4
    <3> QED  BY <3>2 DEF P
  <2>2. {wire[i].of : i \in DOMAIN wire} = {wire[1].of}
    BY <2>1 DEF SameOf
  <2> DEFINE x == wire[1].of
  <2>3. Outstanding = <<x>> \o owed
    BY <1>4 DEF Outstanding
  <2>4. x \in N
    BY <2>1
  <2> HIDE DEF x, N
  <2>5. N \cup {x} = N
    BY <2>4
  <2>6. /\ <<x>> \o owed \in Seq(N) /\ <<x>> \o owed # <<>>
        /\ Head(<<x>> \o owed) = x /\ Tail(<<x>> \o owed) = owed
        /\ Members(<<x>> \o owed) = {x} \cup Members(owed)
    BY <1>1, <2>5, ConsFacts
  <2>7. Awaited = Members(owed) \cup {x}
    BY <1>2, <2>2 DEF Awaited, x
  <2> QED  BY <1>4, <2>3, <2>4, <2>6, <2>7, Zenon DEF x, N
<1> QED  BY <1>3, <1>4

\* The server's answer to the oldest command: what is awaited stays.
LEMMA OutAnswer ==
  ASSUME CmdInv, Answer, cs.proto # "kafka"
  PROVE  /\ wire = <<>> /\ owed # <<>> /\ owed' = Tail(owed) /\ wire' \in Answers(owed[1])
         /\ wire' # <<>> /\ wire'[1].of = owed[1] /\ owed[1] \in Sent /\ SameOf(wire')
         /\ Outstanding = owed /\ Outstanding' = owed
         /\ session' = IF wire'[1].t = "ok" THEN "ready" ELSE session
         /\ UNCHANGED <<cs, cmds, streamClosed, streamVars>>
<1>1. PICK i \in DOMAIN owed :
        /\ wire = <<>> /\ i = 1
        /\ owed' = Without(owed, i) /\ wire' \in Answers(owed[i])
        /\ session' = IF wire'[1].t = "ok" THEN "ready" ELSE session
        /\ UNCHANGED <<cs, cmds, streamClosed, streamVars>>
  BY DEF Answer
<1>2. owed \in Seq(Sent) /\ owed # <<>> /\ owed[1] \in Sent
  BY <1>1 DEF CmdInv, WireInv
<1>3. owed' = Tail(owed) /\ Tail(owed) \in Seq(Sent)
  <2>1. SubSeq(owed, 1, 1 - 1) = <<>>
    BY <1>2
  <2>2. SubSeq(owed, 1 + 1, Len(owed)) = Tail(owed)
    BY <1>2
  <2>3. Tail(owed) \in Seq(Sent)
    BY <1>2
  <2>4. <<>> \o Tail(owed) = Tail(owed)
    BY <2>3, ConcatEmptySeq
  <2> QED  BY <1>1, <2>1, <2>2, <2>3, <2>4 DEF Without
<1>4. wire' \in Seq(PacketsOf(owed[1])) /\ wire' # <<>>
  BY <1>1, AnswersLemma
<1>5. 1 \in DOMAIN wire' /\ \A j \in DOMAIN wire' : wire'[j] \in PacketsOf(owed[1])
  BY <1>4
<1>6. \A j \in DOMAIN wire' : wire'[j].of = owed[1]
  BY <1>5 DEF PacketsOf
<1>7. SameOf(wire') /\ wire'[1].of = owed[1]
  BY <1>5, <1>6 DEF SameOf
<1>8. Outstanding = owed
  BY <1>1, <1>2 DEF Outstanding
<1>9. Outstanding' = owed
  <2>1. Outstanding' = <<owed[1]>> \o Tail(owed)
    BY <1>3, <1>4, <1>7 DEF Outstanding
  <2> QED  BY <1>2, <2>1
<1> QED  BY <1>1, <1>2, <1>3, <1>4, <1>7, <1>8, <1>9, Zenon

\* A command of the client is awaited last.
LEMMA OutSend ==
  ASSUME CmdInv, SameOf(wire), NEW kind, NEW corr, SendsCommand(kind, corr), kind \notin Silent
  PROVE  /\ Outstanding' = Append(Outstanding, Len(cmds) + 1)
         /\ Members(Outstanding)' = Members(Outstanding) \cup {Len(cmds) + 1}
         /\ owed' = Append(owed, Len(cmds) + 1) /\ SameOf(wire)'
<1>1. owed' = Append(owed, Len(cmds) + 1) /\ wire' = wire
  BY DEF SendsCommand
<1>2. owed \in Seq(Sent) /\ Outstanding \in Seq(0 .. Len(cmds))
  BY OutFacts DEF CmdInv, WireInv
<1>3. Outstanding' = Append(Outstanding, Len(cmds) + 1)
  <2>1. CASE wire = <<>>
    BY <1>1, <1>2, <2>1 DEF Outstanding
  <2>2. CASE wire # <<>>
    <3>1. Outstanding' = <<wire[1].of>> \o Append(owed, Len(cmds) + 1)
      BY <1>1, <2>2 DEF Outstanding
    <3>2. Append(<<wire[1].of>> \o owed, Len(cmds) + 1) = <<wire[1].of>> \o Append(owed, Len(cmds) + 1)
      BY <1>2, ConsFacts
    <3>3. Outstanding = <<wire[1].of>> \o owed
      BY <2>2 DEF Outstanding
    <3> QED  BY <3>1, <3>2, <3>3
  <2> QED  BY <2>1, <2>2
<1>4. Members(Append(Outstanding, Len(cmds) + 1)) = Members(Outstanding) \cup {Len(cmds) + 1}
  BY <1>2, AppendMembers
<1> QED  BY <1>1, <1>3, <1>4 DEF SameOf

\* A packet of the server: the last one of an answer ends what is awaited first.
LEMMA OutTake ==
  ASSUME CmdInv, SameOf(wire), TakesPacket
  PROVE  /\ SameOf(wire') /\ Outstanding # <<>> /\ Head(Outstanding) = wire[1].of
         /\ Tail(wire) = <<>> => Outstanding' = Tail(Outstanding) /\ Outstanding' = owed
         /\ Tail(wire) # <<>> => Outstanding' = Outstanding /\ wire'[1].of = wire[1].of
         /\ wire' = Tail(wire) /\ Head(wire) = wire[1] /\ Tail(Outstanding) = owed
<1>1. wire # <<>> /\ wire' = Tail(wire) /\ owed' = owed
  BY DEF TakesPacket
<1>2. /\ Outstanding = <<wire[1].of>> \o owed /\ Outstanding # <<>>
      /\ Head(Outstanding) = wire[1].of /\ Tail(Outstanding) = owed
  BY <1>1, OutFacts
<1>3. /\ \A i \in DOMAIN Tail(wire) : i + 1 \in DOMAIN wire /\ Tail(wire)[i] = wire[i + 1]
      /\ Tail(wire) # <<>> => 1 \in DOMAIN Tail(wire)
      /\ Head(wire) = wire[1] /\ owed \in Seq(Sent)
  <2> DEFINE P == [t : Tags, n : Int, of : 0 .. Len(cmds)]
  <2>1. wire \in Seq(P) /\ owed \in Seq(Sent)
    BY DEF CmdInv, WireInv
  <2> HIDE DEF P
  <2> QED  BY <2>1, <1>1
<1>4. \A i \in DOMAIN Tail(wire) : Tail(wire)[i].of = wire[1].of
  BY <1>3 DEF SameOf
<1>5. SameOf(Tail(wire)) /\ (Tail(wire) # <<>> => Tail(wire)[1].of = wire[1].of)
  BY <1>3, <1>4 DEF SameOf
<1>6. Tail(wire) = <<>> => Outstanding' = owed
  BY <1>1, <1>3 DEF Outstanding
<1>7. Tail(wire) # <<>> => Outstanding' = <<wire[1].of>> \o owed
  BY <1>1, <1>5, Zenon DEF Outstanding
<1> QED  BY <1>1, <1>2, <1>3, <1>5, <1>6, <1>7, Zenon

LEMMA PrefixFacts ==
  ASSUME NEW S, NEW s \in Seq(S), NEW t \in Seq(S), Prefix(s, t)
  PROVE  /\ \A c : Prefix(s, Append(t, c))
         /\ t = <<>> => s = <<>>
         /\ s # <<>> => t # <<>> /\ Head(s) = Head(t) /\ Prefix(Tail(s), Tail(t))
         /\ Len(t) <= 1 /\ s # <<>> => Tail(s) = <<>>
<1>1. /\ Len(s) \in Nat /\ Len(t) \in Nat /\ Len(s) <= Len(t) /\ DOMAIN s = 1 .. Len(s)
      /\ DOMAIN t = 1 .. Len(t) /\ \A i \in 1 .. Len(s) : s[i] = t[i]
  BY DEF Prefix
<1>2. ASSUME NEW c  PROVE Prefix(s, Append(t, c))
  <2>1. Len(Append(t, c)) = Len(t) + 1 /\ \A i \in 1 .. Len(t) : Append(t, c)[i] = t[i]
    OBVIOUS
  <2> QED  BY <1>1, <2>1 DEF Prefix
<1>3. t = <<>> => s = <<>>
  BY <1>1
<1>4. ASSUME s # <<>>
      PROVE  t # <<>> /\ Head(s) = Head(t) /\ Prefix(Tail(s), Tail(t)) /\ (Len(t) <= 1 => Tail(s) = <<>>)
  <2>1. Len(s) >= 1 /\ t # <<>> /\ s[1] = t[1] /\ Head(s) = s[1] /\ Head(t) = t[1]
    BY <1>1, <1>4
  <2>2. /\ Len(Tail(s)) = Len(s) - 1 /\ Len(Tail(t)) = Len(t) - 1
        /\ \A i \in 1 .. Len(s) - 1 : Tail(s)[i] = s[i + 1]
        /\ \A i \in 1 .. Len(t) - 1 : Tail(t)[i] = t[i + 1]
        /\ DOMAIN Tail(s) = 1 .. Len(s) - 1 /\ Tail(s) \in Seq(S)
    BY <1>4, <2>1
  <2>3. \A i \in DOMAIN Tail(s) : Tail(s)[i] = Tail(t)[i]
    BY <1>1, <2>2
  <2>4. Len(t) <= 1 => Tail(s) = <<>>
    BY <1>1, <2>2
  <2> QED  BY <1>1, <2>1, <2>2, <2>3, <2>4 DEF Prefix
<1> QED  BY <1>2, <1>3, <1>4

LEMMA PrefixSame ==
  ASSUME NEW S, NEW s \in Seq(S)
  PROVE  Prefix(s, s) /\ Prefix(<<>>, s)
BY DEF Prefix

LEMMA KindInvStep ==
  ASSUME CmdInv, KindInv, [CmdNext]_cmdVars
  PROVE  KindInv'
<1>1. CASE cmds' = cmds /\ cs' = cs
  BY <1>1 DEF KindInv
<1>2. CASE ClientSends
  <2>1. PICK kind \in cs.kinds \cup {"auth"}, corr \in cs.ids : SendsCommand(kind, corr)
    BY <1>2, ClientSendsPick
  <2>2. /\ Len(cmds) \in Nat /\ Len(cmds') = Len(cmds) + 1
        /\ \A d \in Sent : cmds'[d] = cmds[d]
        /\ cmds'[Len(cmds) + 1].kind = kind
    BY <2>1, SendFacts, Zenon
  <2>3. cs' = cs /\ (kind = "auth" => cs.proto = "mysql")
    BY <2>1 DEF SendsCommand, CmdInv, WireInv
  <2>4. \A d \in 1 .. Len(cmds') : d \in Sent \/ d = Len(cmds) + 1
    BY <2>2 DEF Sent
  <2> QED  BY <2>1, <2>2, <2>3, <2>4 DEF KindInv, Sent
<1> QED  BY <1>1, <1>2, Zenon DEF CmdNext, cmdVars, clientVars, Greet, Answer, ServerSends, CloseStream

LEMMA RedisSend ==
  ASSUME CmdInv, Regular, ResultInv, RedisMatch, cs.proto = "redis",
         NEW kind \in cs.kinds \cup {"auth"}, NEW corr \in cs.ids, SendsCommand(kind, corr),
         RedisRequest(Len(cmds) + 1)
  PROVE  ResultInv' /\ RedisMatch'
<1> DEFINE c == Len(cmds) + 1
<1>1. kind \notin Silent
  BY DEF Regular, SendsCommand, CmdInv, WireInv, Silent
<1>2. Outstanding' = Append(Outstanding, c) /\ SameOf(wire')
  BY <1>1, OutSend DEF ResultInv
<1>3. /\ Outstanding \in Seq(0 .. Len(cmds)) /\ Awaited = Members(Outstanding)
      /\ pending \in Seq(0 .. Len(cmds)) /\ Len(cmds) \in Nat
  <2>1. Len(cmds) \in Nat /\ pending \in Seq(Sent)
    BY DEF CmdInv, CmdType
  <2>2. Sent \subseteq 0 .. Len(cmds)
    BY <2>1 DEF Sent
  <2>3. pending \in Seq(0 .. Len(cmds))
    BY <2>1, <2>2, SeqMonotonic, Zenon
  <2> QED  BY <2>1, <2>3, OutFacts DEF ResultInv
<1>4. UNCHANGED <<cs, wire, streamClosed, results>> /\ ~streamClosed
  BY DEF SendsCommand, RedisRequest
<1>5. ~cs.pipelined => Outstanding = <<>> /\ pending = <<>>
  <2>1. ~cs.pipelined => Members(Outstanding) = {}
    BY <1>3 DEF SendsCommand, MaySend
  <2>2. Members(Outstanding) = {} => Outstanding = <<>>
    BY <1>3, SeqFacts, Zenon
  <2> QED  BY <2>1, <2>2, <1>3, PrefixFacts DEF RedisMatch
<1>6. ~cs.pipelined => Len(Outstanding') <= 1
  <2>1. Len(Append(Outstanding, c)) = Len(Outstanding) + 1 /\ Len(<<>>) = 0
    BY <1>3, SeqFacts
  <2> QED  BY <1>2, <1>5, <2>1
<1>7. ResultInv'
  BY <1>2, <1>4 DEF ResultInv
<1>8. Outstanding' \in Seq((0 .. Len(cmds)) \cup {c})
  BY <1>2, <1>3, SeqFacts, Zenon
<1>9. CASE stuck' \/ ~cs.stack
  <2>1. pending' = pending
    BY <1>9 DEF RedisRequest
  <2>2. Prefix(pending', Outstanding')
    BY <2>1, <1>2, <1>3, PrefixFacts DEF RedisMatch
  <2> QED  BY <1>4, <1>6, <1>7, <1>9, <2>1, <2>2 DEF RedisMatch
<1>10. CASE ~(stuck' \/ ~cs.stack)
  <2>1. pending' = Append(pending, c) /\ ~stuck /\ cs.stack
    BY <1>10, Zenon DEF RedisRequest
  <2>2. pending' = Outstanding'
    <3>1. CASE cs.pipelined
      BY <2>1, <3>1, <1>2, <1>4 DEF RedisMatch
    <3>2. CASE ~cs.pipelined
      BY <2>1, <3>2, <1>2, <1>5
    <3> QED  BY <3>1, <3>2
  <2>3. Prefix(pending', Outstanding')
    BY <2>2, <1>8, PrefixSame
  <2> QED  BY <1>4, <1>6, <1>7, <2>1, <2>2, <2>3 DEF RedisMatch
<1> QED  BY <1>9, <1>10

LEMMA RedisAnswer ==
  ASSUME CmdInv, KindInv, Regular, ResultInv, RedisMatch, cs.proto = "redis", Answer
  PROVE  ResultInv' /\ RedisMatch'
<1>1. /\ wire' \in Answers(owed[1]) /\ wire' # <<>> /\ owed[1] \in Sent /\ SameOf(wire')
      /\ Outstanding' = Outstanding
      /\ UNCHANGED <<cs, cmds, streamClosed, streamVars>>
  BY OutAnswer
<1>2. UNCHANGED <<pending, stuck, results>>
  BY <1>1 DEF streamVars
<1>3. cs.pipelined => Tail(wire') = <<>>
  <2>1. cmds[owed[1]].kind \in cs.kinds
    BY <1>1 DEF KindInv, Sent
  <2>2. cs.kinds \subseteq {"cmd", "silent", "subscribe", "inline"}
    BY CmdAssumption DEF CmdInv, CmdType, Kinds
  <2>3. cs.pipelined => cmds[owed[1]].kind \notin {"subscribe", "query", "prepare", "auth"}
    BY <2>1, <2>2 DEF Regular
  <2>4. cs.pipelined => wire' = <<Value(owed[1])>>
    BY <1>1, <2>3 DEF Answers
  <2>5. Tail(<<Value(owed[1])>>) = <<>>
    OBVIOUS
  <2> QED  BY <2>4, <2>5, Zenon
<1>4. ResultInv'
  BY <1>1, <1>2 DEF ResultInv
<1>5. RedisMatch'
  BY <1>1, <1>2, <1>3 DEF RedisMatch
<1> QED  BY <1>4, <1>5

\* What a match adds to the results.
LEMMA ResultAdded ==
  ASSUME ResultInv, NEW c, results' = results \cup {[to |-> c, of |-> {c}]}
  PROVE  \A r \in results' : r.of = {r.to}
BY DEF ResultInv

LEMMA RedisTake ==
  ASSUME CmdInv, Regular, ResultInv, RedisMatch, cs.proto = "redis", TakesPacket, RedisResponse(Head(wire))
  PROVE  ResultInv' /\ RedisMatch'
<1>1. /\ SameOf(wire') /\ Outstanding # <<>> /\ Head(Outstanding) = wire[1].of
      /\ Tail(wire) = <<>> => Outstanding' = Tail(Outstanding)
      /\ Tail(wire) # <<>> => Outstanding' = Outstanding
      /\ wire' = Tail(wire) /\ Head(wire) = wire[1]
  BY OutTake DEF ResultInv
<1>2. UNCHANGED <<cs, streamClosed, stuck>> /\ ~streamClosed /\ wire # <<>>
  BY DEF TakesPacket, RedisResponse
<1>3. Outstanding \in Seq(0 .. Len(cmds)) /\ pending \in Seq(0 .. Len(cmds))
  <2>1. Len(cmds) \in Nat /\ pending \in Seq(Sent)
    BY DEF CmdInv, CmdType
  <2>2. Sent \subseteq 0 .. Len(cmds)
    BY <2>1 DEF Sent
  <2> QED  BY <2>1, <2>2, SeqMonotonic, OutFacts, Zenon DEF ResultInv
<1>4. Tail(Outstanding) \in Seq(0 .. Len(cmds)) /\ Len(Tail(Outstanding)) <= Len(Outstanding)
  BY <1>1, <1>3
<1>5. /\ ~cs.pipelined => Len(Outstanding') <= 1
      /\ Outstanding' \in Seq(0 .. Len(cmds))
  <2>1. ~cs.pipelined => Len(Outstanding) <= 1
    BY DEF RedisMatch
  <2>2. Len(Outstanding) \in Nat /\ Len(Tail(Outstanding)) \in Nat
    BY <1>3, <1>4
  <2>3. Outstanding' \in {Outstanding, Tail(Outstanding)}
    BY <1>1
  <2>4. Len(Outstanding') <= Len(Outstanding) /\ Len(Outstanding') \in Nat
    BY <2>2, <2>3, <1>4
  <2>5. Len(Outstanding) <= 1 => Len(Outstanding') <= 1
    BY <2>2, <2>4
  <2>6. Outstanding' \in Seq(0 .. Len(cmds))
    BY <2>3, <1>3, <1>4, Zenon
  <2> QED  BY <2>1, <2>5, <2>6, Zenon
<1>6. /\ cs.pipelined => wire' = <<>> /\ Outstanding' = Tail(Outstanding)
      /\ cs.pipelined /\ ~stuck /\ cs.stack => pending = Outstanding
  BY <1>1, <1>2 DEF RedisMatch
<1>7. CASE pending = <<>>
  <2>1. UNCHANGED <<pending, results>>
    BY <1>7 DEF RedisResponse
  <2>2. Prefix(pending', Outstanding')
    BY <2>1, <1>5, <1>7, PrefixSame
  <2>3. ResultInv'
    BY <1>1, <2>1, Zenon DEF ResultInv
  <2> QED  BY <1>1, <1>2, <1>5, <1>6, <1>7, <2>1, <2>2, <2>3 DEF RedisMatch
<1>8. CASE pending # <<>>
  <2>1. /\ pending' = Tail(pending)
        /\ results' = results \cup {[to |-> Head(pending), of |-> {Head(wire).of}]}
    BY <1>8 DEF RedisResponse, Complete
  <2>2. /\ Head(pending) = Head(Outstanding) /\ Prefix(Tail(pending), Tail(Outstanding))
        /\ Len(Outstanding) <= 1 => Tail(pending) = <<>>
    BY <1>3, <1>8, PrefixFacts DEF RedisMatch
  <2>3. \A r \in results' : r.of = {r.to}
    BY <2>1, <2>2, <1>1, ResultAdded, Zenon
  <2>4. ~cs.pipelined => Tail(pending) = <<>>
    BY <2>2 DEF RedisMatch
  <2>5. Prefix(pending', Outstanding')
    BY <2>1, <2>2, <2>4, <1>5, <1>6, PrefixSame, Zenon
  <2>6. cs.stack
    BY <1>8 DEF RedisMatch
  <2>7. cs.pipelined /\ ~stuck /\ cs.stack => pending' = Outstanding'
    BY <2>1, <1>6, Zenon
  <2> QED  BY <1>1, <1>2, <1>5, <1>6, <2>3, <2>5, <2>6, <2>7, Zenon DEF RedisMatch, ResultInv
<1> QED  BY <1>7, <1>8

LEMMA RedisClose ==
  ASSUME CmdInv, ResultInv, RedisMatch, cs.proto = "redis", CloseStream
  PROVE  ResultInv' /\ RedisMatch'
<1>1. /\ pending' = <<>> /\ UNCHANGED <<cs, wire, owed, results, stuck>> /\ streamClosed'
      /\ Outstanding' = Outstanding
  BY DEF CloseStream, clientVars, Outstanding
<1>2. Prefix(<<>>, Outstanding)
  BY OutFacts, PrefixSame DEF ResultInv
<1> QED  BY <1>1, <1>2 DEF ResultInv, RedisMatch

-----------------------------------------------------------------------------
\* Kafka

LEMMA KafkaAwaited ==
  ASSUME CmdInv, cs.proto = "kafka"
  PROVE  Awaited \subseteq Sent
<1>1. Range(owed) \subseteq Sent
  BY DEF CmdInv, WireInv, Range
<1>2. \A i \in DOMAIN wire : wire[i].of \in Sent
  <2> DEFINE P == [t : Tags, n : Int, of : 0 .. Len(cmds)]
  <2>1. wire \in Seq(P) /\ \A i \in DOMAIN wire : wire[i].of # 0
    BY DEF CmdInv, WireInv
  <2> HIDE DEF P
  <2>2. \A i \in DOMAIN wire : wire[i] \in P
    BY <2>1
  <2>3. Len(cmds) \in Nat
    BY DEF CmdInv, CmdType
  <2> QED  BY <2>1, <2>2, <2>3 DEF P, Sent
<1> QED  BY <1>1, <1>2 DEF Awaited

LEMMA KafkaSend ==
  ASSUME CmdInv, Regular, ResultInv, KafkaMatch, cs.proto = "kafka",
         NEW kind \in cs.kinds \cup {"auth"}, NEW corr \in cs.ids, SendsCommand(kind, corr),
         KafkaRequest(Len(cmds) + 1)
  PROVE  ResultInv' /\ KafkaMatch'
<1> DEFINE c == Len(cmds) + 1
<1>1. kind \notin Silent
  BY DEF Regular, SendsCommand, CmdInv, WireInv, Silent
<1>2. owed' = Append(owed, c) /\ SameOf(wire') /\ wire' = wire
  BY <1>1, OutSend DEF ResultInv, SendsCommand
<1>3. /\ Len(cmds) \in Nat /\ cmds'[c].corr = corr /\ corr \in CorrelationIds
      /\ \A d \in Sent : cmds'[d] = cmds[d]
  BY SendFacts
<1>4. /\ pendingRequests' = [pendingRequests EXCEPT ![corr] = c]
      /\ pendingRequests \in [CorrelationIds -> 0 .. Len(cmds)] /\ owed \in Seq(Sent)
      /\ results' = results /\ cs' = cs
  BY <1>3, Zenon DEF KafkaRequest, CmdInv, CmdType, WireInv, SendsCommand
<1>5. Awaited \subseteq Sent /\ \A d \in Awaited : cmds[d].corr # corr
  BY KafkaAwaited DEF SendsCommand, MaySend
<1>6. c \notin Sent /\ c # 0 /\ Members(owed) = Range(owed) /\ Members(owed) \subseteq Awaited
  BY <1>3 DEF Sent, Members, Range, Awaited
<1>7. Injective(owed') /\ Members(owed') = Members(owed) \cup {c}
  BY <1>2, <1>4, <1>5, <1>6, AppendQueue, Zenon DEF KafkaMatch
<1>8. Awaited' = Awaited \cup {c}
  <2>1. Range(owed') = Members(owed')
    BY DEF Range, Members
  <2> QED  BY <2>1, <1>2, <1>6, <1>7 DEF Awaited
<1> HIDE DEF c
<1>9. /\ pendingRequests'[corr] = c
      /\ \A id \in CorrelationIds : id # corr => pendingRequests'[id] = pendingRequests[id]
  BY <1>3, <1>4, Zenon
<1>10. \A d \in Awaited : cmds[d].corr \in CorrelationIds
  <2>1. \A d \in Sent : cmds[d] \in Commands
    BY DEF CmdInv, CmdType, Sent
  <2> QED  BY <2>1, <1>5 DEF Commands
<1>11. \A id \in CorrelationIds : pendingRequests'[id] # 0 => pendingRequests'[id] \in Awaited'
  BY <1>8, <1>9 DEF KafkaMatch
<1>12. \A d \in Awaited' : pendingRequests'[cmds'[d].corr] = d
  <2> SUFFICES ASSUME NEW d \in Awaited'  PROVE pendingRequests'[cmds'[d].corr] = d  OBVIOUS
  <2>1. CASE d = c
    BY <2>1, <1>3, <1>9, Zenon
  <2>2. CASE d \in Awaited
    <3>1. cmds'[d] = cmds[d] /\ cmds[d].corr # corr /\ cmds[d].corr \in CorrelationIds
      BY <2>2, <1>3, <1>5, <1>10, Zenon
    <3> QED  BY <2>2, <3>1, <1>9 DEF KafkaMatch
  <2> QED  BY <2>1, <2>2, <1>8
<1>13. wire # <<>> => Tail(wire) = <<>> /\ wire[1].of \notin Members(owed')
  <2>1. wire # <<>> => wire[1].of \in Awaited
    <3> DEFINE P == [t : Tags, n : Int, of : 0 .. Len(cmds)]
    <3>1. wire \in Seq(P)
      BY DEF CmdInv, WireInv
    <3> HIDE DEF P
    <3>2. wire # <<>> => 1 \in DOMAIN wire
      BY <3>1
    <3> QED  BY <3>2 DEF Awaited
  <2> QED  BY <2>1, <1>5, <1>6, <1>7 DEF KafkaMatch
<1>14. ResultInv'
  BY <1>2, <1>4 DEF ResultInv
<1> QED  BY <1>2, <1>7, <1>11, <1>12, <1>13, <1>14 DEF KafkaMatch

LEMMA RemoveFacts ==
  ASSUME NEW S, NEW q \in Seq(S), NEW i \in DOMAIN q, Injective(q)
  PROVE  Injective(Without(q, i)) /\ Members(Without(q, i)) = Members(q) \ {q[i]}
<1> DEFINE r == Without(q, i)
           n == Len(q)
<1>1. n \in Nat /\ i \in 1 .. n /\ DOMAIN q = 1 .. n
  OBVIOUS
<1>2. /\ SubSeq(q, 1, i - 1) \in Seq(S) /\ Len(SubSeq(q, 1, i - 1)) = i - 1
      /\ \A j \in 1 .. i - 1 : SubSeq(q, 1, i - 1)[j] = q[j]
  BY <1>1, SubSeqProperties
<1>3. /\ SubSeq(q, i + 1, n) \in Seq(S) /\ Len(SubSeq(q, i + 1, n)) = n - i
      /\ \A j \in 1 .. n - i : SubSeq(q, i + 1, n)[j] = q[i + j]
  BY <1>1, SubSeqProperties
<1>4. /\ r \in Seq(S) /\ Len(r) = n - 1 /\ DOMAIN r = 1 .. n - 1
      /\ \A j \in 1 .. n - 1 : r[j] = IF j < i THEN q[j] ELSE q[j + 1]
  <2> DEFINE a == SubSeq(q, 1, i - 1)  b == SubSeq(q, i + 1, n)
  <2>1. r = a \o b
    BY DEF Without
  <2>2. a \in Seq(S) /\ b \in Seq(S) /\ Len(a) = i - 1 /\ Len(b) = n - i
    BY <1>2, <1>3
  <2>3. /\ \A j \in 1 .. i - 1 : a[j] = q[j]
        /\ \A j \in 1 .. n - i : b[j] = q[i + j]
    BY <1>2, <1>3
  <2> HIDE DEF a, b, r, n
  <2>4. /\ r \in Seq(S) /\ Len(r) = Len(a) + Len(b)
        /\ \A j \in 1 .. Len(a) + Len(b) : r[j] = IF j <= Len(a) THEN a[j] ELSE b[j - Len(a)]
    BY <2>1, <2>2, ConcatProperties, Zenon
  <2>5. Len(a) + Len(b) = n - 1
    BY <2>2, <1>1
  <2>6. ASSUME NEW j \in 1 .. n - 1
        PROVE  r[j] = IF j < i THEN q[j] ELSE q[j + 1]
    <3>1. r[j] = IF j <= i - 1 THEN a[j] ELSE b[j - (i - 1)]
      BY <2>2, <2>4, <2>5
    <3>2. CASE j < i
      BY <3>1, <3>2, <2>3, <1>1
    <3>3. CASE ~(j < i)
      <4>1. j - (i - 1) \in 1 .. n - i /\ i + (j - (i - 1)) = j + 1
        BY <3>3, <1>1
      <4>2. b[j - (i - 1)] = q[j + 1]
        BY <4>1, <2>3
      <4> QED  BY <3>1, <3>3, <4>2, <1>1
    <3> QED  BY <3>2, <3>3
  <2> QED  BY <2>4, <2>5, <2>6
<1> HIDE DEF r, n
<1>5. ASSUME NEW j \in 1 .. n - 1
      PROVE  \E k \in 1 .. n : k # i /\ k = (IF j < i THEN j ELSE j + 1) /\ r[j] = q[k]
  <2>1. CASE j < i
    BY <2>1, <1>1, <1>4
  <2>2. CASE ~(j < i)
    BY <2>2, <1>1, <1>4
  <2> QED  BY <2>1, <2>2
<1>6. Injective(r)
  <2> SUFFICES ASSUME NEW j \in 1 .. n - 1, NEW l \in 1 .. n - 1, r[j] = r[l]  PROVE j = l
    BY <1>4 DEF Injective
  <2>1. PICK k \in 1 .. n : k = (IF j < i THEN j ELSE j + 1) /\ r[j] = q[k]
    BY <1>5
  <2>2. PICK m \in 1 .. n : m = (IF l < i THEN l ELSE l + 1) /\ r[l] = q[m]
    BY <1>5
  <2>3. k = m
    BY <2>1, <2>2, <1>1, Zenon DEF Injective
  <2> QED  BY <2>1, <2>2, <2>3, <1>1
<1>7. ASSUME NEW x \in Members(r)  PROVE x \in Members(q) \ {q[i]}
  <2>1. PICK j \in 1 .. n - 1 : x = r[j]
    BY <1>4 DEF Members
  <2>2. PICK k \in 1 .. n : k # i /\ r[j] = q[k]
    BY <1>5
  <2>3. q[k] # q[i]
    BY <2>2, <1>1 DEF Injective
  <2> QED  BY <2>1, <2>2, <2>3, <1>1 DEF Members
<1>8. ASSUME NEW x \in Members(q), x # q[i]  PROVE x \in Members(r)
  <2>1. PICK k \in 1 .. n : x = q[k]
    BY <1>1 DEF Members
  <2>2. k # i
    BY <2>1, <1>8
  <2>3. CASE k < i
    <3>1. k \in 1 .. n - 1 /\ r[k] = x
      BY <2>1, <2>3, <1>1, <1>4
    <3> QED  BY <3>1, <1>4 DEF Members
  <2>4. CASE k > i
    <3>1. k - 1 \in 1 .. n - 1 /\ ~(k - 1 < i) /\ (k - 1) + 1 = k
      BY <2>4, <1>1
    <3>2. r[k - 1] = x
      BY <2>1, <3>1, <1>4
    <3> QED  BY <3>1, <3>2, <1>4 DEF Members
  <2> QED  BY <2>2, <2>3, <2>4, <1>1
<1> QED  BY <1>6, <1>7, <1>8 DEF r

LEMMA KafkaAnswer ==
  ASSUME CmdInv, KindInv, ResultInv, KafkaMatch, cs.proto = "kafka", Answer
  PROVE  ResultInv' /\ KafkaMatch'
<1>1. PICK i \in DOMAIN owed :
        /\ wire = <<>> /\ owed' = Without(owed, i) /\ wire' \in Answers(owed[i])
        /\ UNCHANGED <<cs, cmds, streamClosed, streamVars>>
  BY DEF Answer
<1>2. owed \in Seq(Sent) /\ owed[i] \in Sent
  BY DEF CmdInv, WireInv
<1>3. wire' = <<Value(owed[i])>>
  <2>1. cmds[owed[i]].kind \in cs.kinds
    BY <1>2 DEF KindInv, Sent
  <2>2. cs.kinds \subseteq {"request", "acks0"}
    BY CmdAssumption DEF CmdInv, CmdType, Kinds
  <2>3. cmds[owed[i]].kind \notin {"subscribe", "query", "prepare", "auth"}
    BY <2>1, <2>2
  <2> QED  BY <1>1, <2>3 DEF Answers
<1>4. /\ wire' # <<>> /\ Tail(wire') = <<>> /\ wire'[1] = Value(owed[i]) /\ DOMAIN wire' = {1}
  BY <1>3
<1>5. wire'[1].of = owed[i] /\ SameOf(wire')
  BY <1>4 DEF Value, Pkt, SameOf
<1>6. Injective(owed') /\ Members(owed') = Members(owed) \ {owed[i]} /\ owed[i] \in Members(owed)
  <2>1. owed[i] \in Members(owed)
    BY DEF Members
  <2>2. Injective(owed)
    BY DEF KafkaMatch
  <2> QED  BY <2>1, <2>2, <1>1, <1>2, RemoveFacts
<1>7. Awaited' = Awaited
  <2>1. Awaited = Members(owed)
    BY <1>1 DEF Awaited, Members, Range
  <2>2. Range(owed') = Members(owed')
    BY DEF Range, Members
  <2>3. Awaited' = Members(owed') \cup {owed[i]}
    BY <1>4, <1>5, <2>2 DEF Awaited
  <2> QED  BY <2>1, <2>3, <1>6
<1>8. UNCHANGED <<pendingRequests, cmds, results>>
  BY <1>1 DEF streamVars
<1> QED  BY <1>4, <1>5, <1>6, <1>7, <1>8, Zenon DEF ResultInv, KafkaMatch

LEMMA KafkaTake ==
  ASSUME CmdInv, ResultInv, KafkaMatch, cs.proto = "kafka", TakesPacket, KafkaResponse(Head(wire))
  PROVE  ResultInv' /\ KafkaMatch'
<1> DEFINE d == wire[1].of
           id == cmds[d].corr
<1>1. /\ wire # <<>> /\ wire' = <<>> /\ Tail(wire) = <<>> /\ owed' = owed /\ d \notin Members(owed)
      /\ UNCHANGED <<cs, cmds>>
  BY DEF TakesPacket, KafkaMatch
<1>2. Head(wire) = wire[1] /\ DOMAIN wire = {1}
  <2> DEFINE P == [t : Tags, n : Int, of : 0 .. Len(cmds)]
  <2>1. wire \in Seq(P)
    BY DEF CmdInv, WireInv
  <2> HIDE DEF P
  <2>2. Len(wire) \in Nat /\ DOMAIN wire = 1 .. Len(wire) /\ Len(Tail(wire)) = Len(wire) - 1
    BY <2>1, <1>1
  <2>3. Len(Tail(wire)) = 0
    BY <1>1
  <2>4. Len(wire) = 1
    BY <2>2, <2>3
  <2> QED  BY <2>1, <2>2, <2>4, <1>1
<1>3. /\ Awaited = Members(owed) \cup {d} /\ Awaited' = Members(owed)
  <2>1. Range(owed) = Members(owed)
    BY DEF Range, Members
  <2>2. {wire'[i].of : i \in DOMAIN wire'} = {}
    BY <1>1
  <2> QED  BY <2>1, <2>2, <1>1, <1>2 DEF Awaited
<1>4. /\ d \in Sent /\ id \in CorrelationIds /\ pendingRequests[id] = d /\ d # 0
      /\ pendingRequests \in [CorrelationIds -> 0 .. Len(cmds)]
      /\ \A e \in Awaited : cmds[e].corr \in CorrelationIds
  <2>1. Awaited \subseteq Sent /\ 0 \notin Sent
    BY KafkaAwaited DEF Sent
  <2>2. \A e \in Sent : cmds[e] \in Commands
    <3>1. cmds \in Seq(Commands)
      BY Zenon DEF CmdInv, CmdType
    <3> QED  BY <3>1 DEF Sent
  <2> QED  BY <2>1, <2>2, <1>3 DEF Commands, KafkaMatch, CmdInv, CmdType
<1>5. /\ pendingRequests' = [pendingRequests EXCEPT ![id] = 0]
      /\ results' = results \cup {[to |-> d, of |-> {d}]}
  BY <1>2, <1>4 DEF KafkaResponse, Complete
<1> HIDE DEF id
<1>6. /\ pendingRequests'[id] = 0
      /\ \A k \in CorrelationIds : k # id => pendingRequests'[k] = pendingRequests[k]
  BY <1>4, <1>5
<1>7. \A k \in CorrelationIds : pendingRequests'[k] # 0 => pendingRequests'[k] \in Awaited'
  <2> SUFFICES ASSUME NEW k \in CorrelationIds, pendingRequests'[k] # 0
               PROVE  pendingRequests[k] \in Members(owed) /\ pendingRequests'[k] = pendingRequests[k]
    BY <1>3
  <2>1. k # id /\ pendingRequests'[k] = pendingRequests[k]
    BY <1>6
  <2>2. pendingRequests[k] \in Awaited
    BY <2>1, Zenon DEF KafkaMatch
  <2>3. pendingRequests[k] # d
    BY <2>1, <2>2, <1>4 DEF CmdInv, RequestInv, id
  <2> QED  BY <2>1, <2>2, <2>3, <1>3
<1>8. \A e \in Awaited' : pendingRequests'[cmds[e].corr] = e
  <2> SUFFICES ASSUME NEW e \in Members(owed)  PROVE pendingRequests'[cmds[e].corr] = e
    BY <1>3, Zenon
  <2>1. e # d /\ e \in Awaited /\ pendingRequests[cmds[e].corr] = e /\ cmds[e].corr \in CorrelationIds
    BY <1>1, <1>3, <1>4 DEF KafkaMatch
  <2> QED  BY <2>1, <1>4, <1>6
<1>9. ResultInv'
  <2>1. \A r \in results' : r.of = {r.to}
    BY <1>5, ResultAdded, Zenon
  <2> QED  BY <2>1, <1>1 DEF ResultInv, SameOf
<1> QED  BY <1>1, <1>7, <1>8, <1>9 DEF KafkaMatch

LEMMA KafkaClose ==
  ASSUME ResultInv, KafkaMatch, CloseStream
  PROVE  ResultInv' /\ KafkaMatch'
<1>1. UNCHANGED <<cs, cmds, wire, owed, results, pendingRequests>>
  BY DEF CloseStream, clientVars
<1>2. Awaited' = Awaited
  BY <1>1, ZenonT(30) DEF Awaited
<1> QED  BY <1>1, <1>2, Zenon DEF ResultInv, KafkaMatch, SameOf, Injective, Members

-----------------------------------------------------------------------------
\* MySQL

LEMMA RestKept ==
  ASSUME cs' = cs
  PROVE  /\ \A w : w = wire' => (Rest1(w) <=> Rest1(wire)')
         /\ \A w : w = wire' => (Rest2(w) <=> Rest2(wire)')
         /\ \A w : w = wire' => (Rest3(w) <=> Rest3(wire)')
         /\ \A w : w = wire' => (Rest4(w) <=> Rest4(wire)')
BY ZenonT(30) DEF Rest0, Rest1, Rest2, Rest3, Rest4

LEMMA LastAwaited ==
  ASSUME CmdInv, SameOf(wire), Len(Outstanding) <= 1, wire # <<>>
  PROVE  owed = <<>> /\ Awaited = {wire[1].of}
<1>1. Outstanding = <<wire[1].of>> \o owed /\ owed \in Seq(Sent) /\ Awaited = Members(Outstanding)
  BY OutFacts, Zenon DEF CmdInv, WireInv
<1>2. /\ Len(<<wire[1].of>> \o owed) = Len(owed) + 1
      /\ Members(<<wire[1].of>> \o owed) = {wire[1].of} \cup Members(owed)
  BY <1>1, ConsFacts, Zenon
<1>3. owed = <<>>
  BY <1>1, <1>2
<1>4. Members(owed) = {}
  BY <1>3 DEF Members
<1> QED  BY <1>1, <1>2, <1>3, <1>4

LEMMA MySQLGreet ==
  ASSUME CmdInv, ResultInv, MySQLMatch, Greet
  PROVE  ResultInv' /\ MySQLMatch'
<1>1. /\ cmds = <<>> /\ wire = <<>> /\ owed = <<>> /\ pending = <<>> /\ ~handshakeComplete
      /\ session' = "auth" /\ wire' = <<Pkt("greeting", 10, 0)>>
      /\ UNCHANGED <<cs, cmds, owed, pending, handshakeComplete, rset, results>>
  BY DEF Greet, streamVars, MySQLMatch, SessionInv
<1>2. /\ wire' # <<>> /\ wire'[1] = Pkt("greeting", 10, 0) /\ Tail(wire') = <<>> /\ DOMAIN wire' = {1}
  BY <1>1
<1>3. wire'[1].t = "greeting" /\ wire'[1].of = 0 /\ SameOf(wire')
  BY <1>2 DEF Pkt, SameOf
<1>4. Outstanding' = <<0>> \o <<>> /\ Range(owed') = {}
  BY <1>1, <1>2, <1>3 DEF Outstanding, Range
<1>5. Len(Outstanding') <= 1
  BY <1>4
<1>6. Awaited' = {0}
  BY <1>2, <1>3, <1>4, ZenonT(30) DEF Awaited
<1>7. rset.phase = "none" /\ rset = NoSet
  BY <1>1 DEF MySQLMatch
<1>8. ~Ahead'
  BY <1>1 DEF Ahead
<1>9. SessionInv'
  BY <1>1, <1>2, <1>3, <1>6, Zenon DEF SessionInv
<1> QED  BY <1>1, <1>3, <1>5, <1>7, <1>8, <1>9 DEF ResultInv, MySQLMatch

LEMMA FirstOf ==
  ASSUME NEW S, NEW q \in Seq(S), NEW x \in S
  PROVE  /\ <<x>> \o q \in Seq(S) /\ <<x>> \o q # <<>>
         /\ (<<x>> \o q)[1] = x /\ Tail(<<x>> \o q) = q
<1>1. S \cup {x} = S
  OBVIOUS
<1>2. (<<x>> \o q)[1] = x
  OBVIOUS
<1> QED  BY <1>1, <1>2, ConsFacts

LEMMA TimesFacts ==
  ASSUME NEW p
  PROVE  Times(0, p) = <<>> /\ Times(1, p) = <<p>> /\ Times(2, p) = <<p>> \o <<p>>
<1>1. Times(0, p) = <<>> /\ Times(1, p) = <<p>>
  BY DEF Times
<1>2. Times(2, p) = <<p>> \o <<p>>
  <2>1. /\ Times(2, p) \in Seq({p}) /\ Len(Times(2, p)) = 2
        /\ \A i \in 1 .. 2 : Times(2, p)[i] = p
    BY DEF Times
  <2>2. /\ <<p>> \o <<p>> \in Seq({p}) /\ Len(<<p>> \o <<p>>) = 2
        /\ \A i \in 1 .. 2 : (<<p>> \o <<p>>)[i] = p
    OBVIOUS
  <2> QED  BY <2>1, <2>2, SeqEqual
<1> QED  BY <1>1, <1>2

\* The result sets of the environment are the ones whose rests are described above.
LEMMA SetIsWhole ==
  ASSUME NEW c, NEW n \in 1 .. 2, NEW m \in 0 .. 1, NEW last \in {cs.last, "err"}
  PROVE  WholeSet(ResultSet(n, m, last, c))
<1> DEFINE header == Pkt("header", n, c)
           col == Pkt("col", 3, c)
           eof == Pkt("eof", 0, c)
           row == Pkt("row", 1, c)
           end == Pkt(last, 0, c)
           S == {header, col, eof, row, end}
           cols == Times(n, col)
           rows == Times(m, row)
           r1 == rows \o <<end>>
           r2 == Middle(c) \o r1
           r3 == <<col>> \o r2
           r4 == <<col>> \o r3
<1>1. /\ header.t = "header" /\ header.n = n /\ col.t = "col" /\ eof.t = "eof" /\ row.t = "row"
      /\ end.t = last /\ header \in S /\ col \in S /\ eof \in S /\ row \in S /\ end \in S
  BY DEF Pkt
<1>2. ResultSet(n, m, last, c) = (((<<header>> \o cols) \o Middle(c)) \o rows) \o <<end>>
  BY DEF ResultSet
<1> HIDE DEF header, col, eof, row, end, S
<1>3. /\ <<header>> \in Seq(S) /\ cols \in Seq(S) /\ Middle(c) \in Seq(S) /\ rows \in Seq(S) /\ <<end>> \in Seq(S)
      /\ <<>> \in Seq(S)
  <2>1. cols \in Seq(S) /\ rows \in Seq(S)
    BY <1>1, TimesLemma
  <2>2. Middle(c) \in {<<>>, <<eof>>}
    BY DEF Middle, eof
  <2>3. <<header>> \in Seq(S) /\ <<end>> \in Seq(S) /\ <<eof>> \in Seq(S) /\ <<>> \in Seq(S)
    BY <1>1
  <2> QED  BY <2>1, <2>2, <2>3, Zenon
<1>4. Rest0(<<end>>)
  <2>1. <<end>> # <<>> /\ <<end>>[1] = end /\ Tail(<<end>>) = <<>>
    OBVIOUS
  <2> QED  BY <2>1, <1>1 DEF Rest0
<1>5. Rest1(r1) /\ r1 \in Seq(S)
  <2>1. CASE m = 0
    <3>1. r1 = <<end>>
      BY <2>1, <1>3, TimesFacts, ConcatEmptySeq, Zenon
    <3> QED  BY <3>1, <1>3, <1>4, Zenon DEF Rest1
  <2>2. CASE m = 1
    <3>1. r1 = <<row>> \o <<end>>
      BY <2>2, TimesFacts, Zenon
    <3>2. /\ <<row>> \o <<end>> \in Seq(S) /\ <<row>> \o <<end>> # <<>>
          /\ (<<row>> \o <<end>>)[1] = row /\ Tail(<<row>> \o <<end>>) = <<end>>
      BY <1>1, <1>3, FirstOf, Zenon
    <3>3. r1 \in Seq(S) /\ r1 # <<>> /\ r1[1] = row /\ Tail(r1) = <<end>>
      BY <3>1, <3>2, Zenon
    <3> QED  BY <3>3, <1>1, <1>4, Zenon DEF Rest1
  <2> QED  BY <2>1, <2>2
<1>6. Rest2(r2) /\ r2 \in Seq(S)
  <2>1. CASE cs.eofs
    <3>1. r2 = <<eof>> \o r1
      BY <2>1 DEF Middle, eof
    <3>2. /\ <<eof>> \o r1 \in Seq(S) /\ <<eof>> \o r1 # <<>>
          /\ (<<eof>> \o r1)[1] = eof /\ Tail(<<eof>> \o r1) = r1
      BY <1>1, <1>5, FirstOf, Zenon
    <3>3. r2 \in Seq(S) /\ r2 # <<>> /\ r2[1] = eof /\ Tail(r2) = r1
      BY <3>1, <3>2, Zenon
    <3> QED  BY <2>1, <3>3, <1>1, <1>5, Zenon DEF Rest2
  <2>2. CASE ~cs.eofs
    <3>1. r2 = r1
      BY <2>2, <1>5, ConcatEmptySeq DEF Middle
    <3> QED  BY <2>2, <3>1, <1>5, Zenon DEF Rest2
  <2> QED  BY <2>1, <2>2
<1>7. Rest3(r3) /\ r3 \in Seq(S)
  <2>1. r3 \in Seq(S) /\ r3 # <<>> /\ r3[1] = col /\ Tail(r3) = r2
    BY <1>1, <1>6, FirstOf, ZenonT(30)
  <2> QED  BY <2>1, <1>1, <1>6, Zenon DEF Rest3
<1>8. Rest4(r4) /\ r4 \in Seq(S)
  <2>1. r4 \in Seq(S) /\ r4 # <<>> /\ r4[1] = col /\ Tail(r4) = r3
    BY <1>1, <1>7, FirstOf, Zenon
  <2> QED  BY <2>1, <1>1, <1>7, Zenon DEF Rest4
<1>9. ResultSet(n, m, last, c) = <<header>> \o (cols \o r2) /\ cols \o r2 \in Seq(S)
  <2> HIDE DEF cols, rows
  <2>1. (<<header>> \o cols) \o Middle(c) = <<header>> \o (cols \o Middle(c))
    BY <1>3, ConcatAssociative
  <2>2. /\ cols \o Middle(c) \in Seq(S) /\ (cols \o Middle(c)) \o rows \in Seq(S)
        /\ Middle(c) \o rows \in Seq(S) /\ cols \o r2 \in Seq(S)
    BY <1>3, <1>6, ConcatProperties
  <2>3. (<<header>> \o (cols \o Middle(c))) \o rows = <<header>> \o ((cols \o Middle(c)) \o rows)
    BY <1>3, <2>2, ConcatAssociative
  <2>4. (<<header>> \o ((cols \o Middle(c)) \o rows)) \o <<end>>
          = <<header>> \o (((cols \o Middle(c)) \o rows) \o <<end>>)
    BY <1>3, <2>2, ConcatAssociative
  <2>5. (cols \o Middle(c)) \o rows = cols \o (Middle(c) \o rows)
    BY <1>3, ConcatAssociative
  <2>6. (cols \o (Middle(c) \o rows)) \o <<end>> = cols \o ((Middle(c) \o rows) \o <<end>>)
    BY <1>3, <2>2, ConcatAssociative
  <2>7. (Middle(c) \o rows) \o <<end>> = r2
    BY <1>3, ConcatAssociative
  <2> QED  BY <1>2, <2>1, <2>2, <2>3, <2>4, <2>5, <2>6, <2>7, Zenon
<1>10. n = 1 => cols \o r2 = r3
  BY TimesFacts, Zenon
<1>11. n = 2 => cols \o r2 = r4
  <2>1. n = 2 => cols = <<col>> \o <<col>>
    BY TimesFacts
  <2>2. (<<col>> \o <<col>>) \o r2 = r4
    <3>1. <<col>> \in Seq(S)
      BY <1>1
    <3> QED  BY <3>1, <1>6, ConcatAssociative
  <2> QED  BY <2>1, <2>2, Zenon
<1> DEFINE w == ResultSet(n, m, last, c)
<1> HIDE DEF w, cols, r2, r3, r4
<1>12. w # <<>> /\ w[1] = header /\ Tail(w) = cols \o r2
  <2> DEFINE q == cols \o r2
  <2>1. header \in S /\ q \in Seq(S)
    BY <1>1, <1>9
  <2>2. w = <<header>> \o q
    BY <1>9, Zenon DEF w
  <2> HIDE DEF q, header, S
  <2>3. <<header>> \o q # <<>> /\ (<<header>> \o q)[1] = header /\ Tail(<<header>> \o q) = q
    BY <2>1, FirstOf
  <2> QED  BY <2>2, <2>3, Zenon DEF q
<1>13. w[1].t = "header" /\ w[1].n = n
  BY <1>1, <1>12
<1>14. n = 1 \/ n = 2
  OBVIOUS
<1>15. WholeSet(w)
  BY <1>7, <1>8, <1>10, <1>11, <1>12, <1>13, <1>14, Zenon DEF WholeSet
<1> QED  BY <1>15, Zenon DEF w

\* The answers to commands and to credentials.
LEMMA CommandAnswer ==
  ASSUME CmdInv, KindInv, Regular, cs.proto = "mysql", NEW c \in Sent, NEW w \in Answers(c),
         cmds[c].kind # "auth"
  PROVE  WholeSet(w) \/ (w[1].t \in {"ok", "err"} /\ (cs.pipelined => Tail(w) = <<>>))
<1>1. cmds[c].kind \in cs.kinds
  BY DEF KindInv, Sent
<1>2. cs.kinds \subseteq {"query", "prepare", "close"}
  BY CmdAssumption, Zenon DEF CmdInv, CmdType, Kinds
<1>3. cmds[c].kind \in {"query", "prepare"} /\ (cs.pipelined => cmds[c].kind # "prepare")
  BY <1>1, <1>2 DEF Regular, Silent
<1>4. CASE cmds[c].kind = "query"
  <2>1. w \in {<<Pkt("ok", 0, c)>>, <<Pkt("err", 0, c)>>} \cup ResultSets(c)
    BY <1>4 DEF Answers
  <2>2. CASE w \in ResultSets(c)
    <3>1. PICK n \in 1 .. 2, m \in 0 .. 1, last \in {cs.last, "err"} : w = ResultSet(n, m, last, c)
      BY <2>2 DEF ResultSets
    <3> QED  BY <3>1, SetIsWhole, Zenon
  <2>3. CASE w = <<Pkt("ok", 0, c)>>
    <3>1. w[1] = Pkt("ok", 0, c) /\ Tail(w) = <<>>
      BY <2>3
    <3> QED  BY <3>1 DEF Pkt
  <2>4. CASE w = <<Pkt("err", 0, c)>>
    <3>1. w[1] = Pkt("err", 0, c) /\ Tail(w) = <<>>
      BY <2>4
    <3> QED  BY <3>1 DEF Pkt
  <2> QED  BY <2>1, <2>2, <2>3, <2>4, Zenon
<1>5. CASE cmds[c].kind = "prepare"
  <2>1. w = <<Pkt("ok", 0, c), Pkt("col", 3, c)>> \o Middle(c)
    BY <1>5 DEF Answers
  <2>2. w[1] = Pkt("ok", 0, c)
    BY <2>1, MiddleLemma
  <2>3. w[1].t = "ok"
    BY <2>2 DEF Pkt
  <2> QED  BY <2>3, <1>3, <1>5
<1> QED  BY <1>3, <1>4, <1>5

LEMMA AuthAnswer ==
  ASSUME NEW c, NEW w \in Answers(c), cmds[c].kind = "auth"
  PROVE  w[1].t \in cs.auths /\ Tail(w) = <<>>
<1>1. w \in {<<Pkt(t, 1, c)>> : t \in cs.auths}
  BY DEF Answers
<1>2. PICK t \in cs.auths : w = <<Pkt(t, 1, c)>>
  BY <1>1
<1>3. w[1] = Pkt(t, 1, c) /\ Tail(w) = <<>>
  BY <1>2
<1> QED  BY <1>3 DEF Pkt

LEMMA AwaitedOut == CmdInv /\ SameOf(wire) => Awaited = Members(Outstanding)
BY OutFacts

LEMMA MySQLAnswer ==
  ASSUME CmdInv, KindInv, Regular, ResultInv, MySQLMatch, cs.proto = "mysql", Answer
  PROVE  ResultInv' /\ MySQLMatch'
<1> DEFINE c == owed[1]
<1>1. /\ wire = <<>> /\ owed # <<>> /\ owed' = Tail(owed) /\ wire' \in Answers(c)
      /\ wire' # <<>> /\ wire'[1].of = c /\ c \in Sent /\ SameOf(wire')
      /\ Outstanding = owed /\ Outstanding' = Outstanding
      /\ session' = IF wire'[1].t = "ok" THEN "ready" ELSE session
      /\ UNCHANGED <<cs, cmds, streamClosed, streamVars>>
  BY OutAnswer, Zenon
<1>2. UNCHANGED <<cs, cmds, pending, rset, results, handshakeComplete>> /\ c # 0
  BY <1>1 DEF streamVars, Sent
<1>3. /\ Awaited = Members(Outstanding) /\ Awaited' = Members(Outstanding) /\ owed \in Seq(Sent)
  <2>1. CmdInv'
    BY AnswerInv
  <2>2. Awaited' = Members(Outstanding)'
    <3>1. SameOf(wire)'
      BY <1>1
    <3>2. (Awaited = Members(Outstanding))'
      BY <2>1, <3>1, AwaitedOut, PTL
    <3> QED  BY <3>2
  <2>3. Members(Outstanding)' = Members(Outstanding')
    BY DEF Members
  <2> QED  BY <2>2, <2>3, <1>1, OutFacts, Zenon DEF ResultInv, CmdInv, WireInv
<1>4. c \in Awaited /\ c \in Members(owed)
  BY <1>1, <1>3 DEF Members
<1>5. /\ Tail(owed) \in Seq(Sent) /\ Members(Tail(owed)) \subseteq Members(owed)
      /\ Len(owed) <= 1 => Tail(owed) = <<>>
  <2>1. /\ Len(owed) \in Nat /\ DOMAIN owed = 1 .. Len(owed) /\ Tail(owed) \in Seq(Sent)
        /\ DOMAIN Tail(owed) = 1 .. Len(owed) - 1 /\ Len(Tail(owed)) = Len(owed) - 1
        /\ \A i \in 1 .. Len(owed) - 1 : Tail(owed)[i] = owed[i + 1]
    BY <1>1, <1>3
  <2>2. \A i \in DOMAIN Tail(owed) : i + 1 \in DOMAIN owed /\ Tail(owed)[i] = owed[i + 1]
    BY <2>1
  <2>3. Members(Tail(owed)) \subseteq Members(owed)
    BY <2>2 DEF Members
  <2>4. Len(owed) <= 1 => Tail(owed) = <<>>
    BY <2>1
  <2> QED  BY <2>1, <2>3, <2>4
<1>6. session \in {"auth", "ready"} /\ session' \in {"auth", "ready"} /\ (session = "ready" => session' = "ready")
  BY <1>1, Zenon DEF MySQLMatch, SessionInv
<1>7. session = "auth" <=> cmds[c].kind = "auth"
  BY <1>2, <1>4, <1>6, Zenon DEF MySQLMatch, SessionInv
<1>8. session = "auth" => wire'[1].t \in cs.auths /\ Tail(wire') = <<>> /\ ~Ahead /\ ~Ahead'
  BY <1>1, <1>2, <1>3, <1>4, <1>7, AuthAnswer, Zenon DEF Ahead
<1>9. session = "ready" => (Ahead <=> Ahead')
  BY <1>2, <1>3, <1>6 DEF Ahead
<1>10. rset.phase = "none"
  BY <1>1 DEF MySQLMatch
<1>11. pending # <<>> => WholeAnswer(wire)'
  <2>1. CASE session = "auth"
    <3>1. pending # <<>> => "more" \notin cs.auths
      BY <2>1 DEF MySQLMatch, SessionInv, Regular
    <3>2. cs.auths \subseteq {"ok", "more", "switch"}
      BY CmdAssumption DEF CmdInv, CmdType
    <3>3. pending # <<>> => wire'[1].t \in {"ok", "err", "switch"}
      BY <3>1, <3>2, <2>1, <1>8
    <3> QED  BY <3>3, <2>1, <1>8 DEF WholeAnswer
  <2>2. CASE session = "ready"
    <3>1. \/ WholeSet(wire')
          \/ wire'[1].t \in {"ok", "err"} /\ (cs.pipelined => Tail(wire') = <<>>)
      BY <2>2, <1>1, <1>7, CommandAnswer
    <3>2. WholeSet(wire') => WholeSet(wire)'
      BY <1>2, RestKept, Zenon DEF WholeSet, Rest0, Rest1, Rest2, Rest3, Rest4
    <3> QED  BY <3>1, <3>2, <1>2 DEF WholeAnswer
  <2> QED  BY <2>1, <2>2, <1>6
<1>12. ~Ahead' => Len(Outstanding') <= 1
  BY <1>1, <1>6, <1>8, <1>9 DEF MySQLMatch
<1>13. SessionInv'
  <2>1. CASE session' = "auth"
    <3>1. session = "auth" /\ wire'[1].t # "ok"
      BY <2>1, <1>1, <1>6
    <3> QED  BY <3>1, <2>1, <1>2, <1>3, <1>8 DEF SessionInv, MySQLMatch
  <2>2. CASE session' = "ready" /\ session = "ready"
    <3>1. \A d \in Members(owed') : cmds'[d].kind # "auth"
      BY <2>2, <1>1, <1>2, <1>5, Zenon DEF SessionInv, MySQLMatch
    <3>2. cs.auth => handshakeComplete
      BY <2>2, <1>1, Zenon DEF SessionInv, MySQLMatch
    <3> QED  BY <3>1, <3>2, <2>2, <1>2, Zenon DEF SessionInv, Members
  <2>3. CASE session' = "ready" /\ session = "auth"
    <3>1. wire'[1].t = "ok" /\ cmds[c].kind = "auth"
      BY <2>3, <1>1, <1>7, Zenon
    <3>2. owed' = <<>>
      BY <2>3, <1>1, <1>5, <1>8 DEF MySQLMatch
    <3>3. Members(owed)' = {}
      BY <3>2 DEF Members
    <3> QED  BY <3>1, <3>3, <2>3, <1>1, <1>2, Zenon DEF SessionInv
  <2> QED  BY <2>1, <2>2, <2>3, <1>6, Zenon
<1>14. Ahead' => pending = Outstanding
  BY <1>6, <1>8, <1>9, <1>10, ZenonT(30) DEF MySQLMatch
<1>15. MySQLMatch'
  BY <1>1, <1>2, <1>10, <1>11, <1>12, <1>13, <1>14 DEF MySQLMatch
<1> QED  BY <1>1, <1>2, <1>15 DEF ResultInv

LEMMA MySQLSend ==
  ASSUME CmdInv, Regular, ResultInv, MySQLMatch, cs.proto = "mysql", ~overflow',
         NEW kind \in cs.kinds \cup {"auth"}, NEW corr \in cs.ids, SendsCommand(kind, corr),
         MySQLRequest(Len(cmds) + 1)
  PROVE  ResultInv' /\ MySQLMatch'
<1> DEFINE c == Len(cmds) + 1
<1>1. kind \notin Silent
  BY ZenonT(30) DEF Regular, SendsCommand, CmdInv, WireInv, Silent
<1>2. /\ Outstanding' = Append(Outstanding, c) /\ owed' = Append(owed, c) /\ SameOf(wire')
      /\ Members(Outstanding)' = Members(Outstanding) \cup {c}
  BY <1>1, OutSend DEF ResultInv
<1>3. /\ Len(cmds) \in Nat /\ cmds'[c].kind = kind
      /\ \A d \in Sent : cmds'[d] = cmds[d]
  BY SendFacts, Zenon
<1>4. UNCHANGED <<cs, session, wire, rset, handshakeComplete, results>>
  BY DEF SendsCommand, MySQLRequest
<1>5. session = IF kind = "auth" THEN "auth" ELSE "ready"
  BY DEF SendsCommand
<1>6. /\ handshakeComplete => pending' = Append(pending, c)
      /\ ~handshakeComplete => pending' = pending
  BY Zenon DEF MySQLRequest
<1>7. /\ Outstanding \in Seq(0 .. Len(cmds)) /\ Awaited = Members(Outstanding)
      /\ Awaited \subseteq 0 .. Len(cmds) /\ owed \in Seq(Sent) /\ Members(owed) \subseteq Sent
  <2>1. Outstanding \in Seq(0 .. Len(cmds)) /\ Awaited = Members(Outstanding) /\ owed \in Seq(Sent)
    BY OutFacts DEF ResultInv, CmdInv, WireInv
  <2>2. Members(Outstanding) \subseteq 0 .. Len(cmds) /\ Members(owed) \subseteq Sent
    BY <2>1 DEF Members
  <2> QED  BY <2>1, <2>2
<1>8. Awaited' = Awaited \cup {c} /\ \A d \in Awaited : d # 0 => cmds'[d] = cmds[d]
  <2>1. CmdInv'
    <3>1. ClientSends
      BY DEF ClientSends, SendsCommand
    <3> QED  BY <3>1, ClientSendsInv, Zenon
  <2>2. (Awaited = Members(Outstanding))'
    <3>1. SameOf(wire)'
      BY <1>2
    <3> QED  BY <2>1, <3>1, AwaitedOut, PTL
  <2>3. \A d \in Awaited : d # 0 => d \in Sent
    BY <1>3, <1>7 DEF Sent
  <2> QED  BY <2>2, <2>3, <1>2, <1>3, <1>7
<1>9. Members(owed)' = Members(owed) \cup {c}
  <2>1. Members(Append(owed, c)) = Members(owed) \cup {c}
    BY <1>7, AppendMembers
  <2> QED  BY <2>1, <1>2 DEF Members
<1>10. c # 0
  BY <1>3
<1>11. ResultInv'
  BY <1>2, <1>4, Zenon DEF ResultInv
<1>12. CASE Awaited = {}
  <2>1. Outstanding = <<>> /\ wire = <<>> /\ owed = <<>>
    <3>1. Outstanding = <<>>
      BY <1>7, <1>12, SeqFacts, Zenon
    <3>2. wire = <<>>
      BY <3>1, OutFacts DEF ResultInv
    <3> QED  BY <3>1, <3>2, OutFacts DEF ResultInv
  <2>2. pending = <<>> /\ rset.phase = "none" /\ rset = NoSet
    BY <2>1 DEF MySQLMatch
  <2>3. Outstanding' = <<c>> /\ Len(Outstanding') = 1 /\ (pending' = <<>> \/ pending' = Outstanding')
    BY <2>1, <2>2, <1>2, <1>6
  <2>4. SessionInv'
    <3>1. CASE kind = "auth"
      <4>1. \A d \in Awaited' : cmds'[d].kind = "auth"
        BY <1>3, <1>8, <1>12, <3>1, Zenon
      <4> QED  BY <3>1, <4>1, <2>1, <1>4, <1>5 DEF SessionInv, MySQLMatch
    <3>2. CASE kind # "auth"
      <4>1. \A d \in Members(owed)' : cmds'[d].kind # "auth"
        <5>1. Members(owed) = {}
          BY <2>1 DEF Members
        <5> QED  BY <5>1, <1>3, <1>9, <3>2
      <4>2. cs.auth => handshakeComplete
        BY <2>1, <3>2, <1>5 DEF SessionInv, MySQLMatch
      <4> QED  BY <3>2, <4>1, <4>2, <1>4, <1>5, Zenon DEF SessionInv
    <3> QED  BY <3>1, <3>2, Zenon
  <2>5. Ahead' => pending' = Outstanding'
    <3>1. Ahead' => cs.pipelined /\ session = "ready"
      BY <1>4 DEF Ahead
    <3>2. cs.pipelined => cs.auth
      BY Zenon DEF Regular
    <3>3. Ahead' => handshakeComplete
      BY <3>1, <3>2, <2>1 DEF MySQLMatch, SessionInv
    <3> QED  BY <3>3, <2>1, <2>2, <1>2, <1>6
  <2>6. pending' # <<>> => handshakeComplete
    BY <2>2, <1>6
  <2> QED  BY <2>1, <2>2, <2>3, <2>4, <2>5, <2>6, <1>4, <1>11 DEF MySQLMatch
<1>13. CASE Awaited # {}
  <2>1. /\ cs.pipelined /\ \A d \in Awaited : d # 0 /\ cmds[d].kind # "auth"
    BY <1>13 DEF SendsCommand, MaySend
  <2>2. session = "ready" /\ kind # "auth"
    <3>1. session # "auth"
      BY <1>13, <2>1 DEF MySQLMatch, SessionInv
    <3> QED  BY <3>1, <1>5, Zenon
  <2>3. Ahead
    BY <2>1, <2>2 DEF Ahead
  <2>4. Ahead'
    BY <2>1, <2>2, <1>3, <1>4, <1>8, <1>10, Zenon DEF Ahead
  <2>5. handshakeComplete
    <3>1. cs.auth
      BY <2>1 DEF Regular
    <3>2. wire # <<>> => wire[1].of \in Awaited
      <4>1. wire # <<>> => Outstanding # <<>> /\ Head(Outstanding) = wire[1].of
        BY OutFacts DEF ResultInv
      <4> QED  BY <4>1, <1>7 DEF Members
    <3> QED  BY <2>1, <2>2, <3>1, <3>2 DEF MySQLMatch, SessionInv
  <2>6. pending' = Append(pending, c)
    BY <2>5, <1>6
  <2>7. SessionInv'
    <3>1. \A d \in Members(owed)' : cmds'[d].kind # "auth"
      BY <2>2, <1>3, <1>7, <1>9, Zenon DEF MySQLMatch, SessionInv
    <3> QED  BY <3>1, <2>2, <2>5, <1>4, Zenon DEF SessionInv
  <2>8. CASE rset.phase = "none"
    <3>1. pending = Outstanding /\ rset = NoSet
      BY <2>3, <2>8 DEF MySQLMatch
    <3>2. wire # <<>> => WholeAnswer(wire)
      <4>1. wire # <<>> => pending # <<>>
        BY <3>1, OutFacts DEF ResultInv
      <4> QED  BY <4>1, <2>8 DEF MySQLMatch
    <3>3. wire' # <<>> => WholeAnswer(wire)'
      BY <3>2, <1>4, Zenon DEF WholeAnswer, WholeSet, Rest0, Rest1, Rest2, Rest3, Rest4
    <3>4. pending' = Outstanding'
      BY <3>1, <2>6, <1>2, Zenon
    <3> QED  BY <3>1, <3>3, <3>4, <2>4, <2>5, <2>7, <2>8, <1>4, <1>11 DEF MySQLMatch
  <2>9. CASE rset.phase # "none"
    <3>1. pending = owed /\ wire # <<>> /\ rset.active = wire[1].of /\ rset.of = {wire[1].of} /\ SetRest
      BY <2>3, <2>9 DEF MySQLMatch
    <3>2. pending' = owed'
      BY <3>1, <2>6, <1>2
    <3>3. SetRest'
      BY <3>1, <1>4, Zenon DEF SetRest, Rest0, Rest1, Rest2, Rest3, Rest4
    <3> QED  BY <3>1, <3>2, <3>3, <2>4, <2>5, <2>7, <2>9, <1>4, <1>11, Zenon DEF MySQLMatch
  <2> QED  BY <2>8, <2>9, Zenon
<1> QED  BY <1>12, <1>13, ZenonT(30)

\* What a packet does to what is awaited and to the session, whichever part of the
\* stream takes it.
LEMMA TakeFacts ==
  ASSUME CmdInv, ResultInv, MySQLMatch, ServerSends, TakesPacket
  PROVE  /\ Outstanding \in Seq(0 .. Len(cmds)) /\ Outstanding # <<>> /\ owed \in Seq(Sent)
         /\ Head(Outstanding) = wire[1].of /\ Tail(Outstanding) = owed
         /\ Awaited' \subseteq Awaited /\ wire[1].of \in Awaited
         /\ wire' = Tail(wire) /\ Head(wire) = wire[1] /\ SameOf(wire')
         /\ Ahead => Ahead'
         /\ Tail(wire) # <<>> => (Ahead' => Ahead) /\ wire'[1].of = wire[1].of /\ Outstanding' = Outstanding
         /\ Tail(wire) = <<>> => Outstanding' = owed
         /\ ~Ahead => owed = <<>>
         /\ ~Ahead' => Len(Outstanding') <= 1
<1>1. UNCHANGED <<cs, session, cmds, owed>> /\ wire' = Tail(wire) /\ wire # <<>>
  BY Zenon DEF TakesPacket
<1>2. /\ SameOf(wire') /\ Outstanding # <<>> /\ Head(Outstanding) = wire[1].of
      /\ Tail(wire) = <<>> => Outstanding' = owed
      /\ Tail(wire) # <<>> => Outstanding' = Outstanding /\ wire'[1].of = wire[1].of
      /\ Tail(Outstanding) = owed /\ Head(wire) = wire[1]
  BY OutTake, Zenon DEF ResultInv
<1>3. Outstanding \in Seq(0 .. Len(cmds)) /\ Awaited = Members(Outstanding) /\ owed \in Seq(Sent)
  BY OutFacts DEF ResultInv, CmdInv, WireInv
<1>4. (Awaited = Members(Outstanding))'
  <2>1. CmdInv'
    BY ServerSendsInv, Zenon
  <2>2. SameOf(wire)'
    BY <1>2
  <2> QED  BY <2>1, <2>2, AwaitedOut, PTL
<1>5. Members(owed) \subseteq Members(Outstanding) /\ wire[1].of \in Awaited
  <2>1. Outstanding = <<wire[1].of>> \o owed
    BY <1>1, OutFacts DEF ResultInv
  <2>2. Members(<<wire[1].of>> \o owed) = {wire[1].of} \cup Members(owed)
    BY <1>3, ConsFacts, Zenon
  <2> QED  BY <2>1, <2>2, <1>3
<1>6. /\ Awaited' \subseteq Awaited
      /\ Tail(wire) # <<>> => Awaited' = Awaited
  BY <1>2, <1>3, <1>4, <1>5, Zenon DEF Members
<1>7. Ahead => Ahead'
  BY <1>1, <1>6 DEF Ahead
<1>8. Tail(wire) # <<>> => (Ahead' => Ahead)
  BY <1>1, <1>6 DEF Ahead
<1>9. ~Ahead => owed = <<>>
  BY <1>1, LastAwaited DEF MySQLMatch, ResultInv
<1>10. ~Ahead' => Len(Outstanding') <= 1
  <2>1. ~Ahead' => Len(Outstanding) <= 1 /\ owed = <<>>
    BY <1>7, <1>9 DEF MySQLMatch
  <2>2. Outstanding' = Outstanding \/ Outstanding' = owed
    BY <1>2
  <2>3. Len(<<>>) <= 1
    OBVIOUS
  <2> QED  BY <2>1, <2>2, <2>3
<1> QED  BY <1>1, <1>2, <1>3, <1>5, <1>6, <1>7, <1>8, <1>9, <1>10, Zenon

\* The session after a packet.
LEMMA TakeSession ==
  ASSUME CmdInv, ResultInv, MySQLMatch, ServerSends, TakesPacket,
         handshakeComplete => handshakeComplete',
         ~handshakeComplete /\ handshakeComplete' /\ session = "auth" => wire[1].t \in {"ok", "eof", "fe9", "switch", "err"},
         ~handshakeComplete /\ session = "ready" /\ wire[1].t = "ok" => handshakeComplete'
  PROVE  SessionInv'
<1>1. UNCHANGED <<cs, session, cmds, owed>> /\ wire' = Tail(wire) /\ wire # <<>>
  BY Zenon DEF TakesPacket
<1>2. session \in {"auth", "ready"} /\ Awaited' \subseteq Awaited
  BY <1>1, TakeFacts, Zenon DEF MySQLMatch, SessionInv
<1>3. CASE session = "auth"
  <2>1. /\ \A d \in Awaited' : d = 0 \/ cmds'[d].kind = "auth"
        /\ wire' = <<>>
    BY <1>1, <1>2, <1>3 DEF MySQLMatch, SessionInv
  <2>2. handshakeComplete' => "switch" \in cs.auths
    <3>1. cs.auths \subseteq {"ok", "more", "switch"}
      BY CmdAssumption, Zenon DEF CmdInv, CmdType
    <3>2. wire[1].t \in {"greeting"} \cup (cs.auths \ {"ok"})
      BY <1>1, <1>3, Zenon DEF MySQLMatch, SessionInv
    <3>3. CASE handshakeComplete
      BY <3>3, <1>3 DEF MySQLMatch, SessionInv
    <3>4. CASE ~handshakeComplete
      BY <3>1, <3>2, <3>4, <1>3, Zenon
    <3> QED  BY <3>3, <3>4
  <2> QED  BY <1>1, <1>3, <2>1, <2>2, Zenon DEF SessionInv
<1>4. CASE session = "ready"
  <2>1. \A d \in Members(owed)' : cmds'[d].kind # "auth"
    BY <1>1, <1>4 DEF MySQLMatch, SessionInv, Members
  <2>2. cs.auth => handshakeComplete'
    BY <1>4, Zenon DEF MySQLMatch, SessionInv
  <2> QED  BY <1>1, <1>4, <2>1, <2>2, Zenon DEF SessionInv
<1> QED  BY <1>2, <1>3, <1>4

\* A packet that no command awaits.
LEMMA MySQLIgnored ==
  ASSUME CmdInv, ResultInv, MySQLMatch, ServerSends, TakesPacket,
         rset.phase = "none", pending = <<>>, Uncorrelated(Head(wire))
  PROVE  ResultInv' /\ MySQLMatch'
<1>1. /\ Head(wire) = wire[1] /\ SameOf(wire')
      /\ Tail(wire) # <<>> => (Ahead' => Ahead)
      /\ Tail(wire) = <<>> => Outstanding' = owed
      /\ ~Ahead => owed = <<>>
      /\ ~Ahead' => Len(Outstanding') <= 1
      /\ Outstanding # <<>>
  BY TakeFacts
<1>2. /\ UNCHANGED <<pending, rset, results>>
      /\ handshakeComplete' = (handshakeComplete \/ wire[1].t \in {"ok", "eof", "fe9", "switch", "err"})
  BY <1>1, Zenon DEF Uncorrelated
<1>3. SessionInv'
  <2>1. handshakeComplete => handshakeComplete'
    BY <1>2, Zenon
  <2>2. wire[1].t = "ok" => handshakeComplete'
    BY <1>2, Zenon
  <2>3. ~handshakeComplete /\ handshakeComplete' => wire[1].t \in {"ok", "eof", "fe9", "switch", "err"}
    BY <1>2, Zenon
  <2> QED  BY <2>1, <2>2, <2>3, TakeSession, Zenon
<1>4. ~Ahead
  BY <1>1 DEF MySQLMatch
<1>5. Ahead' => pending' = Outstanding'
  BY <1>1, <1>2, <1>4
<1>6. ResultInv'
  BY <1>1, <1>2 DEF ResultInv
<1> QED  BY <1>1, <1>2, <1>3, <1>5, <1>6, Zenon DEF MySQLMatch

\* The oldest command's answer, or the beginning of it.
LEMMA MySQLMatched ==
  ASSUME CmdInv, ResultInv, MySQLMatch, ServerSends, TakesPacket,
         rset.phase = "none", pending # <<>>, Correlated(Head(wire))
  PROVE  ResultInv' /\ MySQLMatch'
<1> DEFINE d == wire[1].of
<1>1. /\ Head(wire) = wire[1] /\ SameOf(wire') /\ wire' = Tail(wire)
      /\ Tail(wire) # <<>> => (Ahead' => Ahead) /\ wire'[1].of = d /\ Outstanding' = Outstanding
      /\ Tail(wire) = <<>> => Outstanding' = owed
      /\ ~Ahead => owed = <<>>
      /\ ~Ahead' => Len(Outstanding') <= 1
      /\ Head(Outstanding) = d /\ Tail(Outstanding) = owed
  BY TakeFacts, Zenon
<1>2. /\ UNCHANGED <<cs, session, owed>> /\ wire # <<>>
      /\ handshakeComplete /\ handshakeComplete' = handshakeComplete
      /\ pending = Outstanding /\ rset = NoSet /\ WholeAnswer(wire)
  BY DEF TakesPacket, MySQLMatch, Correlated
<1>3. pending' = owed /\ Head(pending) = d
  BY <1>1, <1>2 DEF Correlated
<1>4. SessionInv'
  BY <1>2, TakeSession, Zenon
<1>5. CASE wire[1].t \in {"ok", "err", "eof", "fe9", "switch"}
  <2>1. results' = results \cup {[to |-> d, of |-> {d}]} /\ rset' = rset
    BY <1>1, <1>3, <1>5, Zenon DEF Correlated, Complete
  <2>2. ResultInv'
    <3>1. \A r \in results' : r.of = {r.to}
      BY <2>1, ResultAdded, Zenon
    <3> QED  BY <3>1, <1>1 DEF ResultInv
  <2>3. cs.pipelined => session # "ready" \/ Tail(wire) = <<>>
    BY <1>2, <1>5, Zenon DEF WholeAnswer, WholeSet
  <2>4. Tail(wire) # <<>> => ~Ahead /\ ~Ahead' /\ owed = <<>>
    BY <2>3, <1>1 DEF Ahead
  <2>5. /\ pending' = <<>> \/ pending' = Outstanding'
        /\ ~(pending' # <<>> /\ wire' # <<>>)
        /\ Ahead' => pending' = Outstanding'
    BY <2>4, <1>1, <1>3, Zenon
  <2> QED  BY <2>1, <2>2, <2>5, <1>1, <1>2, <1>4, Zenon DEF MySQLMatch
<1>6. CASE wire[1].t \notin {"ok", "err", "eof", "fe9", "switch"}
  <2>1. /\ rset' = [phase |-> "columnDefs", active |-> d, left |-> wire[1].n, of |-> {d}]
        /\ results' = results
    BY <1>1, <1>3, <1>6, Zenon DEF Correlated
  <2>2. rset'.phase = "columnDefs" /\ rset'.active = d /\ rset'.left = wire[1].n /\ rset'.of = {d}
    BY <2>1
  <2>3. (wire[1].n = 1 /\ Rest3(Tail(wire))) \/ (wire[1].n = 2 /\ Rest4(Tail(wire)))
    BY <1>2, <1>6, Zenon DEF WholeAnswer, WholeSet
  <2>4. SetRest' /\ wire' # <<>>
    <3>1. Rest3(Tail(wire)) => Rest3(wire)' /\ wire' # <<>>
      BY <1>1, <1>2, RestKept, Zenon DEF Rest3
    <3>2. Rest4(Tail(wire)) => Rest4(wire)' /\ wire' # <<>>
      BY <1>1, <1>2, RestKept, ZenonT(30) DEF Rest4
    <3> QED  BY <2>2, <2>3, <3>1, <3>2 DEF SetRest
  <2>5. ResultInv'
    BY <2>1, <1>1, Zenon DEF ResultInv
  <2> QED  BY <2>2, <2>4, <2>5, <1>1, <1>2, <1>3, <1>4, Zenon DEF MySQLMatch
<1> QED  BY <1>5, <1>6, Zenon

\* A packet of a result set: the set goes on with what comes next, or this was the last.
LEMMA SetPacket ==
  ASSUME CmdInv, Regular, MySQLMatch, cs.proto = "mysql", rset.phase # "none", wire' = Tail(wire), cs' = cs,
         Head(wire) = wire[1], processResultSetPacket(Head(wire))
  PROVE  /\ wire[1].t # "ok"
         /\ \/ Tail(wire) = <<>> /\ finishResultSet(wire[1])
            \/ /\ Tail(wire) # <<>> /\ rset'.phase # "none"
               /\ rset' = [rset EXCEPT !.phase = rset'.phase, !.left = rset'.left, !.of = @ \cup {wire[1].of}]
               /\ results' = results /\ SetRest'
<1> DEFINE p == wire[1]
<1>1. SetRest /\ processResultSetPacket(p)
  BY Zenon DEF MySQLMatch
<1>2. cs.last \in {"eof", "fe9"} /\ (cs.last = "eof" => cs.eofs)
  BY CmdAssumption DEF CmdInv, CmdType, Regular
<1>3. \A phase, left :
        InSet(phase, left, p) =>
          /\ rset'.phase = phase /\ rset'.left = left /\ results' = results
          /\ rset' = [rset EXCEPT !.phase = rset'.phase, !.left = rset'.left, !.of = @ \cup {p.of}]
  <2> SUFFICES ASSUME NEW phase, NEW left, InSet(phase, left, p)
               PROVE  /\ rset'.phase = phase /\ rset'.left = left /\ results' = results
                      /\ rset' = [rset EXCEPT !.phase = rset'.phase, !.left = rset'.left, !.of = @ \cup {p.of}]
    BY Zenon
  <2>1. rset = [phase |-> rset.phase, active |-> rset.active, left |-> rset.left, of |-> rset.of]
    BY DEF CmdInv, CmdType
  <2>2. rset' = [rset EXCEPT !.phase = phase, !.left = left, !.of = @ \cup {p.of}] /\ results' = results
    BY DEF InSet
  <2>3. rset'.phase = phase /\ rset'.left = left
    BY <2>1, <2>2
  <2> QED  BY <2>2, <2>3
<1>4. /\ Rest1(Tail(wire)) => Rest1(wire)' /\ Tail(wire) # <<>>
      /\ Rest2(Tail(wire)) => Rest2(wire)' /\ Tail(wire) # <<>>
      /\ Rest3(Tail(wire)) => Rest3(wire)' /\ Tail(wire) # <<>>
  <2>1. /\ Rest1(Tail(wire)) => Rest1(wire)'
        /\ Rest2(Tail(wire)) => Rest2(wire)'
        /\ Rest3(Tail(wire)) => Rest3(wire)'
    BY RestKept, ZenonT(30)
  <2>2. \A w : (Rest1(w) \/ Rest2(w) \/ Rest3(w)) => w # <<>>
    BY Zenon DEF Rest0, Rest1, Rest2, Rest3
  <2> QED  BY <2>1, <2>2, Zenon
<1>5. CASE rset.phase = "columnDefs" /\ rset.left = 1 /\ Rest3(wire)
  <2>1. p.t = "col" /\ Rest2(Tail(wire))
    BY <1>5, Zenon DEF Rest3
  <2>2. InSet("columnsEOF", 0, p)
    BY <1>1, <1>5, <2>1 DEF processResultSetPacket, phaseColumnDefs
  <2> QED  BY <2>1, <2>2, <1>3, <1>4 DEF SetRest
<1>6. CASE rset.phase = "columnDefs" /\ rset.left = 2 /\ Rest4(wire)
  <2>1. p.t = "col" /\ Rest3(Tail(wire))
    BY <1>6, Zenon DEF Rest4
  <2>2. InSet("columnDefs", 1, p)
    BY <1>1, <1>6, <2>1 DEF processResultSetPacket, phaseColumnDefs
  <2> QED  BY <2>1, <2>2, <1>3, <1>4 DEF SetRest
<1>7. ASSUME Rest1(wire), phaseRows(p)
      PROVE  /\ p.t # "ok"
             /\ \/ Tail(wire) = <<>> /\ finishResultSet(p)
                \/ InSet("rows", 0, p) /\ Rest1(Tail(wire))
  <2>1. CASE Rest0(wire)
    <3>1. p.t \in {"eof", "fe9", "err"} /\ Tail(wire) = <<>>
      BY <2>1, <1>2, Zenon DEF Rest0
    <3> QED  BY <3>1, <1>7 DEF phaseRows
  <2>2. CASE p.t = "row" /\ Rest0(Tail(wire))
    BY <2>2, <1>7 DEF phaseRows, Rest1
  <2> QED  BY <2>1, <2>2, <1>7, Zenon DEF Rest1
<1>8. CASE rset.phase = "columnsEOF" /\ Rest2(wire)
  <2>1. phaseColumnsEOF(p)
    BY <1>1, <1>8 DEF processResultSetPacket
  <2>2. CASE cs.eofs
    <3>1. p.t = "eof" /\ Rest1(Tail(wire))
      BY <1>8, <2>2 DEF Rest2
    <3>2. InSet("rows", 0, p)
      BY <2>1, <3>1 DEF phaseColumnsEOF
    <3> QED  BY <3>1, <3>2, <1>3, <1>4 DEF SetRest
  <2>3. CASE ~cs.eofs
    <3>1. Rest1(wire)
      BY <1>8, <2>3 DEF Rest2
    <3>2. p.t # "eof"
      BY <3>1, <2>3, <1>2, Zenon DEF Rest0, Rest1
    <3>3. phaseRows(p)
      BY <2>1, <3>2 DEF phaseColumnsEOF
    <3> QED  BY <3>1, <3>3, <1>3, <1>4, <1>7 DEF SetRest
  <2> QED  BY <2>2, <2>3, Zenon
<1>9. CASE rset.phase = "rows" /\ Rest1(wire)
  <2>1. phaseRows(p)
    BY <1>1, <1>9 DEF processResultSetPacket
  <2> QED  BY <2>1, <1>3, <1>4, <1>7, <1>9, Zenon DEF SetRest
<1> QED  BY <1>1, <1>5, <1>6, <1>8, <1>9 DEF SetRest

LEMMA MySQLSet ==
  ASSUME CmdInv, Regular, ResultInv, MySQLMatch, cs.proto = "mysql", ServerSends, TakesPacket,
         rset.phase # "none", processResultSetPacket(Head(wire))
  PROVE  ResultInv' /\ MySQLMatch'
<1> DEFINE d == wire[1].of
<1>1. /\ Head(wire) = wire[1] /\ SameOf(wire') /\ wire' = Tail(wire)
      /\ Ahead => Ahead'
      /\ Tail(wire) # <<>> => (Ahead' => Ahead) /\ wire'[1].of = d /\ Outstanding' = Outstanding
      /\ Tail(wire) = <<>> => Outstanding' = owed
      /\ ~Ahead => owed = <<>>
      /\ ~Ahead' => Len(Outstanding') <= 1
  BY TakeFacts, Zenon
<1>2. /\ UNCHANGED <<cs, session, owed, pending, handshakeComplete>>
      /\ rset.active = d /\ rset.of = {d}
      /\ pending = <<>> \/ pending = owed
      /\ Ahead => pending = owed
      /\ pending # <<>> => handshakeComplete
  BY DEF TakesPacket, MySQLMatch, processResultSetPacket
<1>3. /\ wire[1].t # "ok"
      /\ \/ Tail(wire) = <<>> /\ finishResultSet(wire[1])
         \/ /\ Tail(wire) # <<>> /\ rset'.phase # "none"
            /\ rset' = [rset EXCEPT !.phase = rset'.phase, !.left = rset'.left, !.of = @ \cup {d}]
            /\ results' = results /\ SetRest'
  BY <1>1, <1>2, SetPacket
<1>4. SessionInv'
  BY <1>2, <1>3, TakeSession, ZenonT(30)
<1>5. CASE Tail(wire) = <<>> /\ finishResultSet(wire[1])
  <2>1. rset' = NoSet /\ results' = results \cup {[to |-> d, of |-> {d}]}
    BY <1>2, <1>5 DEF finishResultSet, Complete
  <2>2. ResultInv'
    <3>1. \A r \in results' : r.of = {r.to}
      BY <2>1, ResultAdded, Zenon
    <3> QED  BY <3>1, <1>1 DEF ResultInv
  <2>3. rset'.phase = "none" /\ wire' = <<>> /\ Outstanding' = owed
    BY <2>1, <1>1, <1>5, Zenon DEF NoSet
  <2>4. pending' = <<>> \/ pending' = Outstanding'
    BY <2>3, <1>2, Zenon
  <2>5. Ahead' => pending' = Outstanding'
    BY <2>3, <1>1, <1>2
  <2> QED  BY <2>1, <2>2, <2>3, <2>4, <2>5, <1>1, <1>2, <1>4, ZenonT(30) DEF MySQLMatch
<1>6. CASE /\ Tail(wire) # <<>> /\ rset'.phase # "none"
           /\ rset' = [rset EXCEPT !.phase = rset'.phase, !.left = rset'.left, !.of = @ \cup {d}]
           /\ results' = results /\ SetRest'
  <2>1. rset'.active = d /\ rset'.of = {d}
    <3>1. rset = [phase |-> rset.phase, active |-> rset.active, left |-> rset.left, of |-> rset.of]
      BY DEF CmdInv, CmdType
    <3>2. rset'.active = rset.active /\ rset'.of = rset.of \cup {d}
      BY <3>1, <1>6, Zenon
    <3> QED  BY <3>2, <1>2, Zenon
  <2>2. ResultInv'
    BY <1>1, <1>6 DEF ResultInv
  <2> QED  BY <2>1, <2>2, <1>1, <1>2, <1>4, <1>6, Zenon DEF MySQLMatch
<1> QED  BY <1>3, <1>5, <1>6, Zenon

LEMMA MySQLTake ==
  ASSUME CmdInv, Regular, ResultInv, MySQLMatch, cs.proto = "mysql", ServerSends, TakesPacket,
         MySQLResponse(Head(wire))
  PROVE  ResultInv' /\ MySQLMatch'
<1>1. CASE rset.phase # "none"
  BY <1>1, MySQLSet, Zenon DEF MySQLResponse
<1>2. CASE rset.phase = "none" /\ pending = <<>>
  BY <1>2, MySQLIgnored, Zenon DEF MySQLResponse
<1>3. CASE rset.phase = "none" /\ pending # <<>>
  BY <1>3, MySQLMatched, Zenon DEF MySQLResponse
<1> QED  BY <1>1, <1>2, <1>3

\* A step that leaves alone what MySQLMatch is about, as Close does.
LEMMA MySQLKept ==
  ASSUME ResultInv, MySQLMatch,
         UNCHANGED <<cs, session, cmds, owed, wire, pending, handshakeComplete, rset, results>>
  PROVE  ResultInv' /\ MySQLMatch'
<1>1. Outstanding' = Outstanding /\ Awaited' = Awaited
  BY DEF Outstanding, Awaited
<1>2. Ahead' <=> Ahead
  BY <1>1, Zenon DEF Ahead
<1>3. SetRest' <=> SetRest
  BY ZenonT(30) DEF SetRest, Rest0, Rest1, Rest2, Rest3, Rest4
<1>4. WholeAnswer(wire)' <=> WholeAnswer(wire)
  BY DEF WholeAnswer, WholeSet, Rest0, Rest1, Rest2, Rest3, Rest4
<1>5. SessionInv'
  BY <1>1, Zenon DEF MySQLMatch, SessionInv, Members
<1>6. MySQLMatch'
  BY <1>1, <1>2, <1>3, <1>4, <1>5 DEF MySQLMatch
<1> QED  BY <1>6, Zenon DEF ResultInv, SameOf

-----------------------------------------------------------------------------
\* The three of them.

PlainInv == cs.proto # "mysql" => rset = NoSet

LEMMA PlainInvStep ==
  ASSUME PlainInv, [CmdNext]_cmdVars
  PROVE  PlainInv'
<1>1. cs' = cs
  BY Zenon DEF CmdNext, cmdVars, clientVars, Greet, Answer, ClientSends, ServerSends, CloseStream
<1>2. CASE ClientSends
  BY <1>1, <1>2, ZenonT(30) DEF PlainInv, ClientSends, RedisRequest, KafkaRequest, MySQLRequest
<1>3. CASE ServerSends
  BY <1>1, <1>3, Zenon DEF PlainInv, ServerSends, RedisResponse, KafkaResponse
<1>4. CASE rset' = rset
  BY <1>1, <1>4 DEF PlainInv
<1> QED  BY <1>2, <1>3, <1>4, Zenon DEF CmdNext, cmdVars, clientVars, streamVars, Greet, Answer, CloseStream

LEMMA MatchInit == CmdInit => KindInv /\ PlainInv /\ MatchInv
<1> SUFFICES ASSUME CmdInit  PROVE KindInv /\ PlainInv /\ MatchInv  OBVIOUS
<1>1. /\ cs \in CmdScopes /\ session = (IF cs.auth THEN "greeting" ELSE "ready")
      /\ cmds = <<>> /\ owed = <<>> /\ wire = <<>> /\ pending = <<>>
      /\ pendingRequests = [id \in CorrelationIds |-> 0]
      /\ handshakeComplete = FALSE /\ rset = NoSet /\ results = {}
  BY DEF CmdInit
<1>2. /\ DOMAIN <<>> = {} /\ Len(<<>>) = 0 /\ <<>> \o <<>> = <<>>
  OBVIOUS
<1>3. Outstanding = <<>> /\ Awaited = {} /\ Members(owed) = {}
  BY <1>1, <1>2 DEF Outstanding, Awaited, Members, Range
<1>4. KindInv /\ PlainInv
  BY <1>1, <1>2 DEF KindInv, PlainInv
<1>5. ResultInv
  BY <1>1, <1>2 DEF ResultInv, SameOf
<1>6. RedisMatch
  BY <1>1, <1>2, <1>3 DEF RedisMatch, Prefix
<1>7. KafkaMatch
  BY <1>1, <1>2, <1>3 DEF KafkaMatch, Injective
<1>8. MySQLMatch
  <2>1. session = "ready" => ~cs.auth
    BY <1>1
  <2>2. SessionInv
    BY <2>1, <1>1, <1>3 DEF SessionInv
  <2>3. rset.phase = "none"
    BY <1>1, Zenon DEF NoSet
  <2> QED  BY <2>2, <2>3, <1>1, <1>2, <1>3 DEF MySQLMatch
<1> QED  BY <1>4, <1>5, <1>6, <1>7, <1>8 DEF MatchInv

LEMMA MatchStep ==
  ASSUME CmdInv, KindInv, MatchInv, [CmdNext]_cmdVars
  PROVE  MatchInv'
<1>1. cs' = cs
  BY Zenon DEF CmdNext, cmdVars, clientVars, Greet, Answer, ClientSends, ServerSends, CloseStream
<1>2. overflow => overflow'
  <2>1. CASE ClientSends
    BY <2>1, Zenon DEF ClientSends, RedisRequest, KafkaRequest, MySQLRequest
  <2>2. CASE ServerSends
    BY <2>2, Zenon DEF ServerSends, RedisResponse, KafkaResponse, MySQLResponse
  <2>3. CASE overflow' = overflow
    BY <2>3, Zenon
  <2> QED  BY <2>1, <2>2, <2>3, Zenon DEF CmdNext, cmdVars, streamVars, Greet, Answer, CloseStream
<1> SUFFICES ASSUME Regular, ~overflow, ~overflow'
             PROVE  /\ ResultInv' /\ (cs.proto = "redis" => RedisMatch')
                    /\ (cs.proto = "kafka" => KafkaMatch') /\ (cs.proto = "mysql" => MySQLMatch')
  BY <1>1, <1>2 DEF MatchInv, Regular
<1>3. /\ ResultInv /\ (cs.proto = "redis" => RedisMatch)
      /\ (cs.proto = "kafka" => KafkaMatch) /\ (cs.proto = "mysql" => MySQLMatch)
  BY Zenon DEF MatchInv
<1>4. cs.proto \in {"redis", "kafka", "mysql"}
  BY CmdAssumption DEF CmdInv, CmdType
<1>5. CASE Greet
  <2>1. cs.proto = "mysql"
    BY <1>5 DEF Greet, CmdInv, WireInv
  <2> QED  BY <2>1, <1>3, <1>5, MySQLGreet, Zenon
<1>6. CASE Answer
  BY <1>3, <1>4, <1>6, RedisAnswer, KafkaAnswer, MySQLAnswer, ZenonT(30)
<1>7. CASE ClientSends
  <2>1. PICK kind \in cs.kinds \cup {"auth"}, corr \in cs.ids :
           /\ SendsCommand(kind, corr)
           /\ \/ cs.proto = "redis" /\ RedisRequest(Len(cmds) + 1)
              \/ cs.proto = "kafka" /\ KafkaRequest(Len(cmds) + 1)
              \/ cs.proto = "mysql" /\ MySQLRequest(Len(cmds) + 1)
    BY <1>7, ClientSendsPick, Zenon
  <2>2. CASE cs.proto = "redis"
    BY <1>3, <2>1, <2>2, RedisSend, Zenon
  <2>3. CASE cs.proto = "kafka"
    BY <1>3, <2>1, <2>3, KafkaSend, Zenon
  <2>4. CASE cs.proto = "mysql"
    BY <1>3, <2>1, <2>4, MySQLSend
  <2> QED  BY <1>4, <2>2, <2>3, <2>4, Zenon
<1>8. CASE ServerSends
  <2>1. /\ TakesPacket
        /\ \/ cs.proto = "redis" /\ RedisResponse(Head(wire))
           \/ cs.proto = "kafka" /\ KafkaResponse(Head(wire))
           \/ cs.proto = "mysql" /\ MySQLResponse(Head(wire))
    BY <1>8 DEF ServerSends, TakesPacket
  <2>2. CASE cs.proto = "redis"
    BY <1>3, <2>1, <2>2, RedisTake
  <2>3. CASE cs.proto = "kafka"
    BY <1>3, <2>1, <2>3, KafkaTake
  <2>4. CASE cs.proto = "mysql"
    BY <1>3, <1>8, <2>1, <2>4, MySQLTake
  <2> QED  BY <1>4, <2>2, <2>3, <2>4
<1>9. CASE CloseStream
  <2>1. cs.proto = "redis" => ResultInv' /\ RedisMatch'
    BY <1>3, <1>9, RedisClose
  <2>2. cs.proto = "kafka" => ResultInv' /\ KafkaMatch'
    BY <1>3, <1>9, KafkaClose
  <2>3. cs.proto = "mysql" =>
          UNCHANGED <<cs, session, cmds, owed, wire, pending, handshakeComplete, rset, results>>
    BY <1>9 DEF CloseStream, clientVars
  <2>4. cs.proto = "mysql" => ResultInv' /\ MySQLMatch'
    BY <1>3, <2>3, MySQLKept
  <2> QED  BY <1>4, <2>1, <2>2, <2>4
<1>10. CASE UNCHANGED cmdVars
  <2>1. UNCHANGED <<cs, session, cmds, owed, wire, pending, pendingRequests, stuck,
                    handshakeComplete, rset, streamClosed, results>>
    BY <1>10 DEF cmdVars
  <2>2. cs.proto = "mysql" => ResultInv' /\ MySQLMatch'
    BY <1>3, <2>1, MySQLKept, Zenon
  <2>3. Outstanding' = Outstanding /\ Awaited' = Awaited
    BY <2>1, Zenon DEF Outstanding, Awaited
  <2>4. ResultInv'
    BY <1>3, <2>1, Zenon DEF ResultInv, SameOf
  <2>5. cs.proto = "redis" => RedisMatch'
    BY <1>3, <2>1, <2>3, Zenon DEF RedisMatch, Prefix
  <2>6. cs.proto = "kafka" => KafkaMatch'
    BY <1>3, <2>1, <2>3 DEF KafkaMatch, Injective, Members
  <2> QED  BY <2>2, <2>4, <2>5, <2>6
<1> QED  BY <1>5, <1>6, <1>7, <1>8, <1>9, <1>10 DEF CmdNext

LEMMA MatchImplies == CmdInv /\ PlainInv /\ MatchInv => AnswersMatch
<1> SUFFICES ASSUME CmdInv, PlainInv, MatchInv, Regular, ~overflow
             PROVE  /\ \A r \in results : r.of = {r.to}
                    /\ wire = <<>> =>
                         rset = NoSet /\ \A c \in DOMAIN cmds : Holders(c) # {} => c \in Range(owed)
  BY DEF AnswersMatch
<1>1. /\ ResultInv /\ (cs.proto = "redis" => RedisMatch)
      /\ (cs.proto = "kafka" => KafkaMatch) /\ (cs.proto = "mysql" => MySQLMatch)
  BY DEF MatchInv
<1>2. cs.proto \in {"redis", "kafka", "mysql"} /\ DOMAIN cmds = 1 .. Len(cmds)
  BY CmdAssumption DEF CmdInv, CmdType
<1>3. wire = <<>> => rset = NoSet
  BY <1>1 DEF PlainInv, MySQLMatch
<1>4. ASSUME wire = <<>>, NEW c \in DOMAIN cmds, Holders(c) # {}
      PROVE  c \in Range(owed)
  <2>1. Outstanding = owed /\ Awaited = Range(owed) /\ Range(owed) = Members(owed)
    <3>1. {wire[i].of : i \in DOMAIN wire} = {}
      BY <1>4
    <3> QED  BY <3>1, <1>1, <1>4, OutFacts DEF ResultInv, Awaited, Range, Members
  <2>2. CASE cs.proto = "kafka"
    <3>1. PICK id \in CorrelationIds : pendingRequests[id] = c
      BY <1>4, <2>2 DEF Holders, CmdInv, CmdType
    <3>2. c # 0
      BY <1>2
    <3> QED  BY <3>1, <3>2, <2>1, <2>2, <1>1, Zenon DEF KafkaMatch
  <2>3. CASE cs.proto # "kafka"
    <3>1. PICK i \in DOMAIN pending : pending[i] = c
      BY <1>4, <2>3, Zenon DEF Holders
    <3>2. cs.proto = "mysql" => pending = owed
      BY <3>1, <2>1, <1>1, <1>4 DEF MySQLMatch
    <3>3. cs.proto = "redis" => i \in DOMAIN owed /\ pending[i] = owed[i]
      <4>1. cs.proto = "redis" => Len(pending) <= Len(owed) /\ pending[i] = owed[i]
        BY <3>1, <2>1, <1>1 DEF RedisMatch, Prefix
      <4>2. pending \in Seq(Sent) /\ owed \in Seq(Sent)
        BY DEF CmdInv, CmdType, WireInv
      <4>3. Len(pending) <= Len(owed) => i \in DOMAIN owed
        BY <4>2
      <4> QED  BY <4>1, <4>3
    <3> QED  BY <3>1, <3>2, <3>3, <2>3, <1>2, Zenon DEF Range
  <2> QED  BY <2>2, <2>3
<1> QED  BY <1>1, <1>3, <1>4 DEF ResultInv

\* A response goes to the command that it answers, in any of the three protocols: for any
\* number of commands and any limit of the queue, while it does not overflow and client
\* and server are Regular.
THEOREM CmdAnswersMatch == CmdSpec => []AnswersMatch
<1>1. CmdInv /\ KindInv /\ PlainInv /\ MatchInv /\ [CmdNext]_cmdVars => KindInv' /\ PlainInv' /\ MatchInv'
  BY KindInvStep, PlainInvStep, MatchStep
<1> QED  BY <1>1, CmdInvariant, MatchInit, MatchImplies, PTL DEF CmdSpec
=============================================================================
