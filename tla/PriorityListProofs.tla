------------------------- MODULE PriorityListProofs -------------------------
(***************************************************************************)
(* What linking a node into the list of PriorityList and unlinking its     *)
(* head do, for lists of any length over any set of items.                 *)
(***************************************************************************)
EXTENDS PriorityList, SequenceTheorems, TLAPS

\* What LinkAt returns, element by element.
LEMMA LinkAtElements ==
    ASSUME NEW S, NEW s \in Seq(S), NEW i \in 1 .. Len(s) + 1, NEW e \in S
    PROVE  /\ LinkAt(s, i, e) \in Seq(S)
           /\ Len(LinkAt(s, i, e)) = Len(s) + 1
           /\ \A j \in 1 .. Len(s) + 1 :
                 LinkAt(s, i, e)[j] = IF j < i THEN s[j]
                                      ELSE IF j = i THEN e ELSE s[j - 1]
<1> DEFINE a == SubSeq(s, 1, i - 1)
           b == SubSeq(s, i, Len(s))
<1>1. /\ a \in Seq(S) /\ Len(a) = i - 1
      /\ \A j \in 1 .. i - 1 : a[j] = s[j]
  BY SubSeqProperties
<1>2. /\ b \in Seq(S) /\ Len(b) = Len(s) - i + 1
      /\ \A j \in 1 .. Len(s) - i + 1 : b[j] = s[i + j - 1]
  BY SubSeqProperties
<1> HIDE DEF a, b
<1> DEFINE c == a \o <<e>>
<1>3. /\ c \in Seq(S) /\ Len(c) = i
      /\ \A j \in 1 .. i : c[j] = IF j < i THEN s[j] ELSE e
  BY <1>1
<1>4. LinkAt(s, i, e) = c \o b
  BY DEF LinkAt, a, b
<1> HIDE DEF c
<1>5. /\ c \o b \in Seq(S)
      /\ Len(c \o b) = Len(c) + Len(b)
      /\ \A j \in 1 .. Len(c) + Len(b) :
            (c \o b)[j] = IF j <= Len(c) THEN c[j] ELSE b[j - Len(c)]
  BY <1>2, <1>3, ConcatProperties
<1>6. ASSUME NEW j \in 1 .. Len(s) + 1, j > i
      PROVE  b[j - i] = s[j - 1]
  BY <1>2, <1>6
<1>7. QED
  BY <1>2, <1>3, <1>4, <1>5, <1>6

\* Tail, element by element.
LEMMA TailElements ==
    ASSUME NEW S, NEW s \in Seq(S), s # <<>>
    PROVE  /\ Tail(s) \in Seq(S)
           /\ Len(Tail(s)) = Len(s) - 1
           /\ Len(s) >= 1
           /\ Head(s) = s[1] /\ Head(s) \in S
           /\ \A j \in 1 .. Len(s) - 1 : Tail(s)[j] = s[j + 1]
  BY HeadTailProperties

\* The items of S have numbers for priority and id.
Numbered(S) == \A x \in S : x.prio \in Int /\ x.id \in Int

\* Linking a younger item into an ordered list keeps it ordered and adds
\* exactly that item.
LEMMA InsertKeepsOrder ==
    ASSUME NEW S, Numbered(S),
           NEW list \in Seq(S), NEW item \in S, NEW list2,
           Ordered(list), DistinctIds(list),
           \A i \in 1 .. Len(list) : list[i].id < item.id,
           InsertWithPriority(list, item, list2)
    PROVE  /\ list2 \in Seq(S)
           /\ Ordered(list2) /\ DistinctIds(list2)
           /\ Range(list2) = Range(list) \cup {item}
<1>1. PICK pos \in 1 .. Len(list) + 1 :
          /\ InsertionPoint(list, item.prio, pos)
          /\ list2 = LinkAt(list, pos, item)
  BY DEF InsertWithPriority
<1>2. /\ list2 \in Seq(S)
      /\ Len(list2) = Len(list) + 1
      /\ \A j \in 1 .. Len(list) + 1 :
            list2[j] = IF j < pos THEN list[j]
                       ELSE IF j = pos THEN item ELSE list[j - 1]
  <2>1. LinkAt(list, pos, item) \in Seq(S)
    BY LinkAtElements
  <2>2. Len(LinkAt(list, pos, item)) = Len(list) + 1
    BY LinkAtElements
  <2>3. \A j \in 1 .. Len(list) + 1 :
            LinkAt(list, pos, item)[j] = IF j < pos THEN list[j]
                                         ELSE IF j = pos THEN item ELSE list[j - 1]
    BY LinkAtElements
  <2>4. QED
    BY <1>1, <2>1, <2>2, <2>3
<1>3. \A j \in 1 .. Len(list) : list[j] \in S /\ list[j].prio \in Int /\ list[j].id \in Int
  BY ElementOfSeq DEF Numbered
<1>4. item.prio \in Int /\ item.id \in Int
  BY DEF Numbered
<1>5. \A j \in 1 .. Len(list) :
          /\ j < pos => Before(list[j], item)
          /\ j >= pos => Before(item, list[j])
  <2> SUFFICES ASSUME NEW j \in 1 .. Len(list)
               PROVE  /\ j < pos => Before(list[j], item)
                      /\ j >= pos => Before(item, list[j])
    OBVIOUS
  <2>1. CASE j < pos
    BY <2>1, <1>1, <1>3, <1>4 DEF InsertionPoint, Before
  <2>2. CASE j >= pos
    <3>1. list[pos].prio > item.prio /\ pos \in 1 .. Len(list)
      BY <2>2, <1>1 DEF InsertionPoint
    <3>2. list[pos].prio <= list[j].prio
      BY <2>2, <3>1, <1>3 DEF Ordered, Before
    <3>3. QED
      BY <3>1, <3>2, <2>2, <1>3, <1>4 DEF Before
  <2>3. QED
    BY <2>1, <2>2
<1>6. Ordered(list2)
  <2> SUFFICES ASSUME NEW i \in 1 .. Len(list2), NEW j \in 1 .. Len(list2), i < j
               PROVE  Before(list2[i], list2[j])
    BY DEF Ordered
  <2>1. CASE j < pos
    BY <2>1, <1>2 DEF Ordered
  <2>2. CASE j = pos
    BY <2>2, <1>2, <1>5
  <2>3. CASE j > pos /\ i = pos
    BY <2>3, <1>2, <1>5
  <2>4. CASE j > pos /\ i < pos
    <3>1. /\ list2[j] = list[j - 1] /\ list2[i] = list[i]
          /\ j - 1 \in 1 .. Len(list) /\ i \in 1 .. Len(list) /\ i < j - 1
      BY <2>4, <1>2
    <3>2. QED
      BY <3>1 DEF Ordered
  <2>5. CASE j > pos /\ i > pos
    <3>1. /\ list2[j] = list[j - 1] /\ list2[i] = list[i - 1]
          /\ j - 1 \in 1 .. Len(list) /\ i - 1 \in 1 .. Len(list) /\ i - 1 < j - 1
      BY <2>5, <1>2
    <3>2. QED
      BY <3>1 DEF Ordered
  <2>6. QED
    BY <2>1, <2>2, <2>3, <2>4, <2>5
<1>7. Range(list2) = Range(list) \cup {item}
  <2>1. DOMAIN list2 = 1 .. Len(list) + 1 /\ DOMAIN list = 1 .. Len(list)
    BY <1>2
  <2>2. ASSUME NEW x \in Range(list2) PROVE x \in Range(list) \cup {item}
    <3>1. PICK j \in 1 .. Len(list) + 1 : x = list2[j]
      BY <2>1 DEF Range
    <3>2. CASE j = pos
      BY <3>1, <3>2, <1>2
    <3>3. CASE j < pos
      <4>1. x = list[j] /\ j \in 1 .. Len(list)
        BY <3>1, <3>3, <1>2
      <4>2. QED
        BY <4>1, <2>1 DEF Range
    <3>4. CASE j > pos
      <4>1. x = list[j - 1] /\ j - 1 \in 1 .. Len(list)
        BY <3>1, <3>4, <1>2
      <4>2. QED
        BY <4>1, <2>1 DEF Range
    <3>5. QED
      BY <3>2, <3>3, <3>4
  <2>3. item \in Range(list2)
    BY <2>1, <1>2 DEF Range
  <2>4. ASSUME NEW j \in 1 .. Len(list)
        PROVE  list[j] \in Range(list2)
    <3>1. CASE j < pos
      BY <3>1, <2>1, <1>2 DEF Range
    <3>2. CASE j >= pos
      <4>1. j + 1 \in DOMAIN list2 /\ list2[j + 1] = list[j]
        BY <3>2, <2>1, <1>2
      <4>2. QED
        BY <4>1 DEF Range
    <3>3. QED
      BY <3>1, <3>2
  <2>5. QED
    BY <2>1, <2>2, <2>3, <2>4, Zenon DEF Range
<1>8. DistinctIds(list2)
  <2> SUFFICES ASSUME NEW i \in 1 .. Len(list2), NEW j \in 1 .. Len(list2), i < j
               PROVE  list2[i].id # list2[j].id
    BY DEF DistinctIds
  <2>1. CASE j < pos
    BY <2>1, <1>2 DEF DistinctIds
  <2>2. CASE j = pos
    <3>1. list2[i] = list[i] /\ list2[j] = item /\ i \in 1 .. Len(list)
      BY <2>2, <1>2
    <3>2. QED
      BY <3>1, <1>3, <1>4
  <2>3. CASE j > pos /\ i = pos
    <3>1. list2[j] = list[j - 1] /\ list2[i] = item /\ j - 1 \in 1 .. Len(list)
      BY <2>3, <1>2
    <3>2. QED
      BY <3>1, <1>3, <1>4
  <2>4. CASE j > pos /\ i # pos
    <3>1. PICK k \in 1 .. Len(list) : list2[i] = list[k] /\ k < j - 1
      <4>1. CASE i < pos
        BY <4>1, <2>4, <1>2
      <4>2. CASE i > pos
        <5>1. list2[i] = list[i - 1] /\ i - 1 \in 1 .. Len(list) /\ i - 1 < j - 1
          BY <4>2, <2>4, <1>2
        <5>2. QED
          BY <5>1
      <4>3. QED
        BY <4>1, <4>2, <2>4
    <3>2. list2[j] = list[j - 1] /\ j - 1 \in 1 .. Len(list)
      BY <2>4, <1>2
    <3>3. QED
      BY <3>1, <3>2 DEF DistinctIds
  <2>5. QED
    BY <2>1, <2>2, <2>3, <2>4
<1>9. QED
  BY <1>2, <1>6, <1>7, <1>8

\* Unlinking the head keeps the list ordered and removes exactly the head.
LEMMA TailKeepsOrder ==
    ASSUME NEW S, NEW list \in Seq(S), list # <<>>, Ordered(list), DistinctIds(list)
    PROVE  /\ Tail(list) \in Seq(S)
           /\ Ordered(Tail(list)) /\ DistinctIds(Tail(list))
           /\ Range(Tail(list)) = Range(list) \ {Head(list)}
           /\ Head(list) \in Range(list)
           /\ \A x \in Range(list) \ {Head(list)} :
                 x.id # Head(list).id /\ Before(Head(list), x)
<1> DEFINE list2 == Tail(list)
           n == Len(list)
<1>1. /\ list2 \in Seq(S)
      /\ Len(list2) = n - 1
      /\ n \in Nat /\ n >= 1
      /\ Head(list) = list[1]
      /\ \A j \in 1 .. n - 1 : list2[j] = list[j + 1]
  BY TailElements
<1>2. DOMAIN list2 = 1 .. n - 1 /\ DOMAIN list = 1 .. n
  BY <1>1
<1> HIDE DEF list2
<1>3. Ordered(list2)
  <2> SUFFICES ASSUME NEW i \in 1 .. Len(list2), NEW j \in 1 .. Len(list2), i < j
               PROVE  Before(list2[i], list2[j])
    BY DEF Ordered
  <2>1. /\ i + 1 \in 1 .. n /\ j + 1 \in 1 .. n /\ i + 1 < j + 1
        /\ list2[i] = list[i + 1] /\ list2[j] = list[j + 1]
    BY <1>1
  <2>2. QED
    BY <2>1 DEF Ordered
<1>4. DistinctIds(list2)
  <2> SUFFICES ASSUME NEW i \in 1 .. Len(list2), NEW j \in 1 .. Len(list2), i < j
               PROVE  list2[i].id # list2[j].id
    BY DEF DistinctIds
  <2>1. /\ i + 1 \in 1 .. n /\ j + 1 \in 1 .. n /\ i + 1 < j + 1
        /\ list2[i] = list[i + 1] /\ list2[j] = list[j + 1]
    BY <1>1
  <2>2. QED
    BY <2>1 DEF DistinctIds
<1>5. \A i \in 2 .. n : list[i].id # list[1].id /\ Before(list[1], list[i])
  BY <1>1 DEF Ordered, DistinctIds
<1>6. Range(list2) = Range(list) \ {Head(list)}
  <2>1. ASSUME NEW x \in Range(list2)
        PROVE  x \in Range(list) /\ x # Head(list)
    <3>1. PICK j \in 1 .. n - 1 : x = list2[j]
      BY <1>2 DEF Range
    <3>2. j + 1 \in 2 .. n /\ j + 1 \in DOMAIN list /\ x = list[j + 1]
      BY <3>1, <1>1, <1>2
    <3>3. x \in Range(list)
      BY <3>2 DEF Range
    <3>4. QED
      BY <3>2, <3>3, <1>1, <1>5
  <2>2. ASSUME NEW x \in Range(list), x # Head(list)
        PROVE  x \in Range(list2)
    <3>1. PICK j \in 1 .. n : x = list[j]
      BY <1>2 DEF Range
    <3>2. j # 1
      BY <3>1, <2>2, <1>1
    <3>3. j - 1 \in 1 .. n - 1 /\ list2[j - 1] = list[j]
      BY <3>2, <1>1
    <3>4. QED
      BY <3>1, <3>3, <1>2 DEF Range
  <2>3. QED
    BY <2>1, <2>2
<1>7. ASSUME NEW x \in Range(list), x # Head(list)
      PROVE  x.id # Head(list).id /\ Before(Head(list), x)
  <2>1. PICK j \in 1 .. n : x = list[j]
    BY <1>2 DEF Range
  <2>2. j \in 2 .. n
    BY <2>1, <1>7, <1>1
  <2>3. QED
    BY <2>1, <2>2, <1>1, <1>5
<1>8. Head(list) \in Range(list)
  BY <1>1, <1>2 DEF Range
<1>9. QED
  BY <1>1, <1>3, <1>4, <1>6, <1>7, <1>8 DEF list2
=============================================================================
