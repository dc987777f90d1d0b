---------------------------- MODULE OsListProofs ----------------------------
(***************************************************************************)
(* What the list operations of OsList do to the members of a list and to   *)
(* the absence of repetitions: the facts every proof about the kernel's    *)
(* queues rests on.                                                        *)
(***************************************************************************)
EXTENDS OsList, SequenceTheorems, WellFoundedInduction, TLAPS

\* What the elements of a list without its at-th one are.
LEMMA RemoveAtElements ==
    ASSUME NEW S, NEW list \in Seq(S), NEW at \in 1 .. Len(list)
    PROVE  /\ RemoveAt(list, at) \in Seq(S)
           /\ Len(RemoveAt(list, at)) = Len(list) - 1
           /\ \A i \in 1 .. Len(list) - 1 :
                 RemoveAt(list, at)[i] = IF i < at THEN list[i] ELSE list[i + 1]
<1> DEFINE front == SubSeq(list, 1, at - 1)
           back == SubSeq(list, at + 1, Len(list))
<1>0. Len(list) \in Nat /\ \A i \in 1 .. Len(list) : list[i] \in S
  BY LenProperties, ElementOfSeq
<1>1. /\ front \in Seq(S) /\ Len(front) = at - 1
      /\ \A i \in 1 .. at - 1 : front[i] = list[i]
  <2>1. \A i \in 1 .. at - 1 : list[i] \in S
    BY <1>0
  <2>2. /\ front \in Seq(S)
        /\ Len(front) = IF 1 <= at - 1 THEN (at - 1) - 1 + 1 ELSE 0
        /\ \A i \in 1 .. (at - 1) - 1 + 1 : front[i] = list[1 + i - 1]
    BY <1>0, <2>1, SubSeqProperties
  <2> QED
    BY <1>0, <2>2
<1>2. /\ back \in Seq(S) /\ Len(back) = Len(list) - at
      /\ \A i \in 1 .. Len(list) - at : back[i] = list[at + i]
  <2>1. \A i \in at + 1 .. Len(list) : list[i] \in S
    BY <1>0
  <2>2. /\ back \in Seq(S)
        /\ Len(back) = IF at + 1 <= Len(list) THEN Len(list) - (at + 1) + 1 ELSE 0
        /\ \A i \in 1 .. Len(list) - (at + 1) + 1 : back[i] = list[(at + 1) + i - 1]
    BY <1>0, <2>1, SubSeqProperties
  <2> QED
    BY <1>0, <2>2
<1>3. /\ front \o back \in Seq(S)
      /\ Len(front \o back) = Len(front) + Len(back)
      /\ \A i \in 1 .. Len(front) + Len(back) :
            (front \o back)[i] = IF i <= Len(front) THEN front[i] ELSE back[i - Len(front)]
  BY <1>1, <1>2, ConcatProperties
<1>4. RemoveAt(list, at) = front \o back
  BY DEF RemoveAt
<1> HIDE DEF front, back
<1>5. Len(front \o back) = Len(list) - 1
  BY <1>0, <1>1, <1>2, <1>3
<1>6. ASSUME NEW i \in 1 .. Len(list) - 1
      PROVE  (front \o back)[i] = IF i < at THEN list[i] ELSE list[i + 1]
  <2>1. CASE i < at
    BY <1>0, <1>1, <1>2, <1>3, <2>1
  <2>2. CASE ~(i < at)
    <3>1. (front \o back)[i] = back[i - Len(front)]
      BY <1>0, <1>1, <1>2, <1>3, <2>2
    <3>2. back[i - Len(front)] = list[at + (i - Len(front))] /\ at + (i - Len(front)) = i + 1
      BY <1>0, <1>1, <1>2, <2>2
    <3> QED
      BY <2>2, <3>1, <3>2
  <2> QED
    BY <2>1, <2>2
<1> QED
  BY <1>3, <1>4, <1>5, <1>6

\* What the elements of a list with node inserted as its at-th one are.
LEMMA InsertAtElements ==
    ASSUME NEW S, NEW list \in Seq(S), NEW at \in 1 .. Len(list) + 1, NEW node \in S
    PROVE  /\ InsertAt(list, at, node) \in Seq(S)
           /\ Len(InsertAt(list, at, node)) = Len(list) + 1
           /\ \A i \in 1 .. Len(list) + 1 :
                 InsertAt(list, at, node)[i] =
                    IF i < at THEN list[i] ELSE IF i = at THEN node ELSE list[i - 1]
<1> DEFINE front == SubSeq(list, 1, at - 1)
           back == SubSeq(list, at, Len(list))
           mid == <<node>>
<1>0. Len(list) \in Nat /\ \A i \in 1 .. Len(list) : list[i] \in S
  BY LenProperties, ElementOfSeq
<1>1. /\ front \in Seq(S) /\ Len(front) = at - 1
      /\ \A i \in 1 .. at - 1 : front[i] = list[i]
  <2>1. \A i \in 1 .. at - 1 : list[i] \in S
    BY <1>0
  <2>2. /\ front \in Seq(S)
        /\ Len(front) = IF 1 <= at - 1 THEN (at - 1) - 1 + 1 ELSE 0
        /\ \A i \in 1 .. (at - 1) - 1 + 1 : front[i] = list[1 + i - 1]
    BY <1>0, <2>1, SubSeqProperties
  <2> QED
    BY <1>0, <2>2
<1>2. /\ back \in Seq(S) /\ Len(back) = Len(list) - at + 1
      /\ \A i \in 1 .. Len(list) - at + 1 : back[i] = list[at + i - 1]
  <2>1. \A i \in at .. Len(list) : list[i] \in S
    BY <1>0
  <2>2. /\ back \in Seq(S)
        /\ Len(back) = IF at <= Len(list) THEN Len(list) - at + 1 ELSE 0
        /\ \A i \in 1 .. Len(list) - at + 1 : back[i] = list[at + i - 1]
    BY <1>0, <2>1, SubSeqProperties
  <2> QED
    BY <1>0, <2>2
<1>3. mid \in Seq(S) /\ Len(mid) = 1 /\ mid[1] = node
  OBVIOUS
<1> HIDE DEF front, back, mid
<1>4. /\ front \o mid \in Seq(S)
      /\ Len(front \o mid) = Len(front) + Len(mid)
      /\ \A i \in 1 .. Len(front) + Len(mid) :
            (front \o mid)[i] = IF i <= Len(front) THEN front[i] ELSE mid[i - Len(front)]
  BY <1>1, <1>3, ConcatProperties
<1>5. /\ (front \o mid) \o back \in Seq(S)
      /\ Len((front \o mid) \o back) = Len(front \o mid) + Len(back)
      /\ \A i \in 1 .. Len(front \o mid) + Len(back) :
            ((front \o mid) \o back)[i] =
               IF i <= Len(front \o mid) THEN (front \o mid)[i]
               ELSE back[i - Len(front \o mid)]
  <2> DEFINE head == front \o mid
  <2>1. head \in Seq(S)
    BY <1>4
  <2> HIDE DEF head
  <2>2. /\ head \o back \in Seq(S)
        /\ Len(head \o back) = Len(head) + Len(back)
        /\ \A i \in 1 .. Len(head) + Len(back) :
              (head \o back)[i] = IF i <= Len(head) THEN head[i] ELSE back[i - Len(head)]
    BY <1>2, <2>1, ConcatProperties
  <2> QED
    BY <2>2 DEF head
<1>6. InsertAt(list, at, node) = (front \o mid) \o back
  BY DEF InsertAt, front, mid, back
<1>7. Len(InsertAt(list, at, node)) = Len(list) + 1
  BY <1>0, <1>1, <1>2, <1>3, <1>4, <1>5, <1>6
<1>8. ASSUME NEW i \in 1 .. Len(list) + 1
      PROVE  InsertAt(list, at, node)[i] =
                IF i < at THEN list[i] ELSE IF i = at THEN node ELSE list[i - 1]
  <2>0. Len(front \o mid) = at /\ Len(front \o mid) + Len(back) = Len(list) + 1
    BY <1>0, <1>1, <1>2, <1>3, <1>4
  <2>1. CASE i < at
    <3>1. ((front \o mid) \o back)[i] = (front \o mid)[i]
      BY <1>0, <1>5, <2>0, <2>1
    <3>2. (front \o mid)[i] = front[i]
      BY <1>0, <1>1, <1>3, <1>4, <2>1
    <3>3. front[i] = list[i]
      BY <1>0, <1>1, <2>1
    <3> QED
      BY <1>6, <2>1, <3>1, <3>2, <3>3
  <2>2. CASE i = at
    <3>1. ((front \o mid) \o back)[i] = (front \o mid)[i]
      BY <1>0, <1>5, <2>0, <2>2
    <3>2. (front \o mid)[i] = mid[i - Len(front)] /\ i - Len(front) = 1
      BY <1>0, <1>1, <1>3, <1>4, <2>2
    <3> QED
      BY <1>3, <1>6, <2>2, <3>1, <3>2
  <2>3. CASE i > at
    <3>1. ((front \o mid) \o back)[i] = back[i - at]
      BY <1>0, <1>5, <2>0, <2>3
    <3>2. back[i - at] = list[at + (i - at) - 1] /\ at + (i - at) - 1 = i - 1
      BY <1>0, <1>2, <2>3
    <3> QED
      BY <1>6, <2>3, <3>1, <3>2
  <2> QED
    BY <1>0, <2>1, <2>2, <2>3
<1> QED
  BY <1>5, <1>6, <1>7, <1>8

-----------------------------------------------------------------------------
(* The operations of OsList.  From here on a list is a sequence of S.      *)

\* Members lists the elements; there are none in the empty list only.
LEMMA MembersOfSeq ==
    ASSUME NEW S, NEW list \in Seq(S)
    PROVE  /\ Members(list) = {list[i] : i \in 1 .. Len(list)}
           /\ Members(list) \subseteq S
           /\ list = << >> <=> Members(list) = {}
<1>1. Len(list) \in Nat /\ DOMAIN list = 1 .. Len(list)
      /\ \A i \in 1 .. Len(list) : list[i] \in S
  BY LenProperties, ElementOfSeq
<1>2. list = << >> <=> Len(list) = 0
  BY EmptySeq
<1>3. Len(list) = 0 <=> 1 .. Len(list) = {}
  BY <1>1
<1> QED
  BY <1>1, <1>2, <1>3 DEF Members

\* os_list_push_back links one more node, at the tail.
LEMMA PushBackMembers ==
    ASSUME NEW S, NEW list \in Seq(S), NEW node \in S
    PROVE  /\ ListPushBack(list, node) \in Seq(S)
           /\ Members(ListPushBack(list, node)) = Members(list) \cup {node}
           /\ NoRepeat(list) /\ node \notin Members(list)
                 => NoRepeat(ListPushBack(list, node))
           /\ ListPushBack(list, node) # << >>
<1> DEFINE longer == Append(list, node)
<1>1. /\ longer \in Seq(S)
      /\ Len(longer) = Len(list) + 1
      /\ \A i \in 1 .. Len(list) : longer[i] = list[i]
      /\ longer[Len(list) + 1] = node
  BY AppendProperties
<1>2. /\ Len(list) \in Nat
      /\ DOMAIN list = 1 .. Len(list)
      /\ DOMAIN longer = 1 .. Len(list) + 1
  BY <1>1, LenProperties
<1> HIDE DEF longer
<1>3. 1 .. Len(list) + 1 = (1 .. Len(list)) \cup {Len(list) + 1}
  BY <1>2
<1>4. Members(longer) = Members(list) \cup {node}
  BY <1>1, <1>2, <1>3 DEF Members
<1>5. ASSUME NoRepeat(list), node \notin Members(list)
      PROVE  NoRepeat(longer)
  BY <1>1, <1>2, <1>3, <1>5 DEF NoRepeat, Members
<1> QED
  BY <1>1, <1>4, <1>5, MembersOfSeq DEF ListPushBack, longer

\* The head of a list that repeats none is taken off it.
LEMMA TailMembers ==
    ASSUME NEW S, NEW list \in Seq(S), list # << >>, NoRepeat(list)
    PROVE  /\ Head(list) \in S /\ Head(list) \in Members(list)
           /\ Tail(list) \in Seq(S) /\ NoRepeat(Tail(list))
           /\ Members(Tail(list)) = Members(list) \ {Head(list)}
<1>1. /\ Len(list) \in Nat /\ Len(list) >= 1 /\ DOMAIN list = 1 .. Len(list)
      /\ \A i \in 1 .. Len(list) : list[i] \in S
      /\ Head(list) = list[1]
  BY LenProperties, ElementOfSeq, EmptySeq, HeadTailProperties
<1> DEFINE rest == Tail(list)
<1>2. /\ rest \in Seq(S) /\ Len(rest) = Len(list) - 1 /\ DOMAIN rest = 1 .. Len(list) - 1
      /\ \A i \in 1 .. Len(list) - 1 : rest[i] = list[i + 1]
  <2>1. /\ rest \in Seq(S) /\ Len(rest) = Len(list) - 1
        /\ \A i \in 1 .. Len(rest) : rest[i] = list[i + 1]
    BY HeadTailProperties
  <2> HIDE DEF rest
  <2>2. DOMAIN rest = 1 .. Len(rest)
    BY <2>1, LenProperties
  <2> QED
    BY <2>1, <2>2
<1> HIDE DEF rest
<1>3. \A i \in 1 .. Len(list) - 1 : i + 1 \in 1 .. Len(list) /\ i + 1 # 1
  BY <1>1
<1>4. \A k \in 1 .. Len(list) : k # 1 => k - 1 \in 1 .. Len(list) - 1 /\ k = (k - 1) + 1
  BY <1>1
<1>5. NoRepeat(rest)
  <2>1. ASSUME NEW i \in 1 .. Len(list) - 1, NEW j \in 1 .. Len(list) - 1, rest[i] = rest[j]
        PROVE  i = j
    <3>1. i + 1 = j + 1
      BY <1>1, <1>2, <1>3, <2>1 DEF NoRepeat
    <3> QED
      BY <1>1, <3>1
  <2> QED
    BY <1>2, <2>1 DEF NoRepeat
<1>6. ASSUME NEW x \in Members(rest)
      PROVE  x \in Members(list) \ {Head(list)}
  <2>1. PICK i \in 1 .. Len(list) - 1 : x = rest[i]
    BY <1>2 DEF Members
  <2>2. x = list[i + 1] /\ i + 1 \in 1 .. Len(list) /\ i + 1 # 1 /\ 1 \in 1 .. Len(list)
    BY <1>1, <1>2, <1>3, <2>1
  <2> QED
    BY <1>1, <2>2 DEF Members, NoRepeat
<1>7. ASSUME NEW x \in Members(list) \ {Head(list)}
      PROVE  x \in Members(rest)
  <2>1. PICK k \in 1 .. Len(list) : x = list[k]
    BY <1>1 DEF Members
  <2>2. k # 1
    BY <1>1, <2>1
  <2>3. k - 1 \in 1 .. Len(list) - 1 /\ x = rest[k - 1]
    BY <1>2, <1>4, <2>1, <2>2
  <2> QED
    BY <1>2, <2>3 DEF Members
<1>8. Members(rest) = Members(list) \ {Head(list)}
  BY <1>6, <1>7
<1>9. Head(list) \in Members(list) /\ Head(list) \in S
  BY <1>1 DEF Members
<1> QED
  BY <1>2, <1>5, <1>8, <1>9 DEF rest

\* os_list_remove unlinks a node that is linked once, and no other.
LEMMA RemoveMembers ==
    ASSUME NEW S, NEW list \in Seq(S), NEW node
    PROVE  /\ ListRemove(list, node) \in Seq(S)
           /\ NoRepeat(list)
                 => /\ NoRepeat(ListRemove(list, node))
                    /\ Members(ListRemove(list, node)) = Members(list) \ {node}
<1>1. CASE node \notin Members(list)
  BY <1>1 DEF ListRemove
<1>2. CASE node \in Members(list)
  <2> DEFINE at == CHOOSE i \in DOMAIN list : list[i] = node
             shorter == RemoveAt(list, at)
  <2>1. Len(list) \in Nat /\ DOMAIN list = 1 .. Len(list)
    BY LenProperties
  <2>2. at \in 1 .. Len(list) /\ list[at] = node
    BY <1>2, <2>1 DEF Members
  <2> HIDE DEF at
  <2>3. /\ shorter \in Seq(S)
        /\ Len(shorter) = Len(list) - 1
        /\ \A i \in 1 .. Len(list) - 1 :
              shorter[i] = IF i < at THEN list[i] ELSE list[i + 1]
    BY <2>2, RemoveAtElements
  <2>4. DOMAIN shorter = 1 .. Len(list) - 1
    BY <2>3, LenProperties
  <2> HIDE DEF shorter
  <2>5. ListRemove(list, node) = shorter
    BY <1>2 DEF ListRemove, shorter, at
  <2>6. ASSUME NoRepeat(list)
        PROVE  NoRepeat(shorter)
    <3>1. SUFFICES ASSUME NEW i \in 1 .. Len(list) - 1, NEW j \in 1 .. Len(list) - 1,
                          shorter[i] = shorter[j]
                   PROVE  i = j
      BY <2>4 DEF NoRepeat
    <3>2. PICK k \in 1 .. Len(list) : /\ shorter[i] = list[k]
                                      /\ k = IF i < at THEN i ELSE i + 1
      BY <2>1, <2>2, <2>3
    <3>3. PICK l \in 1 .. Len(list) : /\ shorter[j] = list[l]
                                      /\ l = IF j < at THEN j ELSE j + 1
      BY <2>1, <2>2, <2>3
    <3>4. k = l
      BY <2>1, <2>6, <3>1, <3>2, <3>3 DEF NoRepeat
    <3> QED
      BY <2>1, <2>2, <3>2, <3>3, <3>4
  <2>7. ASSUME NoRepeat(list)
        PROVE  Members(shorter) = Members(list) \ {node}
    <3>1. ASSUME NEW i \in 1 .. Len(list) - 1
          PROVE  shorter[i] \in Members(list) \ {node}
      <4>1. PICK k \in 1 .. Len(list) : shorter[i] = list[k] /\ k # at
        BY <2>1, <2>2, <2>3
      <4> QED
        BY <2>1, <2>2, <2>7, <4>1 DEF NoRepeat, Members
    <3>2. ASSUME NEW k \in 1 .. Len(list), list[k] # node
          PROVE  \E i \in 1 .. Len(list) - 1 : shorter[i] = list[k]
      <4>1. CASE k < at
        <5>1. k \in 1 .. Len(list) - 1
          BY <2>1, <2>2, <4>1
        <5> QED
          BY <2>3, <4>1, <5>1
      <4>2. CASE k > at
        <5>1. k - 1 \in 1 .. Len(list) - 1 /\ ~(k - 1 < at) /\ (k - 1) + 1 = k
          BY <2>1, <2>2, <4>2
        <5> QED
          BY <2>3, <5>1
      <4> QED
        BY <2>1, <2>2, <3>2, <4>1, <4>2
    <3>3. ASSUME NEW x \in Members(shorter)
          PROVE  x \in Members(list) \ {node}
      BY <2>4, <3>1 DEF Members
    <3>4. ASSUME NEW x \in Members(list), x # node
          PROVE  x \in Members(shorter)
      <4>1. PICK k \in 1 .. Len(list) : x = list[k]
        BY <2>1 DEF Members
      <4> QED
        BY <2>4, <3>2, <3>4, <4>1 DEF Members
    <3> QED
      BY <3>3, <3>4
  <2> QED
    BY <2>3, <2>5, <2>6, <2>7
<1> QED
  BY <1>1, <1>2

\* os_list_insert_before links one more node, wherever it goes.
LEMMA InsertMembers ==
    ASSUME NEW S, NEW list \in Seq(S), NEW at \in 1 .. Len(list) + 1, NEW node \in S
    PROVE  /\ ListInsertBefore(list, at, node) \in Seq(S)
           /\ Members(ListInsertBefore(list, at, node)) = Members(list) \cup {node}
           /\ NoRepeat(list) /\ node \notin Members(list)
                 => NoRepeat(ListInsertBefore(list, at, node))
<1> DEFINE longer == InsertAt(list, at, node)
<1>1. Len(list) \in Nat /\ DOMAIN list = 1 .. Len(list)
  BY LenProperties
<1>2. /\ longer \in Seq(S)
      /\ Len(longer) = Len(list) + 1
      /\ \A i \in 1 .. Len(list) + 1 :
            longer[i] = IF i < at THEN list[i] ELSE IF i = at THEN node ELSE list[i - 1]
  BY InsertAtElements
<1>3. DOMAIN longer = 1 .. Len(list) + 1
  BY <1>2, LenProperties
<1> HIDE DEF longer
<1>4. ASSUME NEW i \in 1 .. Len(list) + 1, i # at
      PROVE  \E k \in 1 .. Len(list) : /\ longer[i] = list[k]
                                       /\ k = IF i < at THEN i ELSE i - 1
  <2>1. CASE i < at
    <3>1. i \in 1 .. Len(list)
      BY <1>1, <2>1
    <3> QED
      BY <1>2, <2>1, <3>1
  <2>2. CASE i > at
    <3>1. i - 1 \in 1 .. Len(list) /\ ~(i < at)
      BY <1>1, <2>2
    <3> QED
      BY <1>2, <1>4, <3>1
  <2> QED
    BY <1>1, <1>4, <2>1, <2>2
<1>5. longer[at] = node
  BY <1>1, <1>2
<1>6. Members(longer) = Members(list) \cup {node}
  <2>1. ASSUME NEW k \in 1 .. Len(list)
        PROVE  \E i \in 1 .. Len(list) + 1 : longer[i] = list[k]
    <3>1. CASE k < at
      <4>1. k \in 1 .. Len(list) + 1
        BY <1>1
      <4> QED
        BY <1>2, <3>1, <4>1
    <3>2. CASE k >= at
      <4>1. k + 1 \in 1 .. Len(list) + 1 /\ ~(k + 1 < at) /\ k + 1 # at /\ (k + 1) - 1 = k
        BY <1>1, <3>2
      <4> QED
        BY <1>2, <4>1
    <3> QED
      BY <1>1, <3>1, <3>2
  <2>2. Members(longer) \subseteq Members(list) \cup {node}
    BY <1>1, <1>3, <1>4, <1>5 DEF Members
  <2>3. node \in Members(longer)
    BY <1>1, <1>3, <1>5 DEF Members
  <2>4. Members(list) \subseteq Members(longer)
    BY <1>1, <1>3, <2>1 DEF Members
  <2> QED
    BY <2>2, <2>3, <2>4
<1>7. ASSUME NoRepeat(list), node \notin Members(list)
      PROVE  NoRepeat(longer)
  <2>1. SUFFICES ASSUME NEW i \in 1 .. Len(list) + 1, NEW j \in 1 .. Len(list) + 1,
                        longer[i] = longer[j]
                 PROVE  i = j
    BY <1>3 DEF NoRepeat
  <2>2. CASE i = at \/ j = at
    BY <1>1, <1>4, <1>5, <1>7, <2>1, <2>2 DEF Members
  <2>3. CASE i # at /\ j # at
    <3>1. PICK k \in 1 .. Len(list) : longer[i] = list[k] /\ k = IF i < at THEN i ELSE i - 1
      BY <1>4, <2>3
    <3>2. PICK l \in 1 .. Len(list) : longer[j] = list[l] /\ l = IF j < at THEN j ELSE j - 1
      BY <1>4, <2>3
    <3>3. k = l
      BY <1>1, <1>7, <2>1, <3>1, <3>2 DEF NoRepeat
    <3> QED
      BY <1>1, <2>3, <3>1, <3>2, <3>3
  <2> QED
    BY <2>2, <2>3
<1> QED
  BY <1>2, <1>6, <1>7 DEF ListInsertBefore, longer

\* Lists without a common node can be chained.
LEMMA ConcatMembers ==
    ASSUME NEW S, NEW first \in Seq(S), NEW second \in Seq(S)
    PROVE  /\ first \o second \in Seq(S)
           /\ Members(first \o second) = Members(first) \cup Members(second)
           /\ /\ NoRepeat(first) /\ NoRepeat(second)
              /\ Members(first) \cap Members(second) = {}
              => NoRepeat(first \o second)
<1> DEFINE both == first \o second
           m == Len(first)
           n == Len(second)
<1>1. /\ both \in Seq(S)
      /\ Len(both) = m + n
      /\ \A i \in 1 .. m + n : both[i] = IF i <= m THEN first[i] ELSE second[i - m]
  BY ConcatProperties
<1>2. /\ m \in Nat /\ DOMAIN first = 1 .. m
      /\ n \in Nat /\ DOMAIN second = 1 .. n
      /\ DOMAIN both = 1 .. m + n
  BY <1>1, LenProperties
<1> HIDE DEF both, m, n
<1>3. ASSUME NEW i \in 1 .. m
      PROVE  i \in 1 .. m + n /\ both[i] = first[i]
  <2>1. i \in 1 .. m + n
    BY <1>2
  <2> QED
    BY <1>1, <2>1
<1>4. ASSUME NEW i \in 1 .. n
      PROVE  m + i \in 1 .. m + n /\ both[m + i] = second[i]
  <2>1. m + i \in 1 .. m + n /\ ~(m + i <= m) /\ (m + i) - m = i
    BY <1>2
  <2> QED
    BY <1>1, <2>1
<1>5. ASSUME NEW i \in 1 .. m + n
      PROVE  \/ i \in 1 .. m
             \/ i - m \in 1 .. n /\ i = m + (i - m)
  BY <1>2
<1>6. Members(both) = Members(first) \cup Members(second)
  <2>1. ASSUME NEW i \in 1 .. m + n
        PROVE  both[i] \in Members(first) \cup Members(second)
    BY <1>2, <1>3, <1>4, <1>5 DEF Members
  <2>2. Members(first) \subseteq Members(both)
    <3>1. ASSUME NEW i \in 1 .. m
          PROVE  first[i] \in Members(both)
      BY <1>2, <1>3 DEF Members
    <3> QED
      BY <1>2, <3>1 DEF Members
  <2>3. Members(second) \subseteq Members(both)
    <3>1. ASSUME NEW i \in 1 .. n
          PROVE  second[i] \in Members(both)
      BY <1>2, <1>4 DEF Members
    <3> QED
      BY <1>2, <3>1 DEF Members
  <2>4. Members(both) \subseteq Members(first) \cup Members(second)
    BY <1>2, <2>1 DEF Members
  <2> QED
    BY <2>2, <2>3, <2>4
<1>7. ASSUME NoRepeat(first), NoRepeat(second), Members(first) \cap Members(second) = {}
      PROVE  NoRepeat(both)
  <2>1. SUFFICES ASSUME NEW i \in 1 .. m + n, NEW j \in 1 .. m + n, both[i] = both[j]
                 PROVE  i = j
    BY <1>2 DEF NoRepeat
  <2>2. CASE i \in 1 .. m /\ j \in 1 .. m
    BY <1>2, <1>3, <1>7, <2>1, <2>2 DEF NoRepeat
  <2>3. CASE i - m \in 1 .. n /\ j - m \in 1 .. n
    <3>1. both[i] = second[i - m] /\ both[j] = second[j - m]
      BY <1>2, <1>4, <2>3
    <3>2. i - m = j - m
      BY <1>2, <1>7, <2>1, <2>3, <3>1 DEF NoRepeat
    <3> QED
      BY <1>2, <3>2
  <2>4. CASE i \in 1 .. m /\ j - m \in 1 .. n
    <3>1. both[i] = first[i] /\ both[j] = second[j - m]
      BY <1>2, <1>3, <1>4, <2>4
    <3> QED
      BY <1>2, <1>7, <2>1, <2>4, <3>1 DEF Members
  <2>5. CASE i - m \in 1 .. n /\ j \in 1 .. m
    <3>1. both[i] = second[i - m] /\ both[j] = first[j]
      BY <1>2, <1>3, <1>4, <2>5
    <3> QED
      BY <1>2, <1>7, <2>1, <2>5, <3>1 DEF Members
  <2> QED
    BY <1>5, <2>2, <2>3, <2>4, <2>5
<1> QED
  BY <1>1, <1>6, <1>7 DEF both

-----------------------------------------------------------------------------
(* Induction over data: a least counterexample.                            *)

\* A set of natural numbers that is not empty has a least member: what the
\* proofs by induction on data below start from.
LEMMA LeastNatural ==
    ASSUME NEW T, T \subseteq Nat, T # {}
    PROVE  \E x \in T : \A y \in T : x <= y
<1>1. \E x \in T : \A y \in T : ~ (<<y, x>> \in OpToRel(<, Nat))
  BY NatLessThanWellFounded, WFMin, Zenon
<1>2. PICK x \in T : \A y \in T : ~ (<<y, x>> \in OpToRel(<, Nat))
  BY <1>1
<1>3. ASSUME NEW y \in T, y < x
      PROVE  FALSE
  <2>1. <<y, x>> \in OpToRel(<, Nat)
    BY <1>3 DEF OpToRel
  <2> QED
    BY <1>2, <2>1
<1> QED
  BY <1>3

-----------------------------------------------------------------------------
(* A walk that removes some nodes.                                         *)

\* kept is what a walk over the first n nodes of list keeps, node by node.
IsWalk(kept, list, gone, n) ==
    kept = [i \in 0 .. n |->
              IF i = 0 THEN << >>
              ELSE IF list[i] \in gone THEN kept[i - 1] ELSE Append(kept[i - 1], list[i])]

\* There is such a walk over any number of nodes.
LEMMA WalkExists ==
    ASSUME NEW list, NEW gone, NEW n \in Nat
    PROVE  \E kept : IsWalk(kept, list, gone, n)
<1> DEFINE Stuck == {i \in Nat : ~ \E kept : IsWalk(kept, list, gone, i)}
<1>1. SUFFICES ASSUME Stuck # {}
               PROVE  FALSE
  OBVIOUS
<1>2. PICK least \in Stuck : \A j \in Stuck : least <= j
  <2>1. Stuck \subseteq Nat
    OBVIOUS
  <2> HIDE DEF Stuck
  <2> QED
    BY <1>1, <2>1, LeastNatural
<1>3. least # 0
  <2>1. IsWalk([i \in 0 .. 0 |-> << >>], list, gone, 0)
    BY DEF IsWalk
  <2> QED
    BY <2>1
<1>4. least - 1 \in Nat /\ least - 1 \notin Stuck
  BY <1>2, <1>3
<1>5. PICK kept : IsWalk(kept, list, gone, least - 1)
  BY <1>4
<1> DEFINE more == [i \in 0 .. least |->
                      IF i < least THEN kept[i]
                      ELSE IF list[i] \in gone THEN kept[i - 1] ELSE Append(kept[i - 1], list[i])]
<1>6. ASSUME NEW i \in 0 .. least
      PROVE  more[i] = IF i = 0 THEN << >>
                       ELSE IF list[i] \in gone THEN more[i - 1] ELSE Append(more[i - 1], list[i])
  <2>1. CASE i = 0
    <3>1. kept[0] = << >>
      BY <1>4, <1>5 DEF IsWalk
    <3> QED
      BY <1>3, <2>1, <3>1
  <2>2. CASE i # 0 /\ i < least
    <3>1. i \in 0 .. least - 1 /\ i - 1 \in 0 .. least /\ i - 1 < least
      BY <2>2
    <3>2. kept[i] = IF list[i] \in gone THEN kept[i - 1] ELSE Append(kept[i - 1], list[i])
      BY <1>5, <2>2, <3>1 DEF IsWalk
    <3> QED
      BY <2>2, <3>1, <3>2
  <2>3. CASE i # 0 /\ i = least
    <3>1. i - 1 \in 0 .. least /\ i - 1 < least
      BY <2>3
    <3> QED
      BY <2>3, <3>1
  <2> QED
    BY <2>1, <2>2, <2>3
<1>7. IsWalk(more, list, gone, least)
  <2>1. more = [i \in 0 .. least |-> more[i]]
    OBVIOUS
  <2> HIDE DEF more
  <2> QED
    BY <1>6, <2>1 DEF IsWalk
<1> HIDE DEF more
<1> QED
  BY <1>2, <1>7

\* The nodes list has kept after the first i of them.
KeptUpTo(kept, list, gone, S, i) ==
    /\ kept[i] \in Seq(S)
    /\ \A a \in 1 .. Len(kept[i]) : \E c \in 1 .. i : kept[i][a] = list[c] /\ list[c] \notin gone
    /\ \A c \in 1 .. i : list[c] \notin gone => \E a \in 1 .. Len(kept[i]) : kept[i][a] = list[c]
    /\ \A a, b \in 1 .. Len(kept[i]) :
          a < b => \E c, d \in 1 .. i : c < d /\ kept[i][a] = list[c] /\ kept[i][b] = list[d]

\* One step of the walk: what was kept stays kept, one more node is looked at.
LEMMA KeptStep ==
    ASSUME NEW S, NEW list \in Seq(S), NEW gone, NEW kept, IsWalk(kept, list, gone, Len(list)),
           NEW i \in 1 .. Len(list), KeptUpTo(kept, list, gone, S, i - 1)
    PROVE  KeptUpTo(kept, list, gone, S, i)
<1>1. Len(list) \in Nat /\ list[i] \in S
  BY LenProperties, ElementOfSeq
<1>2. kept[i] = IF list[i] \in gone THEN kept[i - 1] ELSE Append(kept[i - 1], list[i])
  <2>1. i \in 0 .. Len(list) /\ i # 0
    BY <1>1
  <2> QED
    BY <2>1 DEF IsWalk
<1>3. CASE list[i] \in gone
  BY <1>1, <1>2, <1>3 DEF KeptUpTo
<1>4. CASE list[i] \notin gone
  <2> DEFINE old == kept[i - 1]
             new == kept[i]
  <2>1. old \in Seq(S) /\ Len(old) \in Nat
    BY LenProperties DEF KeptUpTo
  <2>2. new = Append(old, list[i])
    BY <1>2, <1>4
  <2>3. /\ new \in Seq(S) /\ Len(new) = Len(old) + 1 /\ new[Len(old) + 1] = list[i]
        /\ \A a \in 1 .. Len(old) : new[a] = old[a]
    BY <1>1, <2>1, <2>2, AppendProperties
  <2>4. /\ \A a \in 1 .. Len(old) : \E c \in 1 .. i - 1 : old[a] = list[c] /\ list[c] \notin gone
        /\ \A c \in 1 .. i - 1 : list[c] \notin gone => \E a \in 1 .. Len(old) : old[a] = list[c]
        /\ \A a, b \in 1 .. Len(old) :
              a < b => \E c, d \in 1 .. i - 1 : c < d /\ old[a] = list[c] /\ old[b] = list[d]
    BY DEF KeptUpTo
  <2> HIDE DEF old, new
  <2>5. \A a \in 1 .. Len(new) : a \in 1 .. Len(old) \/ a = Len(old) + 1
    BY <2>1, <2>3
  <2>6. \A c \in 1 .. i : c \in 1 .. i - 1 \/ c = i
    OBVIOUS
  <2>7. \A a \in 1 .. Len(new) : \E c \in 1 .. i : new[a] = list[c] /\ list[c] \notin gone
    <3>1. ASSUME NEW a \in 1 .. Len(old)
          PROVE  \E c \in 1 .. i : new[a] = list[c] /\ list[c] \notin gone
      <4>1. PICK c \in 1 .. i - 1 : old[a] = list[c] /\ list[c] \notin gone
        BY <2>4
      <4> QED
        BY <2>3, <2>6, <4>1
    <3>2. i \in 1 .. i /\ new[Len(old) + 1] = list[i] /\ list[i] \notin gone
      BY <1>4, <2>3
    <3> QED
      BY <2>5, <3>1, <3>2
  <2>8. \A c \in 1 .. i : list[c] \notin gone => \E a \in 1 .. Len(new) : new[a] = list[c]
    <3>1. Len(old) + 1 \in 1 .. Len(new) /\ \A a \in 1 .. Len(old) : a \in 1 .. Len(new)
      BY <2>1, <2>3
    <3> QED
      BY <2>3, <2>4, <2>6, <3>1
  <2>9. ASSUME NEW a \in 1 .. Len(new), NEW b \in 1 .. Len(new), a < b
        PROVE  \E c, d \in 1 .. i : c < d /\ new[a] = list[c] /\ new[b] = list[d]
    <3>1. a \in 1 .. Len(old)
      BY <2>1, <2>3, <2>9
    <3>2. CASE b \in 1 .. Len(old)
      <4>1. PICK c \in 1 .. i - 1, d \in 1 .. i - 1 : c < d /\ old[a] = list[c] /\ old[b] = list[d]
        BY <2>4, <2>9, <3>1, <3>2
      <4> QED
        BY <2>3, <3>1, <3>2, <4>1
    <3>3. CASE b = Len(old) + 1
      <4>1. PICK c \in 1 .. i - 1 : old[a] = list[c]
        BY <2>4, <3>1
      <4> QED
        BY <2>3, <3>1, <3>3, <4>1
    <3> QED
      BY <2>5, <3>2, <3>3
  <2> QED
    BY <2>3, <2>7, <2>8, <2>9 DEF KeptUpTo, new
<1> QED
  BY <1>3, <1>4

\* The walk keeps the nodes that are not of gone, in the order they were in.
LEMMA WithoutElements ==
    ASSUME NEW S, NEW list \in Seq(S), NEW gone, NEW rest, rest = ListWithout(list, gone)
    PROVE  /\ rest \in Seq(S)
           /\ \A a \in 1 .. Len(rest) :
                 \E c \in 1 .. Len(list) : rest[a] = list[c] /\ list[c] \notin gone
           /\ \A c \in 1 .. Len(list) :
                 list[c] \notin gone => \E a \in 1 .. Len(rest) : rest[a] = list[c]
           /\ \A a, b \in 1 .. Len(rest) :
                 a < b => \E c, d \in 1 .. Len(list) :
                             c < d /\ rest[a] = list[c] /\ rest[b] = list[d]
<1> DEFINE kept == CHOOSE kept : IsWalk(kept, list, gone, Len(list))
<1>1. Len(list) \in Nat
  BY LenProperties
<1>2. IsWalk(kept, list, gone, Len(list))
  BY <1>1, WalkExists
<1>3. ListWithout(list, gone) = kept[Len(list)]
  BY DEF ListWithout, IsWalk
<1> HIDE DEF kept
<1> DEFINE Bad == {i \in 0 .. Len(list) : ~ KeptUpTo(kept, list, gone, S, i)}
<1>4. Bad = {}
  <2>1. SUFFICES ASSUME Bad # {}
                 PROVE  FALSE
    OBVIOUS
  <2>2. PICK i \in Bad : \A j \in Bad : i <= j
    <3>1. Bad \subseteq Nat
      BY <1>1
    <3> HIDE DEF Bad
    <3> QED
      BY <2>1, <3>1, LeastNatural
  <2>3. CASE i = 0
    <3>1. kept[0] = << >>
      BY <1>1, <1>2 DEF IsWalk
    <3>2. KeptUpTo(kept, list, gone, S, 0)
      BY <3>1, EmptySeq DEF KeptUpTo
    <3> QED
      BY <2>3, <3>2
  <2>4. CASE i # 0
    <3>1. i \in 1 .. Len(list) /\ i - 1 \in 0 .. Len(list) /\ i - 1 \notin Bad
      BY <1>1, <2>2, <2>4
    <3>2. KeptUpTo(kept, list, gone, S, i - 1)
      BY <3>1
    <3>3. KeptUpTo(kept, list, gone, S, i)
      BY <1>2, <3>1, <3>2, KeptStep
    <3> QED
      BY <3>3
  <2> QED
    BY <2>3, <2>4
<1>5. KeptUpTo(kept, list, gone, S, Len(list))
  BY <1>1, <1>4
<1>6. rest = kept[Len(list)]
  BY <1>3
<1> QED
  BY <1>5, <1>6 DEF KeptUpTo

\* What a walk leaves of the members, and that it repeats none.
LEMMA WithoutMembers ==
    ASSUME NEW S, NEW list \in Seq(S), NoRepeat(list), NEW gone
    PROVE  /\ ListWithout(list, gone) \in Seq(S)
           /\ NoRepeat(ListWithout(list, gone))
           /\ Members(ListWithout(list, gone)) = Members(list) \ gone
<1> DEFINE rest == ListWithout(list, gone)
<1>1. /\ rest \in Seq(S)
      /\ \A a \in 1 .. Len(rest) :
            \E c \in 1 .. Len(list) : rest[a] = list[c] /\ list[c] \notin gone
      /\ \A c \in 1 .. Len(list) :
            list[c] \notin gone => \E a \in 1 .. Len(rest) : rest[a] = list[c]
      /\ \A a, b \in 1 .. Len(rest) :
            a < b => \E c, d \in 1 .. Len(list) :
                        c < d /\ rest[a] = list[c] /\ rest[b] = list[d]
  BY WithoutElements
<1> HIDE DEF rest
<1>2. /\ Len(list) \in Nat /\ DOMAIN list = 1 .. Len(list)
      /\ Len(rest) \in Nat /\ DOMAIN rest = 1 .. Len(rest)
  BY <1>1, LenProperties
<1>3. Members(rest) = Members(list) \ gone
  <2>1. ASSUME NEW x \in Members(rest)
        PROVE  x \in Members(list) \ gone
    BY <1>1, <1>2 DEF Members
  <2>2. ASSUME NEW x \in Members(list), x \notin gone
        PROVE  x \in Members(rest)
    <3>1. PICK c \in 1 .. Len(list) : x = list[c]
      BY <1>2 DEF Members
    <3>2. PICK a \in 1 .. Len(rest) : rest[a] = list[c]
      BY <1>1, <2>2, <3>1
    <3> QED
      BY <1>2, <3>1, <3>2 DEF Members
  <2> QED
    BY <2>1, <2>2
<1>4. ASSUME NEW a \in 1 .. Len(rest), NEW b \in 1 .. Len(rest), a < b
      PROVE  rest[a] # rest[b]
  <2>1. PICK c \in 1 .. Len(list), d \in 1 .. Len(list) :
           c < d /\ rest[a] = list[c] /\ rest[b] = list[d]
    BY <1>1, <1>4
  <2> QED
    BY <1>2, <2>1 DEF NoRepeat
<1>5. NoRepeat(rest)
  <2>1. ASSUME NEW a \in 1 .. Len(rest), NEW b \in 1 .. Len(rest), rest[a] = rest[b]
        PROVE  a = b
    BY <1>2, <1>4, <2>1
  <2> QED
    BY <1>2, <2>1 DEF NoRepeat
<1> QED
  BY <1>1, <1>3, <1>5 DEF rest
=============================================================================
