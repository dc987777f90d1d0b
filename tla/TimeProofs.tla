----------------------------- MODULE TimeProofs ------------------------------
(***************************************************************************)
(* What holds of the modules that keep time.                               *)
(*                                                                         *)
(* The delay list keeps its deltas exact and implements one alarm for each *)
(* sleeper, for any number of tasks and any delays.                        *)
(*                                                                         *)
(* Delays and timeouts are never short: for any number of tasks, any width *)
(* of the tick counter and any number of wake-ups, a delay lasts as long   *)
(* as it was asked to, and on one core so does every timeout.  The counter *)
(* may wrap any number of times during a call.  What makes the argument go *)
(* through is that a wrapped difference is never larger than the time that *)
(* has really passed, so that a call computes too much to remain, and      *)
(* never too little.                                                       *)
(*                                                                         *)
(* Tickless idle sleeps through no deadline and reports the time that      *)
(* passed, for any deadlines and any width of the counter: a plan that was *)
(* made before a deadline came is never armed after it.                    *)
(*                                                                         *)
(* The timers of the chips lose no tick and wake in time, busy waits last  *)
(* as long as they were asked to, and the usage is that of the ticks gone  *)
(* by, for counters that run at any rate and come round any number of      *)
(* times.                                                                  *)
(*                                                                         *)
(* Software timers expire when they should and every expiry is delivered,  *)
(* for any number of timers and of deferred calls.                         *)
(*                                                                         *)
(* At the end the components are put side by side, as module MCComponents  *)
(* has them, with what PortProofs shows of the others.                     *)
(***************************************************************************)
EXTENDS MCComponents, PortProofs

(***************************************************************************)
(* The delay list.                                                         *)
(***************************************************************************)

\* What the invariant says of the elements of the list.
LEMMA Elements ==
    ASSUME ListIInv
    PROVE  /\ list \in Seq(Sleeper) /\ Len(list) \in Nat
           /\ \A i \in 1 .. Len(list) : list[i] \in Sleeper
           /\ Asleep = {list[i] : i \in 1 .. Len(list)}
           /\ Asleep \subseteq Sleeper
           /\ list # << >> <=> 1 \in 1 .. Len(list)
           /\ \A i, j \in 1 .. Len(list) : list[i] = list[j] => i = j
<1>1. list \in Seq(Sleeper)
  BY DEF ListIInv, ListTypeOK
<1>2. Len(list) \in Nat /\ DOMAIN list = 1 .. Len(list) /\ (list # << >> <=> Len(list) # 0)
  BY <1>1, LenProperties, EmptySeq
<1>3. \A i \in 1 .. Len(list) : list[i] \in Sleeper
  BY <1>1, ElementOfSeq
<1> QED
  BY <1>1, <1>2, <1>3 DEF ListIInv, DeltasExact, NoRepeat, Asleep, Members

\* When no update is in progress nobody is overdue.
LEMMA IdleIsQuiet ==
    ASSUME ListIInv, Idle
    PROVE  Alarms!Quiet
<1>1. ASSUME NEW t \in Asleep
      PROVE  (IF t = inserting THEN 0 ELSE toWake[t]) > 0 /\ t \in Sleeper
  BY DelayListAssumption, Elements DEF ListIInv, Sorted, Idle
<1> QED
  BY <1>1 DEF Alarms!Quiet

\* The initial state.
LEMMA InitIInv == ListInit => ListIInv
<1> SUFFICES ASSUME ListInit
             PROVE  ListIInv
  OBVIOUS
<1>1. list = << >> /\ list \in Seq(Sleeper) /\ Len(list) = 0 /\ Asleep = {}
  <2>1. << >> \in Seq(Sleeper) /\ Len(<< >>) = 0 /\ DOMAIN << >> = 1 .. 0
    BY EmptySeq, LenProperties
  <2> QED
    BY <2>1 DEF ListInit, Asleep, Members
<1>2. ListTypeOK
  <2>1. delta \in [Sleeper -> Nat] /\ toWake \in [Sleeper -> Int]
    BY DEF ListInit
  <2>2. inserting = NoSleeper /\ ticking \in BOOLEAN
    BY DEF ListInit
  <2>3. at = 1 /\ carry = 0
    BY DEF ListInit
  <2>4. at \in Nat \ {0} /\ carry \in Nat
    BY <2>3
  <2> QED
    BY <1>1, <2>1, <2>2, <2>4 DEF ListTypeOK
<1>3. DeltasExact
  BY <1>1 DEF ListInit, DeltasExact, NoRepeat
<1>4. Sorted /\ Walked
  BY <1>1 DEF ListInit, Sorted, Walked
<1> QED
  BY <1>2, <1>3, <1>4 DEF ListIInv

\* A step that leaves the list and the deltas alone: the beginning of the two
\* loops, and the walk.
LEMMA SleepStep ==
    ASSUME ListIInv, NEW t \in Sleeper, NEW n \in Ticks, Sleep(t, n)
    PROVE  ListIInv'
<1> USE DelayListAssumption
<1>1. ListTypeOK'
  BY DEF Sleep, ListIInv, ListTypeOK, Ticks
<1>2. \A u \in Sleeper : u # t => toWake'[u] = toWake[u]
  BY DEF Sleep, ListIInv, ListTypeOK
<1>3. \A i \in 1 .. Len(list) : toWake'[list[i]] = toWake[list[i]] /\ list[i] # t
  BY <1>2, Elements DEF Sleep
<1>4. /\ list' = list /\ delta' = delta /\ ticking' = ticking /\ ~ticking
      /\ Asleep' = Asleep
  BY DEF Sleep, Idle, Asleep
<1>5. DeltasExact'
  <2>1. \A i \in 1 .. Len(list) - 1 : i \in 1 .. Len(list) /\ i + 1 \in 1 .. Len(list)
    BY Elements
  <2> QED
    BY <1>3, <1>4, <2>1, Elements DEF ListIInv, DeltasExact, NoRepeat
<1>6. Sorted'
  BY <1>2, <1>3, <1>4, Elements DEF ListIInv, Sorted, Sleep, Idle
<1>7. Walked'
  BY <1>1, <1>4, Elements DEF Walked, Sleep, ListIInv, ListTypeOK
<1> QED
  BY <1>1, <1>5, <1>6, <1>7 DEF ListIInv

\* One iteration of the loop of os_task_delay_insert.
LEMMA WalkStep ==
    ASSUME ListIInv, InsertWalk
    PROVE  ListIInv'
<1>1. /\ at \in 1 .. Len(list) /\ delta[list[at]] <= carry /\ delta[list[at]] \in Nat
      /\ carry \in Nat /\ ~ticking
      /\ toWake[list[at]] \in Int /\ toWake[inserting] \in Int
  BY Elements DEF InsertWalk, WakesBefore, ListIInv, ListTypeOK, Walked
<1>2. delta[list[at]] = toWake[list[at]] - (IF at = 1 THEN 0 ELSE toWake[list[at - 1]])
  <2>1. CASE at = 1
    BY <1>1, <2>1, Elements DEF ListIInv, DeltasExact
  <2>2. CASE at # 1
    <3>1. at - 1 \in 1 .. Len(list) - 1 /\ (at - 1) + 1 = at
      BY <1>1, <2>2, Elements
    <3> QED
      BY <2>2, <3>1 DEF ListIInv, DeltasExact
  <2> QED
    BY <2>1, <2>2
<1>3. /\ carry' = carry - delta[list[at]] /\ at' = at + 1
      /\ UNCHANGED <<list, delta, inserting, ticking, toWake>>
  BY DEF InsertWalk
<1>4. ListTypeOK'
  BY <1>1, <1>3 DEF ListIInv, ListTypeOK
<1>5. Asleep' = Asleep
  BY <1>3 DEF Asleep
<1>6. DeltasExact' /\ Sorted'
  BY <1>1, <1>3, <1>5 DEF ListIInv, DeltasExact, Sorted, NoRepeat
<1>7. Walked'
  <2>1. at' - 1 = at /\ at' # 1 /\ at' <= Len(list') + 1
    BY <1>1, <1>3, Elements
  <2>2. carry' = toWake[inserting] - toWake[list[at]]
    <3>1. CASE at = 1
      BY <1>1, <1>2, <1>3, <3>1 DEF ListIInv, Walked, InsertWalk
    <3>2. CASE at # 1
      <4>1. at - 1 \in 1 .. Len(list)
        BY <1>1, <3>2, Elements
      <4>2. toWake[list[at - 1]] \in Int
        BY <4>1, Elements DEF ListIInv, ListTypeOK
      <4> QED
        BY <1>1, <1>2, <1>3, <3>2, <4>2 DEF ListIInv, Walked, InsertWalk
    <3> QED
      BY <3>1, <3>2
  <2> QED
    BY <1>3, <1>5, <2>1, <2>2 DEF ListIInv, Walked
<1> QED
  BY <1>4, <1>6, <1>7 DEF ListIInv

\* The end of os_task_delay_insert: the walk has found the place.
LEMMA LinkStep ==
    ASSUME ListIInv, InsertLink
    PROVE  ListIInv'
<1> DEFINE t == inserting
           n == Len(list)
<1>1. /\ t \in Sleeper /\ t \notin Asleep /\ ~ticking /\ toWake[t] \in Ticks
      /\ n \in Nat /\ at \in 1 .. n + 1 /\ carry \in Nat
      /\ carry = toWake[t] - (IF at = 1 THEN 0 ELSE toWake[list[at - 1]])
  BY Elements DEF InsertLink, ListIInv, ListTypeOK, Walked
<1>2. /\ list' \in Seq(Sleeper) /\ Len(list') = n + 1
      /\ \A i \in 1 .. n + 1 :
            list'[i] = IF i < at THEN list[i] ELSE IF i = at THEN t ELSE list[i - 1]
  BY <1>1, Elements, InsertAtElements DEF InsertLink, ListInsertBefore
<1>3. NoRepeat(list') /\ Asleep' = Asleep \cup {t}
  BY <1>1, Elements, InsertMembers DEF InsertLink, ListIInv, DeltasExact, Asleep
<1>4. at <= n => /\ list[at] \in Sleeper /\ list[at] # t
                 /\ delta[list[at]] \in Nat /\ delta[list[at]] > carry
                 /\ toWake[list[at]] \in Int
                 /\ delta[list[at]] =
                       toWake[list[at]] - (IF at = 1 THEN 0 ELSE toWake[list[at - 1]])
  <2> SUFFICES ASSUME at <= n
               PROVE  /\ list[at] \in Sleeper /\ list[at] # t
                      /\ delta[list[at]] \in Nat /\ delta[list[at]] > carry
                      /\ toWake[list[at]] \in Int
                      /\ delta[list[at]] =
                            toWake[list[at]] - (IF at = 1 THEN 0 ELSE toWake[list[at - 1]])
    OBVIOUS
  <2>1. at \in 1 .. n /\ list[at] \in Sleeper /\ list[at] # t
    BY <1>1, Elements
  <2>2. delta[list[at]] \in Nat /\ toWake[list[at]] \in Int
    BY <2>1 DEF ListIInv, ListTypeOK
  <2>3. delta[list[at]] > carry
    BY <1>1, <2>2 DEF InsertLink, WakesBefore
  <2>4. CASE at = 1
    BY <1>1, <2>1, <2>2, <2>3, <2>4, Elements DEF ListIInv, DeltasExact
  <2>5. CASE at # 1
    <3>1. at - 1 \in 1 .. n - 1 /\ (at - 1) + 1 = at
      BY <1>1, <2>5
    <3> QED
      BY <2>1, <2>2, <2>3, <2>5, <3>1 DEF ListIInv, DeltasExact
  <2> QED
    BY <2>4, <2>5
<1>5. /\ delta' = [u \in Sleeper |-> IF u = t THEN carry
                                  ELSE IF at <= n /\ u = list[at] THEN delta[u] - carry
                                  ELSE delta[u]]
      /\ inserting' = NoSleeper
      /\ UNCHANGED <<at, ticking, carry, toWake>>
  BY DEF InsertLink, LinkedDelta
<1>6. ListTypeOK'
  <2>1. delta' \in [Sleeper -> Nat]
    <3>1. ASSUME NEW u \in Sleeper
          PROVE  (IF u = t THEN carry
                  ELSE IF at <= n /\ u = list[at] THEN delta[u] - carry ELSE delta[u]) \in Nat
      <4>1. delta[u] \in Nat
        BY DEF ListIInv, ListTypeOK
      <4> QED
        BY <1>1, <1>4, <4>1
    <3> QED
      BY <1>5, <3>1
  <2> QED
    BY <1>2, <1>5, <2>1 DEF ListIInv, ListTypeOK
<1> HIDE DEF t, n
<1>7. DeltasExact'
  <2>1. list' # << >> /\ 1 \in 1 .. n + 1
    BY <1>1, <1>2, EmptySeq
  <2>2. delta'[list'[1]] = toWake[list'[1]]
    <3>1. CASE at = 1
      BY <1>1, <1>2, <1>5, <2>1, <3>1 DEF Ticks
    <3>2. CASE at # 1
      <4>1. /\ 1 \in 1 .. n /\ list'[1] = list[1]
            /\ at <= n => list[at] # list[1]
        BY <1>1, <1>2, <3>2, Elements DEF n
      <4>2. list[1] \in Sleeper /\ list[1] # t /\ list # << >>
        BY <1>1, <4>1, Elements DEF n
      <4>3. toWake[list[1]] \in Int
        BY <4>2 DEF ListIInv, ListTypeOK
      <4>4. delta[list[1]] = toWake[list[1]]
        BY <1>1, <4>2, <4>3 DEF ListIInv, DeltasExact
      <4> QED
        BY <1>5, <4>1, <4>2, <4>4
    <3> QED
      BY <3>1, <3>2
  <2>3. ASSUME NEW i \in 1 .. n
        PROVE  delta'[list'[i + 1]] = toWake[list'[i + 1]] - toWake[list'[i]]
    <3>0. i + 1 \in 1 .. n + 1 /\ i \in 1 .. n + 1
      BY <1>1
    <3>1. CASE i + 1 < at
      <4>1. /\ list'[i + 1] = list[i + 1] /\ list'[i] = list[i]
            /\ i + 1 \in 1 .. n /\ i \in 1 .. n - 1
            /\ at <= n => list[at] # list[i + 1]
        BY <1>1, <1>2, <3>0, <3>1, Elements DEF n
      <4>2. list[i + 1] \in Sleeper /\ list[i + 1] # t
        BY <1>1, <4>1, Elements DEF n
      <4>3. delta'[list[i + 1]] = delta[list[i + 1]]
        BY <1>5, <4>1, <4>2
      <4> QED
        BY <4>1, <4>3 DEF ListIInv, DeltasExact, n
    <3>2. CASE i + 1 = at
      <4>a. at \in Nat /\ i \in Nat /\ i >= 1 /\ i < at
        BY <1>1, <3>2
      <4>b. at - 1 = i /\ at # 1
        BY <3>2, <4>a
      <4>c. list'[i + 1] = t /\ list'[i] = list[i]
        BY <1>2, <3>0, <3>2, <4>a
      <4>1. list'[i + 1] = t /\ list'[i] = list[i] /\ at - 1 = i /\ at # 1
        BY <4>b, <4>c
      <4> QED
        BY <1>1, <1>5, <4>1
    <3>3. CASE i = at
      <4>1. list'[i + 1] = list[at] /\ list'[i] = t /\ at <= n
        BY <1>1, <1>2, <3>0, <3>3
      <4>2. delta'[list[at]] = delta[list[at]] - carry
        BY <1>4, <1>5, <4>1
      <4>3. CASE at = 1
        BY <1>1, <1>4, <4>1, <4>2, <4>3 DEF Ticks
      <4>4. CASE at # 1
        <5>1. toWake[list[at - 1]] \in Int /\ toWake[t] \in Int
          <6>1. at - 1 \in 1 .. n
            BY <1>1, <4>4
          <6> QED
            BY <1>1, <6>1, Elements DEF ListIInv, ListTypeOK, n
        <5> QED
          BY <1>1, <1>4, <4>1, <4>2, <4>4, <5>1
      <4> QED
        BY <4>3, <4>4
    <3>4. CASE i > at
      <4>1. /\ list'[i + 1] = list[i] /\ list'[i] = list[i - 1]
            /\ i - 1 \in 1 .. n - 1 /\ (i - 1) + 1 = i
            /\ list[i] # list[at] /\ at \in 1 .. n
        BY <1>1, <1>2, <3>0, <3>4, Elements DEF n
      <4>2. list[i] \in Sleeper /\ list[i] # t
        BY <1>1, Elements DEF n
      <4>3. delta'[list[i]] = delta[list[i]]
        BY <1>5, <4>1, <4>2
      <4> QED
        BY <4>1, <4>3 DEF ListIInv, DeltasExact, n
    <3> QED
      BY <1>1, <3>1, <3>2, <3>3, <3>4
  <2>4. ~ticking' /\ toWake' = toWake /\ Len(list') - 1 = n
    BY <1>1, <1>2, <1>5
  <2>5. delta'[list'[1]] = toWake'[list'[1]] + 0
    <3>1. toWake[list'[1]] \in Int
      BY <1>2, <2>1, ElementOfSeq DEF ListIInv, ListTypeOK
    <3> QED
      BY <2>2, <2>4, <3>1
  <2> QED
    BY <1>3, <2>3, <2>4, <2>5 DEF DeltasExact
<1>8. Sorted'
  <2>1. ASSUME NEW i \in 1 .. n, i < at
        PROVE  toWake[list[i]] <= toWake[t]
    <3>1. at - 1 \in 1 .. n /\ list[at - 1] \in Sleeper /\ list[i] \in Sleeper
      BY <1>1, <2>1, Elements DEF n
    <3>2. toWake[list[i]] <= toWake[list[at - 1]]
      <4>1. toWake[list[i]] \in Int /\ toWake[list[at - 1]] \in Int
        BY <3>1 DEF ListIInv, ListTypeOK
      <4>2. i < at - 1 \/ i = at - 1
        BY <1>1, <2>1
      <4>3. i < at - 1 => toWake[list[i]] <= toWake[list[at - 1]]
        BY <3>1 DEF ListIInv, Sorted, n
      <4> QED
        BY <4>1, <4>2, <4>3
    <3> QED
      BY <1>1, <2>1, <3>1, <3>2 DEF ListIInv, ListTypeOK, Ticks
  <2>2. ASSUME NEW i \in 1 .. n, i >= at
        PROVE  toWake[t] <= toWake[list[i]]
    <3>1. at \in 1 .. n /\ list[at] \in Sleeper /\ list[i] \in Sleeper
      BY <1>1, <2>2, Elements DEF n
    <3>2. toWake[list[at]] <= toWake[list[i]]
      BY <1>1, <2>2, <3>1 DEF ListIInv, Sorted, n, ListTypeOK
    <3>3. toWake[t] <= toWake[list[at]]
      <4>1. CASE at = 1
        BY <1>1, <1>4, <3>1, <4>1 DEF Ticks
      <4>2. CASE at # 1
        <5>1. toWake[list[at - 1]] \in Int
          <6>1. at - 1 \in 1 .. n
            BY <1>1, <4>2
          <6> QED
            BY <6>1, Elements DEF ListIInv, ListTypeOK, n
        <5> QED
          BY <1>1, <1>4, <3>1, <4>2, <5>1 DEF Ticks
      <4> QED
        BY <4>1, <4>2
    <3> QED
      BY <1>1, <3>1, <3>2, <3>3 DEF ListIInv, ListTypeOK, Ticks
  <2>3. ASSUME NEW i \in 1 .. n + 1, NEW j \in 1 .. n + 1, i < j
        PROVE  toWake[list'[i]] <= toWake[list'[j]]
    <3>1. CASE j < at
      <4>1. i \in 1 .. n /\ j \in 1 .. n /\ list'[i] = list[i] /\ list'[j] = list[j]
        BY <1>1, <1>2, <2>3, <3>1
      <4> QED
        BY <2>3, <4>1 DEF ListIInv, Sorted, n
    <3>2. CASE j = at
      BY <1>1, <1>2, <2>1, <2>3, <3>2
    <3>3. CASE i = at
      <4>1. j - 1 \in 1 .. n /\ j - 1 >= at /\ list'[i] = t /\ list'[j] = list[j - 1]
        BY <1>1, <1>2, <2>3, <3>3
      <4> QED
        BY <2>2, <4>1
    <3>4. CASE i < at /\ at < j
      <4>1. j - 1 \in 1 .. n /\ (i < j - 1 \/ i = j - 1)
        BY <1>1, <2>3, <3>4
      <4>2. /\ i \in 1 .. n /\ j - 1 \in 1 .. n
            /\ list'[i] = list[i] /\ list'[j] = list[j - 1]
        BY <1>1, <1>2, <2>3, <3>4
      <4>3. list[i] \in Sleeper
        BY <4>2, Elements DEF n
      <4>4. toWake[list[i]] \in Int
        BY <4>3 DEF ListIInv, ListTypeOK
      <4>5. i < j - 1 => toWake[list[i]] <= toWake[list[j - 1]]
        BY <4>2 DEF ListIInv, Sorted, n
      <4> QED
        BY <4>1, <4>2, <4>4, <4>5
    <3>5. CASE at < i
      <4>1. /\ i - 1 \in 1 .. n /\ j - 1 \in 1 .. n /\ i - 1 < j - 1
            /\ list'[i] = list[i - 1] /\ list'[j] = list[j - 1]
        BY <1>1, <1>2, <2>3, <3>5
      <4> QED
        BY <4>1 DEF ListIInv, Sorted, n
    <3> QED
      BY <1>1, <2>3, <3>1, <3>2, <3>3, <3>4, <3>5
  <2>4. \A u \in Asleep' : toWake[u] > 0
    BY <1>1, <1>3 DEF ListIInv, Sorted, Ticks
  <2>5. \A u \in Sleeper \ Asleep' : u # inserting' => toWake[u] = 0
    BY <1>3 DEF ListIInv, Sorted, t
  <2> QED
    BY <1>1, <1>2, <1>5, <2>3, <2>4, <2>5 DEF Sorted
<1>9. Walked'
  BY <1>5 DEF Walked
<1> QED
  BY <1>6, <1>7, <1>8, <1>9 DEF ListIInv

\* A sleeper leaves early and hands its share to the one behind it.
LEMMA LeaveStep ==
    ASSUME ListIInv, NEW t \in Sleeper, RemoveSleeper(t)
    PROVE  ListIInv'
<1> DEFINE n == Len(list)
<1>1. PICK k \in 1 .. n : list[k] = t
  BY Elements DEF RemoveSleeper
<1>2. /\ n \in Nat /\ k \in 1 .. n /\ ~ticking /\ inserting = NoSleeper
      /\ \A i \in 1 .. n : list[i] \in Sleeper /\ delta[list[i]] \in Nat /\ toWake[list[i]] \in Int
      /\ \A i, j \in 1 .. n : list[i] = list[j] => i = j
  BY Elements DEF RemoveSleeper, Idle, ListIInv, ListTypeOK
<1>3. /\ list' \in Seq(Sleeper) /\ Len(list') = n - 1
      /\ \A i \in 1 .. n - 1 : list'[i] = IF i < k THEN list[i] ELSE list[i + 1]
  <2>1. (CHOOSE i \in DOMAIN list : list[i] = t) = k
    BY <1>1, <1>2, Elements, LenProperties
  <2>2. t \in Members(list) /\ list \in Seq(Sleeper)
    BY Elements DEF RemoveSleeper, Asleep
  <2>3. list' = RemoveAt(list, k)
    BY <2>1, <2>2 DEF RemoveSleeper, ListRemove
  <2> QED
    BY <1>2, <2>2, <2>3, RemoveAtElements
<1>4. NoRepeat(list') /\ Asleep' = Asleep \ {t}
  BY Elements, RemoveMembers DEF RemoveSleeper, ListIInv, DeltasExact, Asleep
<1>5. ASSUME NEW i \in 1 .. n, i # k
      PROVE  /\ list[i] # t /\ toWake'[list[i]] = toWake[list[i]]
             /\ delta'[list[i]] = IF i = k + 1 THEN delta[list[i]] + delta[t] ELSE delta[list[i]]
  <2>1. list[i] \in Sleeper /\ list[i] # t
    BY <1>1, <1>2, <1>5
  <2>2. (\E j \in 1 .. n - 1 : list[j] = t /\ list[j + 1] = list[i]) <=> i = k + 1
    <3>1. ASSUME NEW j \in 1 .. n - 1, list[j] = t, list[j + 1] = list[i]
          PROVE  i = k + 1
      BY <1>1, <1>2, <3>1
    <3>2. ASSUME i = k + 1
          PROVE  \E j \in 1 .. n - 1 : list[j] = t /\ list[j + 1] = list[i]
      <4>1. k \in 1 .. n - 1 /\ list[k] = t /\ list[k + 1] = list[i]
        BY <1>1, <1>2, <3>2
      <4> QED
        BY <4>1
    <3> QED
      BY <3>1, <3>2
  <2>3. toWake'[list[i]] = toWake[list[i]]
    BY <2>1 DEF RemoveSleeper, ListIInv, ListTypeOK
  <2>4. delta'[list[i]] = IF \E j \in 1 .. n - 1 : list[j] = t /\ list[j + 1] = list[i]
                          THEN delta[list[i]] + delta[t] ELSE delta[list[i]]
    BY <2>1 DEF RemoveSleeper, HandedOver
  <2> QED
    BY <2>1, <2>2, <2>3, <2>4
<1>6. ListTypeOK'
  <2>1. delta' \in [Sleeper -> Nat]
    <3>1. \A u \in Sleeper : delta[u] \in Nat
      BY DEF ListIInv, ListTypeOK
    <3> QED
      BY <3>1 DEF RemoveSleeper, HandedOver
  <2>2. toWake' \in [Sleeper -> Int]
    BY DEF RemoveSleeper, ListIInv, ListTypeOK
  <2> QED
    BY <1>3, <2>1, <2>2 DEF RemoveSleeper, ListIInv, ListTypeOK
<1> HIDE DEF n
<1>7. DeltasExact'
  <2>1. list' # << >> => delta'[list'[1]] = toWake'[list'[1]] + 0
    <3> SUFFICES ASSUME list' # << >>
                 PROVE  delta'[list'[1]] = toWake'[list'[1]] + 0
      OBVIOUS
    <3>1. n - 1 \in Nat \ {0} /\ list # << >>
      <4>1. Len(list') \in Nat \ {0}
        BY <1>3, EmptySeq
      <4> QED
        BY <1>2, <1>3, <4>1, EmptySeq DEF n
    <3>2. delta[list[1]] = toWake[list[1]]
      BY <1>2, <3>1 DEF ListIInv, DeltasExact
    <3>3. CASE k = 1
      <4>1. /\ list'[1] = list[2] /\ 1 \in 1 .. n - 1 /\ 2 \in 1 .. n /\ 2 # k
            /\ list[1] = t
        BY <1>1, <1>2, <1>3, <3>1, <3>3
      <4>2. delta[list[1 + 1]] = toWake[list[1 + 1]] - toWake[list[1]]
        BY <4>1 DEF ListIInv, DeltasExact, n
      <4>3. /\ toWake'[list[2]] = toWake[list[2]]
            /\ delta'[list[2]] = delta[list[2]] + delta[t]
        BY <1>5, <3>3, <4>1
      <4> QED
        BY <1>2, <3>2, <4>1, <4>2, <4>3
    <3>4. CASE k # 1
      <4>1. list'[1] = list[1] /\ 1 \in 1 .. n /\ 1 # k + 1
        BY <1>2, <1>3, <3>1, <3>4
      <4>2. toWake'[list[1]] = toWake[list[1]] /\ delta'[list[1]] = delta[list[1]]
        BY <1>5, <3>4, <4>1
      <4> QED
        BY <1>2, <3>2, <4>1, <4>2
    <3> QED
      BY <3>3, <3>4
  <2>2. ASSUME NEW i \in 1 .. (n - 1) - 1
        PROVE  delta'[list'[i + 1]] = toWake'[list'[i + 1]] - toWake'[list'[i]]
    <3>0. /\ i \in 1 .. n - 1 /\ i + 1 \in 1 .. n - 1 /\ i + 2 \in 1 .. n
          /\ i \in 1 .. n /\ i + 1 \in 1 .. n /\ (i + 1) + 1 = i + 2
      BY <1>2
    <3>a. /\ delta[list[i + 1]] = toWake[list[i + 1]] - toWake[list[i]]
          /\ delta[list[i + 2]] = toWake[list[i + 2]] - toWake[list[i + 1]]
      BY <3>0 DEF ListIInv, DeltasExact, n
    <3>1. CASE i + 1 < k
      <4>1. list'[i + 1] = list[i + 1] /\ list'[i] = list[i]
        BY <1>2, <1>3, <3>0, <3>1
      <4>2. /\ toWake'[list[i]] = toWake[list[i]] /\ toWake'[list[i + 1]] = toWake[list[i + 1]]
            /\ delta'[list[i + 1]] = delta[list[i + 1]]
        BY <1>2, <1>5, <3>0, <3>1
      <4> QED
        BY <3>a, <4>1, <4>2
    <3>2. CASE i + 1 = k
      <4>1. list'[i + 1] = list[i + 2] /\ list'[i] = list[i]
        <5>1. i < k /\ ~(i + 1 < k)
          BY <1>2, <3>0, <3>2
        <5>2. list'[i] = list[i]
          BY <1>3, <3>0, <5>1
        <5>3. list'[i + 1] = list[(i + 1) + 1]
          BY <1>3, <3>0, <5>1
        <5> QED
          BY <3>0, <5>2, <5>3
      <4>2. /\ toWake'[list[i]] = toWake[list[i]] /\ toWake'[list[i + 2]] = toWake[list[i + 2]]
            /\ delta'[list[i + 2]] = delta[list[i + 2]] + delta[list[i + 1]]
        BY <1>1, <1>2, <1>5, <3>0, <3>2
      <4> QED
        BY <1>2, <3>0, <3>a, <4>1, <4>2
    <3>3. CASE i + 1 > k
      <4>1. list'[i + 1] = list[i + 2] /\ list'[i] = list[i + 1]
        BY <1>2, <1>3, <3>0, <3>3
      <4>2. /\ toWake'[list[i + 1]] = toWake[list[i + 1]]
            /\ toWake'[list[i + 2]] = toWake[list[i + 2]]
            /\ delta'[list[i + 2]] = delta[list[i + 2]]
        BY <1>2, <1>5, <3>0, <3>3
      <4> QED
        BY <3>a, <4>1, <4>2
    <3> QED
      BY <1>2, <3>0, <3>1, <3>2, <3>3
  <2>3. ~ticking' /\ Len(list') - 1 = (n - 1) - 1
    BY <1>2, <1>3 DEF RemoveSleeper
  <2> QED
    BY <1>4, <2>1, <2>2, <2>3 DEF DeltasExact
<1>8. Sorted'
  <2>1. ASSUME NEW i \in 1 .. n - 1, NEW j \in 1 .. n - 1, i < j
        PROVE  toWake'[list'[i]] <= toWake'[list'[j]]
    <3>1. PICK a \in 1 .. n : list'[i] = list[a] /\ a # k /\ a = IF i < k THEN i ELSE i + 1
      <4>1. CASE i < k
        BY <1>2, <1>3, <4>1
      <4>2. CASE ~(i < k)
        <5>1. i + 1 \in 1 .. n /\ i + 1 # k /\ list'[i] = list[i + 1]
          BY <1>2, <1>3, <4>2
        <5> QED
          BY <4>2, <5>1
      <4> QED
        BY <4>1, <4>2
    <3>2. PICK b \in 1 .. n : list'[j] = list[b] /\ b # k /\ b = IF j < k THEN j ELSE j + 1
      <4>1. CASE j < k
        BY <1>2, <1>3, <4>1
      <4>2. CASE ~(j < k)
        <5>1. j + 1 \in 1 .. n /\ j + 1 # k /\ list'[j] = list[j + 1]
          BY <1>2, <1>3, <4>2
        <5> QED
          BY <4>2, <5>1
      <4> QED
        BY <4>1, <4>2
    <3>3. a < b
      BY <1>2, <2>1, <3>1, <3>2
    <3>4. toWake[list[a]] <= toWake[list[b]]
      BY <3>3 DEF ListIInv, Sorted, n
    <3> QED
      BY <1>5, <3>1, <3>2, <3>4
  <2>2. \A u \in Asleep' : toWake'[u] > 0
    <3>1. \A u \in Asleep : u \in Sleeper /\ toWake[u] > 0
      BY <1>2, Elements DEF ListIInv, Sorted
    <3> QED
      BY <1>4, <3>1 DEF RemoveSleeper, ListIInv, ListTypeOK
  <2>3. \A u \in Sleeper \ Asleep' : toWake'[u] = 0
    <3>1. \A u \in Sleeper \ Asleep : toWake[u] = 0
      BY <1>2, DelayListAssumption DEF ListIInv, Sorted
    <3>2. \A u \in Sleeper : toWake'[u] = IF u = t THEN 0 ELSE toWake[u]
      BY DEF RemoveSleeper, ListIInv, ListTypeOK
    <3> QED
      BY <1>4, <3>1, <3>2
  <2> QED
    BY <1>3, <2>1, <2>2, <2>3 DEF Sorted
<1>9. Walked'
  BY <1>2 DEF Walked, RemoveSleeper
<1> QED
  BY <1>6, <1>7, <1>8, <1>9 DEF ListIInv

\* os_task_tick_update begins.
LEMMA UpdateStep ==
    ASSUME ListIInv, NEW n \in Ticks, TickUpdate(n)
    PROVE  ListIInv'
<1>1. /\ n \in Nat /\ n > 0 /\ ~ticking /\ inserting = NoSleeper
      /\ list' = list /\ delta' = delta /\ carry' = n /\ ticking' = TRUE
      /\ inserting' = inserting /\ at' = at /\ Asleep' = Asleep
  BY DelayListAssumption DEF TickUpdate, Idle, Ticks, Asleep
<1>2. \A u \in Sleeper : /\ toWake[u] \in Int
                      /\ toWake'[u] = IF u \in Asleep THEN toWake[u] - n ELSE toWake[u]
  BY DEF TickUpdate, ListIInv, ListTypeOK
<1>3. \A i \in 1 .. Len(list) :
         toWake'[list[i]] = toWake[list[i]] - n /\ toWake[list[i]] \in Int /\ delta[list[i]] \in Nat
  BY <1>2, Elements DEF ListIInv, ListTypeOK
<1>4. ListTypeOK'
  <2>1. toWake' \in [Sleeper -> Int]
    BY <1>1, <1>2 DEF TickUpdate
  <2>2. ticking' \in BOOLEAN
    BY <1>1
  <2> QED
    BY <1>1, <2>1, <2>2 DEF ListIInv, ListTypeOK
<1>5. DeltasExact'
  <2>1. list # << >> => delta[list[1]] = toWake'[list[1]] + n
    BY <1>1, <1>3, Elements DEF ListIInv, DeltasExact
  <2>2. ASSUME NEW i \in 1 .. Len(list) - 1
        PROVE  delta[list[i + 1]] = toWake'[list[i + 1]] - toWake'[list[i]]
    <3>1. i \in 1 .. Len(list) /\ i + 1 \in 1 .. Len(list)
      BY Elements
    <3>2. delta[list[i + 1]] = toWake[list[i + 1]] - toWake[list[i]]
      BY DEF ListIInv, DeltasExact
    <3> QED
      BY <1>1, <1>3, <3>1, <3>2
  <2> QED
    BY <1>1, <2>1, <2>2 DEF ListIInv, DeltasExact, NoRepeat
<1>6. Sorted'
  <2>1. \A i, j \in 1 .. Len(list) : i < j => toWake'[list[i]] <= toWake'[list[j]]
    BY <1>1, <1>3 DEF ListIInv, Sorted
  <2>2. \A u \in Sleeper \ Asleep : toWake'[u] = 0
    BY <1>1, <1>2, DelayListAssumption DEF ListIInv, Sorted
  <2> QED
    BY <1>1, <2>1, <2>2 DEF Sorted
<1>7. Walked'
  BY <1>1 DEF Walked
<1> QED
  BY <1>4, <1>5, <1>6, <1>7 DEF ListIInv

\* While os_task_tick_update is in its loop there is no insertion, and the
\* head is the sleeper with the least time to go.
LEMMA HeadFacts ==
    ASSUME ListIInv, ticking, list # << >>
    PROVE  /\ inserting = NoSleeper
           /\ Head(list) = list[1] /\ list[1] \in Sleeper /\ list[1] \in Asleep
           /\ delta[list[1]] \in Nat /\ toWake[list[1]] \in Int /\ carry \in Nat
           /\ delta[list[1]] = toWake[list[1]] + carry
           /\ \A u \in Asleep : u \in Sleeper /\ toWake[u] \in Int /\ toWake[list[1]] <= toWake[u]
           /\ \A i \in 2 .. Len(list) : list[i] # list[1]
<1>1. 1 \in 1 .. Len(list) /\ Head(list) = list[1] /\ list[1] \in Sleeper
  BY Elements, HeadTailProperties
<1>2. delta[list[1]] \in Nat /\ toWake[list[1]] \in Int /\ carry \in Nat
  BY <1>1 DEF ListIInv, ListTypeOK
<1>3. ASSUME NEW u \in Asleep
      PROVE  u \in Sleeper /\ toWake[u] \in Int /\ toWake[list[1]] <= toWake[u]
  <2>1. PICK i \in 1 .. Len(list) : u = list[i] /\ u \in Sleeper
    BY Elements
  <2>2. toWake[u] \in Int
    BY <2>1 DEF ListIInv, ListTypeOK
  <2>3. CASE i = 1
    BY <1>2, <2>1, <2>2, <2>3
  <2>4. CASE i # 1
    <3>1. 1 < i
      BY <2>4, Elements
    <3> QED
      BY <1>1, <2>1, <2>2, <3>1 DEF ListIInv, Sorted
  <2> QED
    BY <2>1, <2>2, <2>3, <2>4
<1>4. \A i \in 2 .. Len(list) : list[i] # list[1]
  BY <1>1, Elements
<1>5. inserting = NoSleeper
  BY DEF ListIInv, Walked
<1>6. delta[list[1]] = toWake[list[1]] + carry
  BY DEF ListIInv, DeltasExact
<1>7. list[1] \in Asleep
  BY <1>1, Elements
<1> QED
  BY <1>1, <1>2, <1>3, <1>4, <1>5, <1>6, <1>7

\* One iteration of the loop of os_task_tick_update.
LEMMA ExpireStep ==
    ASSUME ListIInv, TickExpire
    PROVE  ListIInv'
<1> DEFINE h == Head(list)
           n == Len(list)
<1>1. /\ list # << >> /\ ticking /\ delta[h] <= carry
      /\ UNCHANGED <<inserting, at, ticking>> /\ carry' = carry - delta[h]
      /\ list' = Tail(list)
  BY DEF TickExpire, Due, CarryOn
<1>2. /\ h = list[1] /\ h \in Sleeper /\ h \in Asleep /\ inserting = NoSleeper
      /\ delta[h] \in Nat /\ toWake[h] \in Int /\ carry \in Nat
      /\ delta[h] = toWake[h] + carry
      /\ \A u \in Asleep : u \in Sleeper /\ toWake[u] \in Int /\ toWake[h] <= toWake[u]
      /\ \A i \in 2 .. n : list[i] # h
  BY <1>1, HeadFacts
<1>3. /\ n \in Nat /\ n > 0 /\ list' \in Seq(Sleeper) /\ Len(list') = n - 1
      /\ \A i \in 1 .. n - 1 : list'[i] = list[i + 1]
  BY <1>1, Elements, HeadTailProperties
<1>4. /\ \A u \in Sleeper : toWake'[u] = IF u = h THEN 0 ELSE toWake[u]
      /\ \A u \in Sleeper : delta'[u] = IF u = h THEN 0 ELSE delta[u]
      /\ toWake' \in [Sleeper -> Int] /\ delta' \in [Sleeper -> Nat]
  <2>1. toWake \in [Sleeper -> Int] /\ delta \in [Sleeper -> Nat]
    BY DEF ListIInv, ListTypeOK
  <2>2. toWake' = [toWake EXCEPT ![h] = 0] /\ delta' = [delta EXCEPT ![h] = 0]
    BY DEF TickExpire
  <2> HIDE DEF h
  <2>3. toWake' = [u \in Sleeper |-> IF u = h THEN 0 ELSE toWake[u]]
    BY <2>1, <2>2
  <2>4. delta' = [u \in Sleeper |-> IF u = h THEN 0 ELSE delta[u]]
    BY <2>1, <2>2
  <2>5. \A u \in Sleeper : /\ (IF u = h THEN 0 ELSE toWake[u]) \in Int
                        /\ (IF u = h THEN 0 ELSE delta[u]) \in Nat
    BY <2>1
  <2>6. toWake' \in [Sleeper -> Int] /\ delta' \in [Sleeper -> Nat]
    BY <2>3, <2>4, <2>5
  <2> QED
    BY <2>3, <2>4, <2>6
<1> HIDE DEF h, n
<1>5. ASSUME NEW i \in 2 .. n
      PROVE  /\ list[i] \in Sleeper /\ list[i] # h /\ i - 1 \in 1 .. n - 1 /\ (i - 1) + 1 = i
             /\ toWake'[list[i]] = toWake[list[i]] /\ delta'[list[i]] = delta[list[i]]
             /\ toWake[list[i]] \in Int
  <2>1. i \in 1 .. n /\ list[i] \in Sleeper /\ list[i] # h
    BY <1>2, <1>3, Elements DEF n
  <2>2. toWake[list[i]] \in Int
    BY <2>1 DEF ListIInv, ListTypeOK
  <2> QED
    BY <1>3, <1>4, <2>1, <2>2
<1>6. DOMAIN list' = 1 .. n - 1
  BY <1>3, LenProperties
<1>7. Asleep' = Asleep \ {h}
  <2>1. Asleep' = {list'[i] : i \in 1 .. n - 1}
    BY <1>6 DEF Asleep, Members
  <2>2. ASSUME NEW u \in Asleep'
        PROVE  u \in Asleep \ {h}
    <3>1. PICK i \in 1 .. n - 1 : u = list[i + 1]
      BY <1>3, <2>1
    <3>2. i + 1 \in 2 .. n /\ i + 1 \in 1 .. n
      BY <1>3
    <3> QED
      BY <1>5, <3>1, <3>2, Elements DEF n
  <2>3. ASSUME NEW u \in Asleep, u # h
        PROVE  u \in Asleep'
    <3>1. PICK i \in 1 .. n : u = list[i]
      BY Elements DEF n
    <3>2. i \in 2 .. n
      BY <1>2, <1>3, <2>3, <3>1
    <3>3. i - 1 \in 1 .. n - 1 /\ (i - 1) + 1 = i
      BY <1>3, <3>2
    <3> QED
      BY <1>3, <2>1, <3>1, <3>3
  <2> QED
    BY <2>2, <2>3
<1>8. ListTypeOK'
  <2>1. carry' \in Nat
    BY <1>1, <1>2
  <2> QED
    BY <1>1, <1>3, <1>4, <2>1 DEF ListIInv, ListTypeOK
<1>9. DeltasExact'
  <2>1. NoRepeat(list')
    <3>1. ASSUME NEW i \in 1 .. n - 1, NEW j \in 1 .. n - 1, list'[i] = list'[j]
          PROVE  i = j
      <4>1. i + 1 \in 1 .. n /\ j + 1 \in 1 .. n /\ list[i + 1] = list[j + 1]
        BY <1>3, <3>1
      <4> QED
        BY <4>1, Elements DEF n
    <3> QED
      BY <1>6, <3>1 DEF NoRepeat
  <2>2. list' # << >> => delta'[list'[1]] = toWake'[list'[1]] + carry'
    <3> SUFFICES ASSUME list' # << >>
                 PROVE  delta'[list'[1]] = toWake'[list'[1]] + carry'
      OBVIOUS
    <3>1. 1 \in 1 .. n - 1 /\ 2 \in 2 .. n /\ list'[1] = list[2]
      BY <1>3, EmptySeq
    <3>2. delta[list[1 + 1]] = toWake[list[1 + 1]] - toWake[list[1]]
      BY <3>1 DEF ListIInv, DeltasExact, n
    <3>3. /\ toWake'[list[2]] = toWake[list[2]] /\ delta'[list[2]] = delta[list[2]]
          /\ toWake[list[2]] \in Int
      BY <1>5, <3>1
    <3>4. toWake[list[1]] = toWake[h] /\ toWake[h] \in Int /\ carry' = carry - (toWake[h] + carry)
      BY <1>1, <1>2
    <3>5. toWake[list[2]] - toWake[h] = toWake[list[2]] + (carry - (toWake[h] + carry))
      BY <1>2, <3>3
    <3> QED
      BY <3>1, <3>2, <3>3, <3>4, <3>5
  <2>3. ASSUME NEW i \in 1 .. (n - 1) - 1
        PROVE  delta'[list'[i + 1]] = toWake'[list'[i + 1]] - toWake'[list'[i]]
    <3>1. /\ i + 1 \in 2 .. n /\ i + 2 \in 2 .. n /\ i + 1 \in 1 .. n - 1
          /\ (i + 1) + 1 = i + 2 /\ i \in 1 .. n - 1
      BY <1>3
    <3>2. list'[i] = list[i + 1] /\ list'[i + 1] = list[i + 2]
      BY <1>3, <3>1
    <3>3. delta[list[(i + 1) + 1]] = toWake[list[(i + 1) + 1]] - toWake[list[i + 1]]
      BY <3>1 DEF ListIInv, DeltasExact, n
    <3> QED
      BY <1>5, <3>1, <3>2, <3>3
  <2> QED
    BY <1>1, <1>3, <2>1, <2>2, <2>3 DEF DeltasExact
<1>10. Sorted'
  <2>1. ASSUME NEW i \in 1 .. n - 1, NEW j \in 1 .. n - 1, i < j
        PROVE  toWake'[list'[i]] <= toWake'[list'[j]]
    <3>1. /\ i + 1 \in 2 .. n /\ j + 1 \in 2 .. n /\ i + 1 < j + 1
          /\ i + 1 \in 1 .. n /\ j + 1 \in 1 .. n
      BY <1>3, <2>1
    <3>2. toWake[list[i + 1]] <= toWake[list[j + 1]]
      BY <3>1 DEF ListIInv, Sorted, n
    <3> QED
      BY <1>3, <1>5, <3>1, <3>2
  <2>2. \A u \in Sleeper \ Asleep' : toWake'[u] = 0
    <3>1. \A u \in Sleeper \ Asleep : toWake[u] = 0
      BY <1>2, DelayListAssumption DEF ListIInv, Sorted
    <3> QED
      BY <1>4, <1>7, <3>1
  <2> QED
    BY <1>1, <1>3, <2>1, <2>2 DEF Sorted
<1>11. Walked'
  BY <1>1, <1>2 DEF Walked
<1> QED
  BY <1>8, <1>9, <1>10, <1>11 DEF ListIInv

\* os_task_tick_update leaves its loop: the new head takes what is toWake over.
LEMMA EndStep ==
    ASSUME ListIInv, TickEnd
    PROVE  ListIInv'
<1>1. /\ ticking /\ ~ticking' /\ UNCHANGED <<list, inserting, at, carry, toWake>>
      /\ Asleep' = Asleep /\ inserting = NoSleeper
  BY DEF TickEnd, Asleep, ListIInv, Walked
<1>2. CASE list = << >>
  <2>1. delta' = delta
    BY <1>2 DEF TickEnd
  <2>2. Asleep = {} /\ Len(list) = 0
    BY <1>2, Elements, EmptySeq
  <2>3. ListTypeOK'
    <3>1. ticking' \in BOOLEAN
      BY <1>1 DEF TickEnd
    <3> QED
      BY <1>1, <2>1, <3>1 DEF ListIInv, ListTypeOK
  <2>4. DeltasExact'
    BY <1>1, <1>2, <2>1, <2>2 DEF ListIInv, DeltasExact, NoRepeat
  <2>5. Sorted' /\ Walked'
    BY <1>1, <2>2 DEF ListIInv, Sorted, Walked
  <2> QED
    BY <2>3, <2>4, <2>5 DEF ListIInv
<1>3. CASE list # << >>
  <2>1. /\ Head(list) = list[1] /\ list[1] \in Sleeper
        /\ delta[list[1]] \in Nat /\ toWake[list[1]] \in Int /\ carry \in Nat
        /\ delta[list[1]] = toWake[list[1]] + carry
        /\ \A u \in Asleep : u \in Sleeper /\ toWake[u] \in Int /\ toWake[list[1]] <= toWake[u]
        /\ \A i \in 2 .. Len(list) : list[i] # list[1]
    BY <1>1, <1>3, HeadFacts
  <2>2. delta[list[1]] > carry
    BY <1>3, <2>1 DEF TickEnd, Due
  <2>3. /\ \A u \in Sleeper : delta'[u] = IF u = list[1] THEN delta[u] - carry ELSE delta[u]
        /\ delta' \in [Sleeper -> Nat]
    <3>1. delta' = [delta EXCEPT ![list[1]] = @ - carry]
      BY <1>3, <2>1 DEF TickEnd
    <3>2. delta[list[1]] - carry \in Nat
      BY <2>1, <2>2
    <3> QED
      BY <2>1, <3>1, <3>2 DEF ListIInv, ListTypeOK
  <2>4. ListTypeOK'
    <3>1. ticking' \in BOOLEAN
      BY <1>1 DEF TickEnd
    <3> QED
      BY <1>1, <2>3, <3>1 DEF ListIInv, ListTypeOK
  <2>5. DeltasExact'
    <3>1. delta'[list[1]] = toWake[list[1]] + 0
      BY <2>1, <2>3
    <3>2. ASSUME NEW i \in 1 .. Len(list) - 1
          PROVE  delta'[list[i + 1]] = toWake[list[i + 1]] - toWake[list[i]]
      <4>1. i + 1 \in 2 .. Len(list) /\ i + 1 \in 1 .. Len(list)
        BY Elements
      <4>2. list[i + 1] \in Sleeper /\ list[i + 1] # list[1]
        BY <2>1, <4>1, Elements
      <4> QED
        BY <2>3, <4>2 DEF ListIInv, DeltasExact
    <3> QED
      BY <1>1, <3>1, <3>2 DEF ListIInv, DeltasExact, NoRepeat
  <2>6. Sorted'
    <3>1. \A u \in Asleep : toWake[u] > 0
      BY <2>1, <2>2
    <3> QED
      BY <1>1, <3>1 DEF ListIInv, Sorted
  <2>7. Walked'
    BY <1>1 DEF Walked
  <2> QED
    BY <2>4, <2>5, <2>6, <2>7 DEF ListIInv
<1> QED
  BY <1>2, <1>3

\* Every step keeps the invariant.
LEMMA NextIInv ==
    ASSUME ListIInv, [ListNext]_listVars
    PROVE  ListIInv'
<1>1. CASE UNCHANGED listVars
  BY <1>1 DEF listVars, ListIInv, ListTypeOK, DeltasExact, NoRepeat, Sorted, Walked, Asleep, Members
<1>2. CASE ListNext
  BY <1>2, SleepStep, WalkStep, LinkStep, LeaveStep, UpdateStep, ExpireStep, EndStep DEF ListNext
<1> QED
  BY <1>1, <1>2

\* The inductive invariant of the delay list of os_task.c holds in every reachable state.
THEOREM ListInvariance == ListSpec => []ListIInv
<1>1. ListIInv /\ [ListNext]_listVars => ListIInv'
  BY NextIInv
<1> QED
  BY InitIInv, <1>1, PTL DEF ListSpec

\* Every variable of os_task.c's delay list keeps its type; no delta and no
\* elapsed time goes below zero.
THEOREM ListTypeCorrect == ListSpec => []ListTypeOK
<1>1. ListIInv => ListTypeOK
  BY DEF ListIInv
<1> QED
  BY ListInvariance, <1>1, PTL

\* The deltas of the delay list are the differences between the wake-up times.
THEOREM DeltasAlwaysExact == ListSpec => []DeltasExact
<1>1. ListIInv => DeltasExact
  BY DEF ListIInv
<1> QED
  BY ListInvariance, <1>1, PTL

\* os_task_next_delay_ticks_get answers with the least time to go.
THEOREM NextDelayAlwaysExact == ListSpec => []NextDelayExact
<1>1. ASSUME ListIInv
      PROVE  NextDelayExact
  <2> SUFFICES ASSUME Idle, list # << >>
               PROVE  /\ \E t \in Asleep : toWake[t] = NextDelay
                      /\ \A t \in Asleep : toWake[t] >= NextDelay
    BY DEF NextDelayExact
  <2>1. /\ 1 \in 1 .. Len(list) /\ Head(list) = list[1]
        /\ list[1] \in Sleeper /\ list[1] \in Asleep
    BY <1>1, Elements, HeadTailProperties
  <2>2. toWake[list[1]] \in Int
    BY <1>1, <2>1 DEF ListIInv, ListTypeOK
  <2>3. NextDelay = toWake[list[1]]
    BY <1>1, <2>1, <2>2 DEF ListIInv, DeltasExact, NextDelay, Idle
  <2>4. ASSUME NEW t \in Asleep
        PROVE  toWake[t] >= toWake[list[1]]
    <3>1. PICK i \in 1 .. Len(list) : t = list[i] /\ t \in Sleeper
      BY <1>1, Elements
    <3>2. toWake[t] \in Int
      BY <1>1, <3>1 DEF ListIInv, ListTypeOK
    <3>3. i = 1 \/ 1 < i
      BY <1>1, Elements
    <3>4. 1 < i => toWake[list[1]] <= toWake[list[i]]
      BY <1>1, <2>1 DEF ListIInv, Sorted
    <3> QED
      BY <2>2, <3>1, <3>2, <3>3, <3>4
  <2> QED
    BY <2>1, <2>3, <2>4
<1> QED
  BY ListInvariance, <1>1, PTL

\* Each step of the delay list is a step of the alarms, or none.
LEMMA AlarmStep ==
    ASSUME ListIInv, ListIInv', [ListNext]_listVars
    PROVE  [Alarms!Next]_(Alarms!vars)
<1> DEFINE mapped == [t \in Sleeper |-> IF t = inserting THEN 0 ELSE toWake[t]]
<1>0. \A t \in Asleep : t \in Sleeper /\ t # inserting
  BY Elements, DelayListAssumption DEF ListIInv, Walked
<1>a. \A t \in Sleeper \ Asleep : t # inserting => toWake[t] = 0
  BY DEF ListIInv, Sorted
<1>1. ASSUME NEW t \in Sleeper, NEW n \in Ticks, Sleep(t, n)
      PROVE  UNCHANGED Alarms!vars
  <2>1. Asleep' = Asleep /\ inserting' = t /\ inserting = NoSleeper /\ toWake[t] = 0
    BY <1>1, <1>a, DelayListAssumption DEF Sleep, Idle, Asleep
  <2>2. mapped' = mapped
    BY <1>1, <2>1, DelayListAssumption DEF Sleep, ListIInv, ListTypeOK
  <2> QED
    BY <2>1, <2>2 DEF Alarms!vars
<1>2. ASSUME InsertWalk
      PROVE  UNCHANGED Alarms!vars
  BY <1>2 DEF InsertWalk, Alarms!vars, Asleep
<1>3. ASSUME InsertLink
      PROVE  Alarms!Next
  <2>0. PICK t \in Sleeper : t = inserting
    BY <1>3 DEF InsertLink, ListIInv, ListTypeOK
  <2>1. /\ t \notin Asleep /\ inserting' = NoSleeper
        /\ toWake' = toWake /\ ~ticking /\ toWake[t] \in Ticks
    BY <1>3, <2>0 DEF InsertLink, ListIInv, Walked
  <2>a. PICK n \in Ticks : n = toWake[t]
    BY <2>1
  <2>2. Asleep' = Asleep \cup {t}
    <3>1. at \in 1 .. Len(list) + 1
      BY <1>3, Elements DEF InsertLink, ListIInv, ListTypeOK, Walked
    <3> QED
      BY <1>3, <2>0, <3>1, Elements, InsertMembers DEF InsertLink, Asleep
  <2>3. mapped' = [mapped EXCEPT ![t] = n]
    BY <2>0, <2>1, <2>a, DelayListAssumption
  <2>4. \A u \in Asleep : mapped[u] > 0
    BY <1>0, <2>1 DEF ListIInv, Sorted
  <2>5. Alarms!Sleep(t, n)
    BY <2>1, <2>2, <2>3, <2>4 DEF Alarms!Sleep, Alarms!Quiet
  <2> QED
    BY <2>5 DEF Alarms!Next
<1>4. ASSUME NEW t \in Sleeper, RemoveSleeper(t)
      PROVE  Alarms!Next
  <2>1. Alarms!Quiet /\ inserting = NoSleeper /\ inserting' = NoSleeper /\ t \in Asleep
    BY <1>4, IdleIsQuiet DEF RemoveSleeper, Idle
  <2>2. Asleep' = Asleep \ {t}
    BY <1>4, Elements, RemoveMembers DEF RemoveSleeper, Asleep, ListIInv, DeltasExact
  <2>3. mapped' = [mapped EXCEPT ![t] = 0]
    BY <1>4, <2>1, DelayListAssumption DEF RemoveSleeper, ListIInv, ListTypeOK
  <2>4. Alarms!Cancel(t)
    BY <2>1, <2>2, <2>3 DEF Alarms!Cancel
  <2> QED
    BY <2>4 DEF Alarms!Next
<1>5. ASSUME NEW n \in Ticks, TickUpdate(n)
      PROVE  Alarms!Next
  <2>1. /\ Alarms!Quiet /\ inserting = NoSleeper /\ inserting' = NoSleeper /\ Asleep' = Asleep
    BY <1>5, IdleIsQuiet DEF TickUpdate, Idle, Asleep
  <2>2. mapped' = [t \in Sleeper |-> IF t \in Asleep THEN mapped[t] - n ELSE mapped[t]]
    BY <1>5, <2>1, DelayListAssumption DEF TickUpdate
  <2>3. Alarms!Elapse(n)
    BY <2>1, <2>2 DEF Alarms!Elapse
  <2> QED
    BY <2>3 DEF Alarms!Next
<1>6. ASSUME TickExpire
      PROVE  Alarms!Next
  <2> DEFINE h == Head(list)
  <2>1. list # << >> /\ ticking /\ delta[h] <= carry /\ inserting' = inserting
    BY <1>6 DEF TickExpire, Due
  <2>2. /\ h = list[1] /\ h \in Sleeper /\ h \in Asleep /\ inserting = NoSleeper
        /\ delta[h] \in Nat /\ toWake[h] \in Int /\ carry \in Nat
        /\ delta[h] = toWake[h] + carry
        /\ \A u \in Asleep : u \in Sleeper /\ toWake[h] <= toWake[u]
    BY <2>1, HeadFacts
  <2>3. toWake[h] <= 0
    BY <2>1, <2>2
  <2>4. Asleep' = Asleep \ {h}
    <3>1. /\ list' = Tail(list) /\ list' \in Seq(Sleeper) /\ Len(list') = Len(list) - 1
          /\ \A i \in 1 .. Len(list) - 1 : list'[i] = list[i + 1]
      BY <1>6, <2>1, Elements, HeadTailProperties DEF TickExpire
    <3>2. Asleep' = {list[i + 1] : i \in 1 .. Len(list) - 1}
      BY <3>1, LenProperties DEF Asleep, Members
    <3>3. ASSUME NEW u \in Asleep'
          PROVE  u \in Asleep \ {h}
      <4>1. PICK i \in 1 .. Len(list) - 1 : u = list[i + 1]
        BY <3>2
      <4>2. i + 1 \in 2 .. Len(list) /\ i + 1 \in 1 .. Len(list)
        BY Elements
      <4> QED
        BY <2>1, <2>2, <4>1, <4>2, Elements, HeadFacts
    <3>4. ASSUME NEW u \in Asleep, u # h
          PROVE  u \in Asleep'
      <4>1. PICK i \in 1 .. Len(list) : u = list[i]
        BY Elements
      <4>2. i - 1 \in 1 .. Len(list) - 1 /\ (i - 1) + 1 = i
        BY <2>2, <3>4, <4>1, Elements
      <4> QED
        BY <3>2, <4>1, <4>2
    <3> QED
      BY <3>3, <3>4
  <2>5. mapped' = [mapped EXCEPT ![h] = 0]
    BY <1>6, <2>1, <2>2, DelayListAssumption DEF TickExpire, ListIInv, ListTypeOK
  <2>6. \A u \in Asleep : mapped[u] = toWake[u]
    BY <1>0
  <2>7. PICK t \in Sleeper : t = h
    BY <2>2
  <2> HIDE DEF h
  <2>8. Alarms!Ring(t)
    BY <2>2, <2>3, <2>4, <2>5, <2>6, <2>7 DEF Alarms!Ring
  <2> QED
    BY <2>8 DEF Alarms!Next
<1>7. ASSUME TickEnd
      PROVE  UNCHANGED Alarms!vars
  BY <1>7 DEF TickEnd, Alarms!vars, Asleep
<1>8. ASSUME UNCHANGED listVars
      PROVE  UNCHANGED Alarms!vars
  BY <1>8 DEF listVars, Alarms!vars, Asleep
<1> QED
  BY <1>1, <1>2, <1>3, <1>4, <1>5, <1>6, <1>7, <1>8 DEF ListNext

\* The delta list implements one alarm for every sleeper, for any number of
\* tasks: no wait of os_task.c ends early, none is forgotten by the update
\* that reaches it, and the sleepers of one update wake in order.
THEOREM AlarmsImplemented == ListSpec => ImplementsAlarm
<1>1. ListInit => Alarms!Init
  <2> SUFFICES ASSUME ListInit
               PROVE  Alarms!Init
    OBVIOUS
  <2>1. << >> \in Seq(Sleeper) /\ DOMAIN << >> = 1 .. 0
    BY EmptySeq, LenProperties
  <2>2. Asleep = {}
    BY <2>1 DEF ListInit, Asleep, Members
  <2>3. [t \in Sleeper |-> IF t = inserting THEN 0 ELSE toWake[t]] = [t \in Sleeper |-> 0]
    BY DEF ListInit
  <2> QED
    BY <2>2, <2>3 DEF Alarms!Init
<1>2. ListIInv /\ ListIInv' /\ [ListNext]_listVars => [Alarms!Next]_(Alarms!vars)
  BY AlarmStep
<1> QED
  BY <1>1, <1>2, ListInvariance, PTL DEF ListSpec, ImplementsAlarm, Alarms!Spec

-----------------------------------------------------------------------------
(***************************************************************************)
(* Delays and timeouts.                                                    *)
(***************************************************************************)

USE DelayAssumption DEF Tick, Forever, Finite

\* Stepping the counter by n shows at most n ticks more.
LEMMA ElapsedStep ==
    ASSUME IInv, NEW n \in 1 .. W - 1, Count(n), UNCHANGED start, NEW t \in Task,
           pc[t] # "out"
    PROVE  /\ tickCount' \in Tick
           /\ passed'[t] = passed[t] + n
           /\ Elapsed(t)' <= passed'[t]
<1>1. tickCount \in Tick /\ start[t] \in Tick /\ passed[t] \in Nat
    BY DEF IInv, TypeOK
<1>2. tickCount' = IF tickCount + n < W THEN tickCount + n ELSE tickCount + n - W
    BY DEF Count, TickAfter
<1>3. passed'[t] = passed[t] + n
    BY DEF Count
<1>4. Elapsed(t) <= passed[t]
    BY DEF IInv, TimeBounded
<1>5. start'[t] = start[t]
    OBVIOUS
<1> QED
    BY <1>1, <1>2, <1>3, <1>4, <1>5 DEF Elapsed

\* What a call computes to remain reaches its budget.
LEMMA RemainingEnough ==
    ASSUME IInv, NEW t \in Task, pc[t] # "out"
    PROVE  /\ Remaining(t) \in Tick
           /\ Remaining(t) + passed[t] >= budget[t]
           /\ budget[t] # Forever => Remaining(t) # Forever
<1>1. /\ tickCount \in Tick /\ start[t] \in Tick
      /\ budget[t] \in Tick /\ passed[t] \in Nat
    BY DEF IInv, TypeOK
<1>2. Elapsed(t) <= passed[t]
    BY DEF IInv, TimeBounded
<1>3. Elapsed(t) \in Nat
    BY <1>1 DEF Elapsed
<1> QED
    BY <1>1, <1>2, <1>3 DEF Remaining

\* The invariant holds at first.
LEMMA Initially == Init => IInv
BY DEF Init, IInv, TypeOK, CallsExact, TimeBounded, OneCoreBounded, Sleeping

-----------------------------------------------------------------------------
(* One step per action.                                                    *)

\* A call that times its wait reads the counter.
LEMMA CallKeeps ==
    ASSUME IInv, NEW t \in Task, NEW kind \in {"delay", "park", "wait"},
           NEW n \in Tick, kind = "delay" => n # Forever, Call(t, kind, n)
    PROVE  IInv'
<1> USE DEF Call, IInv
<1>1. TypeOK'
    BY DEF TypeOK, Sleeping, timeVars
<1>2. CallsExact'
    BY DEF TypeOK, CallsExact, timeVars
<1>3. TimeBounded'
    <2>1. \A u \in Task : u # t => Elapsed(u)' = Elapsed(u)
        BY DEF Elapsed, timeVars, TypeOK
    <2>2. Elapsed(t)' = 0
        BY DEF Elapsed, timeVars, TypeOK
    <2> QED
        BY <2>1, <2>2 DEF TypeOK, TimeBounded, timeVars
<1>4. OneCoreBounded'
    BY DEF TypeOK, CallsExact, OneCoreBounded, Sleeping, timeVars
<1> QED
    BY <1>1, <1>2, <1>3, <1>4

\* It blocks, for what it computed to remain.
LEMMA BlockKeeps ==
    ASSUME IInv, NEW t \in Task, Block(t)
    PROVE  IInv'
<1> USE DEF Block, IInv, callVars, timeVars
<1>1. TypeOK'
    BY DEF TypeOK, CallsExact, Sleeping
<1>2. CallsExact'
    BY DEF TypeOK, CallsExact
<1>3. TimeBounded'
    BY DEF TypeOK, TimeBounded, Elapsed
<1>4. OneCoreBounded'
    <2> SUFFICES ASSUME NumCores = 1, NEW u \in Task, call'[u] = "wait"
                 PROVE  /\ Sleeping(u)' => left'[u] + passed'[u] >= budget'[u] + uncharged'
                        /\ pc'[u] = "ready" /\ ~signaled'[u] => passed'[u] >= budget'[u]
                        /\ pc'[u] = "expired" => passed'[u] >= budget'[u]
        BY DEF OneCoreBounded
    <2>1. CASE u = t
        <3>1. uncharged = 0
            BY DEF Running
        <3>2. remaining[t] + passed[t] >= budget[t]
            BY DEF TimeBounded
        <3>3. left'[t] = remaining[t] /\ pc'[t] = "blocked"
            BY DEF TypeOK
        <3> QED
            BY <2>1, <3>1, <3>2, <3>3 DEF TypeOK
    <2>2. CASE u # t
        <3>1. left'[u] = left[u] /\ pc'[u] = pc[u] /\ signaled'[u] = signaled[u]
            BY <2>2 DEF TypeOK
        <3> QED
            BY <3>1 DEF OneCoreBounded, Sleeping
    <2> QED
        BY <2>1, <2>2
<1> QED
    BY <1>1, <1>2, <1>3, <1>4

\* A wake comes early.
LEMMA SignalKeeps ==
    ASSUME IInv, NEW t \in Task, Signal(t)
    PROVE  IInv'
<1> USE DEF Signal, IInv, callVars, timeVars
<1>1. TypeOK'
    BY DEF TypeOK, Sleeping
<1>2. CallsExact'
    BY DEF TypeOK, CallsExact
<1>3. TimeBounded'
    BY DEF TypeOK, TimeBounded, Elapsed
<1>4. OneCoreBounded'
    BY DEF TypeOK, OneCoreBounded, Sleeping
<1> QED
    BY <1>1, <1>2, <1>3, <1>4

\* A woken call goes round.
LEMMA ResumeKeeps ==
    ASSUME IInv, NEW t \in Task, Resume(t)
    PROVE  IInv'
<1> USE DEF Resume, IInv, callVars, timeVars
<1>0. /\ Remaining(t) \in Tick
      /\ Remaining(t) + passed[t] >= budget[t]
      /\ budget[t] # Forever => Remaining(t) # Forever
    BY RemainingEnough
<1>1. TypeOK'
    BY <1>0 DEF TypeOK, Sleeping
<1>2. CallsExact'
    BY <1>0 DEF TypeOK, CallsExact
<1>3. TimeBounded'
    BY <1>0 DEF TypeOK, TimeBounded, Elapsed
<1>4. OneCoreBounded'
    BY DEF TypeOK, CallsExact, OneCoreBounded, Sleeping
<1> QED
    BY <1>1, <1>2, <1>3, <1>4

\* An expired call looks a last time.
LEMMA ResumeExpiredKeeps ==
    ASSUME IInv, NEW t \in Task, ResumeExpired(t)
    PROVE  IInv'
<1> USE DEF ResumeExpired, IInv, callVars, timeVars
<1>1. TypeOK'
    BY DEF TypeOK, Sleeping
<1>2. CallsExact'
    BY DEF TypeOK, CallsExact
<1>3. TimeBounded'
    BY DEF TypeOK, TimeBounded, Elapsed
<1>4. OneCoreBounded'
    BY DEF TypeOK, CallsExact, OneCoreBounded, Sleeping
<1> QED
    BY <1>1, <1>2, <1>3, <1>4

\* A call returns.
LEMMA LeaveKeeps ==
    ASSUME IInv, NEW t \in Task, pc[t] # "blocked", Leave(t)
    PROVE  IInv'
<1> USE DEF Leave, IInv, timeVars
<1>1. TypeOK'
    BY DEF TypeOK, Sleeping
<1>2. CallsExact'
    BY DEF TypeOK, CallsExact
<1>3. TimeBounded'
    BY DEF TypeOK, TimeBounded, Elapsed
<1>4. OneCoreBounded'
    BY DEF TypeOK, CallsExact, OneCoreBounded, Sleeping
<1> QED
    BY <1>1, <1>2, <1>3, <1>4

\* The tick counts on.
LEMMA TickHandlerCountKeeps ==
    ASSUME IInv, TickHandlerCount
    PROVE  IInv'
<1> USE DEF TickHandlerCount, IInv, callVars
<1>0. /\ tickCount' \in Tick
      /\ \A t \in Task : passed'[t] \in Nat
      /\ \A t \in Task : pc[t] # "out" => /\ passed'[t] = passed[t] + 1
                                          /\ Elapsed(t)' <= passed'[t]
    <2>1. tickCount' \in Tick
        BY DEF Count, TickAfter, TypeOK
    <2>2. \A t \in Task : passed'[t] \in Nat
        BY DEF Count, TypeOK
    <2> QED
        BY <2>1, <2>2, ElapsedStep
<1>1. TypeOK'
    <2>1. passed' \in [Task -> Nat]
        BY <1>0 DEF Count
    <2> QED
        BY <1>0, <2>1 DEF TypeOK, Sleeping
<1>2. CallsExact'
    BY DEF CallsExact
<1>3. TimeBounded'
    BY <1>0 DEF TypeOK, TimeBounded
<1>4. OneCoreBounded'
    BY <1>0 DEF TypeOK, CallsExact, OneCoreBounded, Sleeping
<1> QED
    BY <1>1, <1>2, <1>3, <1>4

\* Charging n ticks, which were counted with it or before it.
LEMMA ChargeKeeps ==
    ASSUME IInv, NEW n \in 1 .. W - 1, Charge(n), UNCHANGED <<callVars, remaining, signaled>>,
           tickCount' \in Tick, passed' \in [Task -> Nat], uncharged' \in {0, 1},
           \A t \in Task : pc[t] # "out" =>
               /\ passed'[t] >= passed[t]
               /\ passed'[t] - uncharged' = passed[t] - uncharged + n
               /\ Elapsed(t)' <= passed'[t],
           uncharged' = 0
    PROVE  IInv'
<1> USE DEF Charge, IInv, callVars
<1>0. \A t \in Task :
        \/ /\ Sleeping(t) /\ left[t] <= n
           /\ left'[t] = 0 /\ pc'[t] = "ready" /\ pc[t] = "blocked"
        \/ /\ Sleeping(t) /\ left[t] > n
           /\ left'[t] = left[t] - n /\ pc'[t] = pc[t] /\ pc[t] = "blocked"
        \/ /\ ~Sleeping(t)
           /\ left'[t] = left[t] /\ pc'[t] = pc[t]
    BY DEF TypeOK, CallsExact, Sleeping
<1>1. TypeOK'
    <2>1. left' \in [Task -> Tick]
        <3>1. \A t \in Task : left'[t] \in Tick
            BY <1>0 DEF TypeOK, Sleeping
        <3> QED
            BY <3>1
    <2>2. pc' \in [Task -> {"out", "check", "blocked", "ready", "expired"}]
        BY DEF TypeOK
    <2>3. \A t \in Task : call'[t] = "delay" /\ pc'[t] = "blocked" => Sleeping(t)'
        BY <1>0 DEF TypeOK, Sleeping
    <2> QED
        BY <2>1, <2>2, <2>3 DEF TypeOK
<1>2. CallsExact'
    <2> SUFFICES ASSUME NEW t \in Task
                 PROVE  /\ left'[t] # 0 <=> pc'[t] = "blocked"
                        /\ call'[t] = "none" <=> pc'[t] = "out"
                        /\ pc'[t] = "expired" => call'[t] = "wait"
                        /\ call'[t] = "delay" =>
                              budget'[t] # Forever /\ remaining'[t] # Forever
        BY DEF CallsExact
    <2> QED
        BY <1>0 DEF TypeOK, CallsExact, Sleeping
<1>3. TimeBounded'
    <2> SUFFICES ASSUME NEW t \in Task
                 PROVE  /\ pc'[t] # "out" => Elapsed(t)' <= passed'[t]
                        /\ pc'[t] = "check" => remaining'[t] + passed'[t] >= budget'[t]
        BY DEF TimeBounded
    <2>1. pc'[t] # "out" => pc[t] # "out"
        BY <1>0
    <2>2. pc'[t] = "check" => pc[t] = "check"
        BY <1>0
    <2> QED
        BY <2>1, <2>2 DEF TimeBounded, TypeOK
<1>4. OneCoreBounded'
    <2> SUFFICES ASSUME NumCores = 1, NEW t \in Task, call'[t] = "wait"
                 PROVE  /\ Sleeping(t)' => left'[t] + passed'[t] >= budget'[t] + uncharged'
                        /\ pc'[t] = "ready" /\ ~signaled'[t] => passed'[t] >= budget'[t]
                        /\ pc'[t] = "expired" => passed'[t] >= budget'[t]
        BY DEF OneCoreBounded
    <2>1. /\ Sleeping(t) => left[t] + passed[t] >= budget[t] + uncharged
          /\ pc[t] = "ready" /\ ~signaled[t] => passed[t] >= budget[t]
          /\ pc[t] = "expired" => passed[t] >= budget[t]
        BY DEF OneCoreBounded
    <2>2. CASE Sleeping(t)
        BY <1>0, <2>1, <2>2 DEF TypeOK, Sleeping
    <2>3. CASE ~Sleeping(t)
        BY <1>0, <2>1, <2>3 DEF TypeOK, Sleeping, CallsExact
    <2> QED
        BY <2>2, <2>3
<1> QED
    BY <1>1, <1>2, <1>3, <1>4

\* The tick expires the delay list.
LEMMA TickHandlerUpdateKeeps ==
    ASSUME IInv, TickHandlerUpdate
    PROVE  IInv'
<1> USE DEF TickHandlerUpdate, IInv, callVars
<1>1. \A t \in Task : pc[t] # "out" =>
          /\ passed'[t] >= passed[t]
          /\ passed'[t] - uncharged' = passed[t] - uncharged + 1
          /\ Elapsed(t)' <= passed'[t]
    BY DEF TypeOK, TimeBounded, Elapsed
<1>2. tickCount' \in Tick /\ passed' \in [Task -> Nat]
    BY DEF TypeOK
<1> QED
    BY <1>1, <1>2, ChargeKeeps

\* Ticks are announced at once after a sleep.
LEMMA AnnounceKeeps ==
    ASSUME IInv, NEW n \in Windows, Announce(n)
    PROVE  IInv'
<1> USE DEF Announce, IInv, callVars
<1>0. n \in 1 .. W - 1
    OBVIOUS
<1>1. \A t \in Task : pc[t] # "out" =>
          /\ passed'[t] = passed[t] + n
          /\ Elapsed(t)' <= passed'[t]
    BY <1>0, ElapsedStep
<1>2. tickCount' \in Tick
    BY <1>0 DEF Count, TickAfter, TypeOK
<1>3. passed' \in [Task -> Nat]
    <2>1. \A t \in Task : passed'[t] \in Nat
        BY <1>0 DEF Count, TypeOK
    <2> QED
        BY <2>1 DEF Count
<1>4. \A t \in Task : pc[t] # "out" =>
          /\ passed'[t] >= passed[t]
          /\ passed'[t] - uncharged' = passed[t] - uncharged + n
    BY <1>0, <1>1 DEF TypeOK
<1> QED
    BY <1>0, <1>1, <1>2, <1>3, <1>4, ChargeKeeps

-----------------------------------------------------------------------------
\* The inductive invariant of os_delay.c and os_tick.c holds in every reachable state.
THEOREM DelayInvariance == Spec => []IInv
<1>1. IInv /\ [Next]_vars => IInv'
    <2> SUFFICES ASSUME IInv, [Next]_vars PROVE IInv'
        OBVIOUS
    <2>1. ASSUME NEW t \in Task, NEW n \in 1 .. Forever, DelayTicks(t, n)
          PROVE  IInv'
        <3>1. WaitTicks(n) \in Tick /\ WaitTicks(n) # Forever
            BY DEF WaitTicks
        <3> QED
            BY <2>1, <3>1, CallKeeps DEF DelayTicks
    <2>2. ASSUME NEW t \in Task, DelayForever(t)
          PROVE  IInv'
        BY <2>2, CallKeeps DEF DelayForever
    <2>3. ASSUME NEW t \in Task, NEW n \in 1 .. Forever, WaitCall(t, n)
          PROVE  IInv'
        BY <2>3, CallKeeps DEF WaitCall
    <2>4. ASSUME NEW t \in Task, GiveUp(t) \/ Acquire(t)
          PROVE  IInv'
        BY <2>4, LeaveKeeps DEF GiveUp, GivesUp, Acquire
    <2>5. CASE UNCHANGED vars
        BY <2>5 DEF vars, timeVars, callVars, IInv, TypeOK, CallsExact, TimeBounded,
                    OneCoreBounded, Sleeping, Elapsed
    <2> QED
        BY <2>1, <2>2, <2>3, <2>4, <2>5, BlockKeeps, SignalKeeps, ResumeKeeps,
           ResumeExpiredKeeps, TickHandlerCountKeeps, TickHandlerUpdateKeeps,
           AnnounceKeeps DEF Next, TaskStep
<1> QED
    BY <1>1, Initially, PTL DEF Spec

\* Every variable keeps its type, and a finite delay is never asleep outside
\* of the delay list.
THEOREM DelayTypeCorrect == Spec => []TypeOK
<1>1. IInv => TypeOK
    BY DEF IInv
<1> QED
    BY <1>1, DelayInvariance, PTL

\* os_delay never returns early, however often it is woken, and however often
\* the counter wraps.
THEOREM DelayNeverShort == Spec => []DelayNotShort
<1>1. IInv => DelayNotShort
    <2> SUFFICES ASSUME IInv, NEW t \in Task, call[t] = "delay", GivesUp(t)
                 PROVE  passed[t] >= budget[t]
        BY DEF DelayNotShort
    <2>1. pc[t] = "check" /\ remaining[t] = 0
        BY DEF GivesUp, IInv, CallsExact
    <2> QED
        BY <2>1 DEF IInv, TimeBounded, TypeOK
<1> QED
    BY <1>1, DelayInvariance, PTL

\* On one core no blocking call times out early, though os_tick_handler counts the tick before it
\* charges it to the waits.
THEOREM TimeoutNeverEarly ==
    ASSUME NumCores = 1
    PROVE  Spec => []TimeoutNotEarly
<1>1. IInv => TimeoutNotEarly
    <2> SUFFICES ASSUME IInv, NEW t \in Task, call[t] = "wait", GivesUp(t)
                 PROVE  passed[t] >= budget[t]
        BY DEF TimeoutNotEarly
    <2>1. CASE pc[t] = "check" /\ remaining[t] = 0
        BY <2>1 DEF IInv, TimeBounded, TypeOK
    <2>2. CASE pc[t] = "expired"
        BY <2>2 DEF IInv, OneCoreBounded
    <2> QED
        BY <2>1, <2>2 DEF GivesUp
<1> QED
    BY <1>1, DelayInvariance, PTL

\* Until the counter has come round once since a call, it shows the time that has passed.
TimeExact ==
    \A t \in Task :
        /\ pc[t] = "out" => passed[t] = 0
        /\ pc[t] # "out" /\ passed[t] < W => Elapsed(t) = passed[t]

\* A step that neither counts nor starts or ends a call keeps what the counter shows.
LEMMA ExactFrame ==
    ASSUME TimeExact, UNCHANGED <<tickCount, start, passed>>,
           \A t \in Task : pc'[t] = "out" <=> pc[t] = "out"
    PROVE  TimeExact'
BY DEF TimeExact, Elapsed

\* Stepping the counter keeps it.
LEMMA ExactCount ==
    ASSUME IInv, TimeExact, NEW n \in 1 .. W - 1, Count(n), UNCHANGED start,
           \A t \in Task : pc'[t] = "out" <=> pc[t] = "out"
    PROVE  TimeExact'
<1> SUFFICES ASSUME NEW t \in Task
             PROVE  /\ pc[t] = "out" => passed'[t] = 0
                    /\ pc[t] # "out" /\ passed'[t] < W => Elapsed(t)' = passed'[t]
  BY DEF TimeExact
<1>1. /\ tickCount \in Tick /\ start[t] \in Tick /\ start'[t] = start[t]
      /\ tickCount' = IF tickCount + n < W THEN tickCount + n ELSE tickCount + n - W
      /\ passed[t] \in Nat /\ passed'[t] = IF pc[t] = "out" THEN 0 ELSE passed[t] + n
  BY DEF Count, TickAfter, IInv, TypeOK
<1>2. pc[t] # "out" /\ passed[t] < W => Elapsed(t) = passed[t]
  BY DEF TimeExact
<1> QED
  BY <1>1, <1>2 DEF Elapsed

\* Charging the delay list makes tasks ready, none of which is out of a call.
LEMMA ChargeStays ==
    ASSUME IInv, NEW n, Charge(n)
    PROVE  \A t \in Task : pc'[t] = "out" <=> pc[t] = "out"
BY DEF Charge, Sleeping, IInv, CallsExact, TypeOK

\* Every step keeps it.
LEMMA ExactStep == IInv /\ TimeExact /\ [Next]_vars => TimeExact'
<1> SUFFICES ASSUME IInv, TimeExact, [Next]_vars
             PROVE  TimeExact'
  OBVIOUS
<1> USE DEF timeVars, callVars
<1>1. pc \in [Task -> {"out", "check", "blocked", "ready", "expired"}] /\ TypeOK
  BY DEF IInv, TypeOK
<1>2. ASSUME NEW t \in Task, NEW kind \in {"delay", "park", "wait"}, NEW n, Call(t, kind, n)
      PROVE  TimeExact'
  <2>1. /\ pc[t] = "out" /\ start'[t] = tickCount /\ pc'[t] = "check"
        /\ UNCHANGED <<tickCount, passed>>
        /\ \A u \in Task : u # t => start'[u] = start[u] /\ pc'[u] = pc[u]
    BY <1>1, <1>2 DEF Call, TypeOK
  <2> QED
    BY <2>1, <1>1 DEF TimeExact, Elapsed, TypeOK
<1>3. ASSUME NEW t \in Task, Block(t)
      PROVE  TimeExact'
  BY <1>1, <1>3, ExactFrame DEF Block
<1>4. ASSUME NEW t \in Task, Signal(t)
      PROVE  TimeExact'
  BY <1>1, <1>4, ExactFrame DEF Signal
<1>5. ASSUME NEW t \in Task, Resume(t)
      PROVE  TimeExact'
  BY <1>1, <1>5, ExactFrame DEF Resume
<1>6. ASSUME NEW t \in Task, ResumeExpired(t)
      PROVE  TimeExact'
  BY <1>1, <1>6, ExactFrame DEF ResumeExpired
<1>7. ASSUME NEW t \in Task, Leave(t)
      PROVE  TimeExact'
  <2>1. /\ pc'[t] = "out" /\ passed'[t] = 0 /\ UNCHANGED <<tickCount, start>>
        /\ \A u \in Task : u # t => passed'[u] = passed[u] /\ pc'[u] = pc[u]
    BY <1>1, <1>7 DEF Leave, TypeOK
  <2> QED
    BY <2>1 DEF TimeExact, Elapsed
<1>8. CASE TickHandlerCount
  <2>1. 1 \in 1 .. W - 1 /\ Count(1) /\ UNCHANGED <<start, pc>>
    BY <1>8 DEF TickHandlerCount
  <2> QED
    BY <2>1, ExactCount
<1>9. CASE TickHandlerUpdate
  BY <1>9, ChargeStays, ExactFrame DEF TickHandlerUpdate
<1>10. ASSUME NEW n \in Windows, Announce(n)
       PROVE  TimeExact'
  <2>1. n \in 1 .. W - 1 /\ Count(n) /\ Charge(n) /\ UNCHANGED start
    BY <1>10 DEF Announce
  <2> QED
    BY <2>1, ChargeStays, ExactCount
<1>11. CASE UNCHANGED vars
  BY <1>11, ExactFrame DEF vars
<1> QED
  BY <1>2, <1>3, <1>4, <1>5, <1>6, <1>7, <1>8, <1>9, <1>10, <1>11
     DEF Next, TaskStep, DelayTicks, DelayForever, WaitCall, GiveUp, Acquire

\* A step back from a wait is that of the task itself, which looks at the counter.
LEMMA ComesBack ==
    ASSUME IInv, [Next]_vars, NEW t \in Task, pc[t] = "ready", pc'[t] = "check"
    PROVE  Resume(t)
<1>1. pc \in [Task -> {"out", "check", "blocked", "ready", "expired"}]
  BY DEF IInv, TypeOK
<1>2. ASSUME NEW u \in Task, TaskStep(u)
      PROVE  Resume(t)
  BY <1>1, <1>2 DEF TaskStep, Call, DelayTicks, DelayForever, WaitCall, Block, Signal, Resume,
                    ResumeExpired, GiveUp, Acquire, Leave
<1>3. ~TickHandlerCount /\ ~ UNCHANGED vars
  BY DEF TickHandlerCount, vars
<1>4. ~TickHandlerUpdate /\ \A n \in Windows : ~Announce(n)
  BY DEF TickHandlerUpdate, Announce, Charge
<1> QED
  BY <1>2, <1>3, <1>4 DEF Next

\* A task that is back on a core after its time is up does not wait again, if the counter has not
\* come round since its call: the loops of os_delay_ticks and os_internal_wait_remaining, for a
\* counter of any width and any number of wake-ups.
THEOREM NeverOverslept == Spec => NotOverslept
<1>1. Init => TimeExact
  BY DEF Init, TimeExact
<1>2. IInv /\ TimeExact /\ [Next]_vars =>
        [\A t \in Task :
            (pc[t] = "ready" /\ pc'[t] = "check" /\ passed[t] \in budget[t] .. W - 1)
               => budget[t] = Forever \/ remaining'[t] = 0]_vars
  <2> SUFFICES ASSUME IInv, TimeExact, [Next]_vars, NEW t \in Task, pc[t] = "ready",
                      pc'[t] = "check", passed[t] \in budget[t] .. W - 1, budget[t] # Forever
               PROVE  remaining'[t] = 0
    OBVIOUS
  <2>1. Resume(t) /\ remaining'[t] = Remaining(t)
    BY ComesBack DEF Resume, IInv, TypeOK
  <2>2. /\ passed[t] \in Nat /\ budget[t] \in Tick /\ passed[t] < W
        /\ passed[t] >= budget[t]
    BY DEF IInv, TypeOK
  <2>3. Elapsed(t) = passed[t]
    BY <2>2 DEF TimeExact
  <2> QED
    BY <2>1, <2>2, <2>3 DEF Remaining
<1> QED
  BY <1>1, <1>2, ExactStep, DelayInvariance, PTL DEF Spec, NotOverslept

HIDE DelayAssumption DEF Tick, Forever, Finite

-----------------------------------------------------------------------------
(***************************************************************************)
(* Tickless idle.                                                          *)
(***************************************************************************)

\* A set of numbers has a least one.
LEMMA MinIsLeast ==
    ASSUME NEW S, S \subseteq Nat, S # {}
    PROVE  Min(S) \in S /\ \A y \in S : Min(S) <= y
BY LeastNatural DEF Min

\* Less than a turn of the wheel does not bring the counter back.
LEMMA WrapMoves ==
    ASSUME NEW c \in 0 .. CountModulus - 1, NEW n \in 1 .. CountModulus - 1
    PROVE  (c + n) % CountModulus # c
<1>1. CASE c + n < CountModulus
  BY <1>1, TicklessAssumption, Z3
<1>2. CASE c + n >= CountModulus
  <2>1. (c + n) % CountModulus = c + n - CountModulus
    BY <1>2, TicklessAssumption, Z3
  <2> QED
    BY <2>1, TicklessAssumption
<1> QED
  BY <1>1, <1>2, TicklessAssumption

TickWordTypes ==
    /\ ceiling \in Ceilings
    /\ count \in 0 .. CountModulus - 1 /\ planGeneration \in 0 .. CountModulus - 1
    /\ lastPlanTick \in 0 .. CountModulus - 1 /\ lastPlanGeneration \in 0 .. CountModulus - 1
    /\ behind \in Nat /\ planned \in Nat /\ armed \in Nat
    /\ deadlines \in [Source -> SUBSET Distance]
    /\ core0 \in {"run", "open", "plan", "prepare", "asleep", "close"}

TickFlagTypes == windowOpen \in BOOLEAN /\ pending0 \in BOOLEAN /\ remoteWaits \in BOOLEAN

\* The window is open while core 0 plans and sleeps, the count behind only then.
WindowFits ==
    /\ core0 \in {"plan", "prepare", "asleep"} => windowOpen
    /\ armed > 0 => core0 = "asleep"
    /\ behind <= armed

\* No deadline is nearer than the end of the window that is planned or armed.
PlanFits ==
    /\ core0 = "prepare" =>
          planned <= MaxIdle /\ \A s \in Source : \A d \in deadlines[s] : planned <= d
    /\ core0 = "asleep" =>
          armed <= MaxIdle /\ \A s \in Source : \A d \in deadlines[s] : armed <= d

TickIInv == TickWordTypes /\ TickFlagTypes /\ WindowFits /\ PlanFits

\* The invariant of tickless idle holds at first.
LEMMA TickInitIInv == TicklessInit => TickIInv
<1> SUFFICES ASSUME TicklessInit
             PROVE  TickIInv
  OBVIOUS
<1>1. TickWordTypes
  <2>1. 0 \in 0 .. CountModulus - 1
    BY TicklessAssumption
  <2> QED
    BY <2>1 DEF TicklessInit, TickWordTypes
<1>2. TickFlagTypes
  BY DEF TicklessInit, TickFlagTypes
<1>3. WindowFits
  BY DEF TicklessInit, WindowFits
<1>4. PlanFits
  BY DEF TicklessInit, PlanFits
<1> QED
  BY <1>1, <1>2, <1>3, <1>4 DEF TickIInv

\* Time that passes keeps counter and deadlines within their ranges.
LEMMA PassFits ==
    ASSUME TickIInv, NEW n \in Nat, Pass(n)
    PROVE  count' \in 0 .. CountModulus - 1 /\ deadlines' \in [Source -> SUBSET Distance]
<1>1. count' \in 0 .. CountModulus - 1
  BY TicklessAssumption DEF TickIInv, TickWordTypes, Pass
<1>2. ASSUME NEW s \in Source
      PROVE  {d - n : d \in {e \in deadlines[s] : e > n}} \subseteq Distance
  BY TicklessAssumption DEF TickIInv, TickWordTypes, Distance
<1> QED
  BY <1>1, <1>2 DEF Pass

\* What os_tickless_expected_idle_ticks_get and the caps of the plan return.
LEMMA PlanIsShort ==
    ASSUME TickIInv, PlanWindow
    PROVE  /\ planned' \in Nat /\ planned' <= MaxIdle
           /\ \A s \in Source : \A d \in deadlines[s] : planned' <= d
<1> DEFINE All == (UNION {deadlines[s] : s \in Source}) \cup {CountModulus - 1}
           Caps == {ExpectedIdle, MaxIdle} \cup ({ceiling} \ {0})
<1>1. All \subseteq Nat /\ All # {}
  <2>1. ASSUME NEW s \in Source, NEW d \in deadlines[s]
        PROVE  d \in Nat
    BY DEF TickIInv, TickWordTypes, Distance
  <2>2. CountModulus - 1 \in Nat
    BY TicklessAssumption
  <2>3. ASSUME NEW d \in UNION {deadlines[s] : s \in Source}
        PROVE  d \in Nat
    BY <2>1
  <2>4. CountModulus - 1 \in All
    OBVIOUS
  <2>5. ASSUME NEW d \in All
        PROVE  d \in Nat
    BY <2>2, <2>3
  <2> QED
    BY <2>4, <2>5
<1>2. ExpectedIdle \in Nat /\ \A d \in All : ExpectedIdle <= d
  <2>1. ExpectedIdle = Min(All)
    BY DEF ExpectedIdle
  <2> QED
    BY <1>1, <2>1, MinIsLeast
<1>3. Caps \subseteq Nat /\ Caps # {}
  BY <1>2, TicklessAssumption DEF TickIInv, TickWordTypes
<1>4. planned' \in Caps /\ \A y \in Caps : planned' <= y
  <2>1. planned' = Min(Caps)
    BY DEF PlanWindow
  <2> QED
    BY <1>3, <2>1, MinIsLeast
<1>5. ASSUME NEW s \in Source, NEW d \in deadlines[s]
      PROVE  planned' <= d
  <2>1. planned' \in Nat /\ ExpectedIdle \in Nat /\ planned' <= ExpectedIdle
    BY <1>2, <1>3, <1>4
  <2>2. d \in All /\ d \in Nat
    BY <1>1
  <2> QED
    BY <1>2, <2>1, <2>2
<1> QED
  BY <1>3, <1>4, <1>5

\* What os_arch_elapsed_ticks_get returns to the core that is awake again.
LEMMA ElapsedIsBehind ==
    ASSUME TickIInv
    PROVE  ElapsedTicks = behind
<1>1. CASE armed = 0
  BY <1>1 DEF TickIInv, TickWordTypes, WindowFits, ElapsedTicks
<1>2. CASE armed # 0
  <2>1. Min({behind, armed}) \in {behind, armed} /\ Min({behind, armed}) <= behind
    BY MinIsLeast DEF TickIInv, TickWordTypes
  <2> QED
    BY <2>1 DEF TickIInv, TickWordTypes, WindowFits, ElapsedTicks
<1> QED
  BY <1>1, <1>2

\* A tick is counted.
LEMMA CountTickKeeps ==
    ASSUME TickIInv, CountTick
    PROVE  TickIInv'
<1>1. TickWordTypes'
  BY PassFits DEF TickIInv, TickWordTypes, CountTick, planVars
<1>2. TickFlagTypes'
  BY DEF TickIInv, TickFlagTypes, CountTick
<1>3. WindowFits'
  BY DEF TickIInv, WindowFits, CountTick
<1>4. PlanFits'
  BY DEF PlanFits, CountTick
<1> QED
  BY <1>1, <1>2, <1>3, <1>4 DEF TickIInv

\* Core 0 sets a deadline.
LEMMA ArmLocallyKeeps ==
    ASSUME TickIInv, NEW s \in Source, NEW d \in Distance, ArmLocally(s, d)
    PROVE  TickIInv'
<1>1. TickWordTypes'
  BY TicklessAssumption DEF TickIInv, TickWordTypes, ArmLocally, Deadline
<1>2. TickFlagTypes'
  BY DEF TickIInv, TickFlagTypes, ArmLocally
<1>3. WindowFits'
  BY DEF TickIInv, WindowFits, ArmLocally
<1>4. PlanFits'
  BY DEF PlanFits, ArmLocally
<1> QED
  BY <1>1, <1>2, <1>3, <1>4 DEF TickIInv

\* The other core sets a deadline, and rings when core 0 may sleep.
LEMMA ArmRemotelyKeeps ==
    ASSUME TickIInv, NEW s \in Source, NEW d \in Distance, ArmRemotely(s, d)
    PROVE  TickIInv'
<1>1. TickWordTypes'
  BY TicklessAssumption DEF TickIInv, TickWordTypes, ArmRemotely, Deadline
<1>2. TickFlagTypes'
  BY DEF TickIInv, TickFlagTypes, ArmRemotely
<1>3. WindowFits'
  BY DEF TickIInv, WindowFits, ArmRemotely
<1>4. PlanFits'
  BY DEF TickIInv, WindowFits, PlanFits, ArmRemotely, DoorOpen
<1> QED
  BY <1>1, <1>2, <1>3, <1>4 DEF TickIInv

\* A core waits for the kernel lock.
LEMMA WaitAtDoorKeeps ==
    ASSUME TickIInv, WaitAtDoor
    PROVE  TickIInv'
<1>1. TickWordTypes'
  BY DEF TickIInv, TickWordTypes, WaitAtDoor, planVars
<1>2. TickFlagTypes'
  BY DEF TickFlagTypes, WaitAtDoor, DoorOpen
<1>3. WindowFits'
  BY DEF TickIInv, WindowFits, WaitAtDoor
<1>4. PlanFits'
  BY DEF TickIInv, PlanFits, WaitAtDoor
<1> QED
  BY <1>1, <1>2, <1>3, <1>4 DEF TickIInv

\* The idle task of core 0 begins to plan.
LEMMA StartPlanningKeeps ==
    ASSUME TickIInv, NEW declined \in BOOLEAN, StartPlanning(declined)
    PROVE  TickIInv'
<1>1. TickWordTypes'
  BY DEF TickIInv, TickWordTypes, StartPlanning
<1>2. TickFlagTypes'
  BY DEF TickIInv, TickFlagTypes, StartPlanning
<1>3. WindowFits'
  BY DEF TickIInv, WindowFits, StartPlanning
<1>4. PlanFits'
  BY DEF PlanFits, StartPlanning
<1> QED
  BY <1>1, <1>2, <1>3, <1>4 DEF TickIInv

\* It opens the window of the sleep.
LEMMA OpenWindowKeeps ==
    ASSUME TickIInv, OpenWindow
    PROVE  TickIInv'
<1>1. TickWordTypes'
  BY DEF TickIInv, TickWordTypes, OpenWindow, planVars
<1>2. TickFlagTypes'
  BY DEF TickIInv, TickFlagTypes, OpenWindow
<1>3. WindowFits'
  BY DEF TickIInv, WindowFits, OpenWindow
<1>4. PlanFits'
  BY DEF PlanFits, OpenWindow
<1> QED
  BY <1>1, <1>2, <1>3, <1>4 DEF TickIInv

\* It plans the sleep from the deadlines it sees.
LEMMA PlanWindowKeeps ==
    ASSUME TickIInv, PlanWindow
    PROVE  TickIInv'
<1>1. TickWordTypes'
  BY PlanIsShort DEF TickIInv, TickWordTypes, PlanWindow, planVars
<1>2. TickFlagTypes'
  BY DEF TickIInv, TickFlagTypes, PlanWindow
<1>3. WindowFits'
  BY DEF TickIInv, WindowFits, PlanWindow
<1>4. PlanFits'
  BY TicklessAssumption, PlanIsShort DEF PlanFits, PlanWindow
<1> QED
  BY <1>1, <1>2, <1>3, <1>4 DEF TickIInv

\* The port arms the timer, if the plan is still good.
LEMMA PrepareSleepKeeps ==
    ASSUME TickIInv, PrepareSleep
    PROVE  TickIInv'
<1>1. TickWordTypes'
  BY DEF TickIInv, TickWordTypes, PrepareSleep, planVars
<1>2. TickFlagTypes'
  BY DEF TickIInv, TickFlagTypes, PrepareSleep
<1>3. WindowFits'
  BY DEF TickIInv, TickWordTypes, WindowFits, PrepareSleep
<1>4. PlanFits'
  <2>1. armed' \in {planned, 0} /\ core0' = "asleep" /\ core0 = "prepare" /\ UNCHANGED deadlines
    BY DEF PrepareSleep
  <2>2. planned \in Nat /\ MaxIdle \in Nat /\ \A s \in Source : \A d \in deadlines[s] : d \in Nat
    BY TicklessAssumption DEF TickIInv, TickWordTypes, Distance
  <2>3. armed' <= planned
    BY <2>1, <2>2
  <2>4. planned <= MaxIdle /\ \A s \in Source : \A d \in deadlines[s] : planned <= d
    BY <2>1 DEF TickIInv, PlanFits
  <2> QED
    BY <2>1, <2>2, <2>4 DEF PlanFits
<1> QED
  BY <1>1, <1>2, <1>3, <1>4 DEF TickIInv

\* Time passes in the sleep.
LEMMA ElapseKeeps ==
    ASSUME TickIInv, Elapse
    PROVE  TickIInv'
<1>1. TickWordTypes'
  BY DEF TickIInv, TickWordTypes, Elapse, planVars
<1>2. TickFlagTypes'
  BY DEF TickIInv, TickFlagTypes, Elapse
<1>3. WindowFits'
  BY DEF TickIInv, TickWordTypes, WindowFits, Elapse
<1>4. PlanFits'
  BY DEF TickIInv, PlanFits, Elapse
<1> QED
  BY <1>1, <1>2, <1>3, <1>4 DEF TickIInv

\* An interrupt ends the sleep.
LEMMA InterruptCore0Keeps ==
    ASSUME TickIInv, InterruptCore0
    PROVE  TickIInv'
<1>1. TickWordTypes'
  BY DEF TickIInv, TickWordTypes, InterruptCore0, planVars
<1>2. TickFlagTypes'
  BY DEF TickIInv, TickFlagTypes, InterruptCore0
<1>3. WindowFits'
  BY DEF TickIInv, WindowFits, InterruptCore0
<1>4. PlanFits'
  BY DEF TickIInv, PlanFits, InterruptCore0
<1> QED
  BY <1>1, <1>2, <1>3, <1>4 DEF TickIInv

\* The ticks slept through are announced.
LEMMA AnnounceElapsedKeeps ==
    ASSUME TickIInv, AnnounceElapsed
    PROVE  TickIInv'
<1>1. TickWordTypes'
  BY PassFits, ElapsedIsBehind DEF TickIInv, TickWordTypes, AnnounceElapsed, planVars
<1>2. TickFlagTypes'
  BY DEF TickIInv, TickFlagTypes, AnnounceElapsed
<1>3. WindowFits'
  BY DEF WindowFits, AnnounceElapsed
<1>4. PlanFits'
  BY DEF PlanFits, AnnounceElapsed
<1> QED
  BY <1>1, <1>2, <1>3, <1>4 DEF TickIInv

\* The window closes.
LEMMA CloseWindowKeeps ==
    ASSUME TickIInv, CloseWindow
    PROVE  TickIInv'
<1>1. TickWordTypes'
  BY DEF TickIInv, TickWordTypes, CloseWindow, planVars
<1>2. TickFlagTypes'
  BY DEF TickIInv, TickFlagTypes, CloseWindow
<1>3. WindowFits'
  BY DEF TickIInv, WindowFits, CloseWindow
<1>4. PlanFits'
  BY DEF PlanFits, CloseWindow
<1> QED
  BY <1>1, <1>2, <1>3, <1>4 DEF TickIInv

\* Each step keeps the invariant.
LEMMA TickStepKeeps == TickIInv /\ [TicklessNext]_ticklessVars => TickIInv'
<1>1. TickIInv /\ UNCHANGED ticklessVars => TickIInv'
  BY DEF ticklessVars, planVars, TickIInv, TickWordTypes, TickFlagTypes, WindowFits, PlanFits
<1> QED
  BY <1>1, CountTickKeeps, ArmLocallyKeeps, ArmRemotelyKeeps, WaitAtDoorKeeps,
     StartPlanningKeeps, OpenWindowKeeps, PlanWindowKeeps, PrepareSleepKeeps, ElapseKeeps,
     InterruptCore0Keeps, AnnounceElapsedKeeps, CloseWindowKeeps
  DEF TicklessNext

\* It gives the types, and that no deadline is slept through.
LEMMA TickIInvSafe == TickIInv => TicklessTypeOK /\ NoDeadlineSlept
<1> SUFFICES ASSUME TickIInv
             PROVE  TicklessTypeOK /\ NoDeadlineSlept
  OBVIOUS
<1>1. TicklessTypeOK
  BY DEF TickIInv, TickWordTypes, TickFlagTypes, TicklessTypeOK
<1>2. ASSUME NEW s \in Source, NEW d \in deadlines[s]
      PROVE  behind <= d
  BY DEF TickIInv, TickWordTypes, WindowFits, PlanFits, Distance
<1> QED
  BY <1>1, <1>2 DEF NoDeadlineSlept

\* Deadlines are moved only when the counter is up to date.
LEMMA StepMeasures ==
    TickIInv /\ [TicklessNext]_ticklessVars =>
        (deadlines' # deadlines /\ count' = count => behind = 0)
<1> SUFFICES ASSUME TickIInv, [TicklessNext]_ticklessVars, deadlines' # deadlines, count' = count
             PROVE  behind = 0
  OBVIOUS
<1>1. CASE CountTick
  BY <1>1 DEF CountTick, TickIInv, TickWordTypes, WindowFits
<1>2. ASSUME NEW s \in Source, NEW d \in Distance, ArmLocally(s, d)
      PROVE  behind = 0
  BY <1>2 DEF ArmLocally, TickIInv, TickWordTypes, WindowFits
<1>3. ASSUME NEW s \in Source, NEW d \in Distance, ArmRemotely(s, d)
      PROVE  behind = 0
  BY <1>3 DEF ArmRemotely, DoorOpen, TickIInv, TickWordTypes, WindowFits
<1>4. CASE AnnounceElapsed
  <2>1. count' = (count + behind) % CountModulus
    BY <1>4, ElapsedIsBehind DEF AnnounceElapsed, Pass
  <2>2. behind \in Nat /\ behind < CountModulus /\ count \in 0 .. CountModulus - 1
    BY TicklessAssumption DEF TickIInv, TickWordTypes, WindowFits, PlanFits
  <2> QED
    BY <2>1, <2>2, TicklessAssumption
<1> QED
  BY <1>1, <1>2, <1>3, <1>4
  DEF TicklessNext, ticklessVars, WaitAtDoor, StartPlanning, OpenWindow, PlanWindow,
      PrepareSleep, Elapse, InterruptCore0, CloseWindow

\* Ticks that leave the backlog are counted.
LEMMA StepCounts ==
    TickIInv /\ [TicklessNext]_ticklessVars =>
        (behind' < behind => count' = (count + behind) % CountModulus)
<1> SUFFICES ASSUME TickIInv, [TicklessNext]_ticklessVars, behind' < behind
             PROVE  count' = (count + behind) % CountModulus
  OBVIOUS
<1>1. AnnounceElapsed
  BY DEF TicklessNext, ticklessVars, WaitAtDoor, StartPlanning, OpenWindow, PlanWindow,
     PrepareSleep, Elapse, InterruptCore0, CloseWindow, CountTick, ArmLocally, ArmRemotely,
     TickIInv, TickWordTypes
<1> QED
  BY <1>1, ElapsedIsBehind DEF AnnounceElapsed, Pass

\* Tickless idle sleeps through no deadline, counts every tick it slept and sets no deadline from
\* a stale counter: os_tickless_idle_process and os_tick_announce, for any deadlines and any width
\* of the counter.
THEOREM TicklessAlwaysSafe == TicklessSpec => []TicklessTypeOK /\ TicklessSafe
<1>1. TicklessSpec => []TickIInv
  BY TickInitIInv, TickStepKeeps, PTL DEF TicklessSpec
<1> QED
  BY <1>1, TickIInvSafe, StepMeasures, StepCounts, PTL
  DEF TicklessSpec, TicklessSafe, MeasuredFromNow, WindowCounted

(***************************************************************************)
(* Software timers.                                                        *)
(***************************************************************************)

\* The elements of the list of a record.
LEMMA TimersOf ==
    ASSUME NEW c, c.list \in Seq(AnyTimer)
    PROVE  /\ Len(c.list) \in Nat /\ DOMAIN c.list = 1 .. Len(c.list)
           /\ \A k \in 1 .. Len(c.list) : c.list[k] \in AnyTimer
           /\ Members(c.list) = {c.list[k] : k \in 1 .. Len(c.list)}
           /\ Members(c.list) \subseteq AnyTimer
           /\ c.list = << >> <=> Len(c.list) = 0
<1>1. Len(c.list) \in Nat /\ DOMAIN c.list = 1 .. Len(c.list)
  BY LenProperties
<1>2. \A k \in 1 .. Len(c.list) : c.list[k] \in AnyTimer
  BY ElementOfSeq
<1>3. c.list = << >> <=> Len(c.list) = 0
  BY EmptySeq
<1> QED
  BY <1>1, <1>2, <1>3 DEF Members

\* os_timer_running_insert walks as far as the deltas are exact: what it has
\* walked past adds up to the time of the last one.
LEMMA TicksToIs ==
    ASSUME NEW c, c.list \in Seq(AnyTimer), NEW time \in [AnyTimer -> Int], DeltaOf(c, time)
    PROVE  \A i \in 0 .. Len(c.list) : TicksTo(c, i) = IF i = 0 THEN 0 ELSE time[c.list[i]]
<1> DEFINE n == Len(c.list)
           Sums(sum) == sum = [k \in 0 .. n |-> IF k = 0 THEN 0
                                                ELSE sum[k - 1] + c.ticks[c.list[k]]]
           closed == [k \in 0 .. n |-> IF k = 0 THEN 0 ELSE time[c.list[k]]]
           sum == CHOOSE s : Sums(s)
<1>1. n \in Nat /\ \A k \in 1 .. n : c.list[k] \in AnyTimer /\ time[c.list[k]] \in Int
  BY TimersOf
<1>2. \A k \in 1 .. n :
         c.ticks[c.list[k]] = time[c.list[k]] - (IF k = 1 THEN 0 ELSE time[c.list[k - 1]])
  BY TimersOf DEF DeltaOf
<1>3. Sums(closed)
  <2>1. ASSUME NEW k \in 0 .. n
        PROVE  closed[k] = IF k = 0 THEN 0 ELSE closed[k - 1] + c.ticks[c.list[k]]
    <3>1. CASE k = 0
      BY <3>1
    <3>2. CASE k # 0
      <4>1. k \in 1 .. n /\ k - 1 \in 0 .. n /\ (k # 1 => k - 1 \in 1 .. n)
        BY <1>1, <3>2
      <4>2. closed[k] = time[c.list[k]]
        BY <3>2
      <4>3. closed[k - 1] = IF k = 1 THEN 0 ELSE time[c.list[k - 1]]
        BY <4>1
      <4>4. c.ticks[c.list[k]] = time[c.list[k]] - closed[k - 1]
        BY <1>2, <4>1, <4>3
      <4>5. closed[k - 1] \in Int /\ time[c.list[k]] \in Int
        BY <1>1, <4>1, <4>3
      <4> HIDE DEF closed
      <4> QED
        BY <3>2, <4>2, <4>4, <4>5
    <3> QED
      BY <3>1, <3>2
  <2>2. closed = [k \in 0 .. n |-> closed[k]]
    OBVIOUS
  <2> HIDE DEF closed
  <2> QED
    BY <2>1, <2>2
<1>4. Sums(sum)
  BY <1>3
<1>5. \A i : TicksTo(c, i) = sum[i]
  BY DEF TicksTo
<1> HIDE DEF sum
<1> DEFINE Bad == {i \in 0 .. n : sum[i] # closed[i]}
<1>6. Bad = {}
  <2>1. SUFFICES ASSUME Bad # {}
                 PROVE  FALSE
    OBVIOUS
  <2>2. PICK i \in Bad : \A j \in Bad : i <= j
    <3>1. Bad \subseteq Nat
      BY <1>1
    <3> HIDE DEF Bad
    <3> QED
      BY <2>1, <3>1, LeastNatural
  <2>3. i # 0
    BY <1>4, <2>2
  <2>4. i \in 1 .. n /\ i - 1 \in 0 .. n /\ i - 1 \notin Bad
    <3>1. i \in 0 .. n
      BY <2>2
    <3>2. i \in 1 .. n /\ i - 1 \in 0 .. n /\ ~(i <= i - 1)
      BY <1>1, <2>3, <3>1
    <3> HIDE DEF Bad
    <3> QED
      BY <2>2, <3>2
  <2>5. sum[i] = sum[i - 1] + c.ticks[c.list[i]]
    BY <1>4, <2>3, <2>4
  <2>6. closed[i] = closed[i - 1] + c.ticks[c.list[i]]
    BY <1>3, <2>3, <2>4
  <2>7. sum[i - 1] = closed[i - 1]
    BY <2>4
  <2> QED
    BY <2>2, <2>5, <2>6, <2>7
<1>7. \A i \in 0 .. n : sum[i] = IF i = 0 THEN 0 ELSE time[c.list[i]]
  BY <1>6
<1> QED
  BY <1>5, <1>7

\* With deltas that are not negative the timers are in the order of their times.
LEMMA Ascending ==
    ASSUME NEW c, c.list \in Seq(AnyTimer), c.ticks \in [AnyTimer -> Nat],
           NEW time \in [AnyTimer -> Int], DeltaOf(c, time)
    PROVE  /\ \A i \in 1 .. Len(c.list) : time[c.list[i]] \in Nat
           /\ \A i, j \in 1 .. Len(c.list) : i <= j => time[c.list[i]] <= time[c.list[j]]
<1> DEFINE n == Len(c.list)
           due(i) == time[c.list[i]]
<1>1. n \in Nat /\ \A k \in 1 .. n : due(k) \in Int /\ c.ticks[c.list[k]] \in Nat
  BY TimersOf
<1>2. \A k \in 1 .. n : c.ticks[c.list[k]] = due(k) - (IF k = 1 THEN 0 ELSE due(k - 1))
  BY TimersOf DEF DeltaOf
<1>3. ASSUME NEW k \in 1 .. n
      PROVE  k = 1 => due(k) \in Nat
  BY <1>1, <1>2
<1>4. ASSUME NEW k \in 1 .. n, k # 1
      PROVE  due(k - 1) <= due(k) /\ k - 1 \in 1 .. n
  <2>1. k - 1 \in 1 .. n
    BY <1>1, <1>4
  <2> QED
    BY <1>1, <1>2, <1>4, <2>1
<1> HIDE DEF due
<1> DEFINE Wrong == {j \in 1 .. n : \E i \in 1 .. n : i <= j /\ ~ (due(i) <= due(j))}
<1>5. Wrong = {}
  <2>1. SUFFICES ASSUME Wrong # {}
                 PROVE  FALSE
    OBVIOUS
  <2>2. PICK j \in Wrong : \A k \in Wrong : j <= k
    <3>1. Wrong \subseteq Nat
      BY <1>1
    <3> HIDE DEF Wrong
    <3> QED
      BY <2>1, <3>1, LeastNatural
  <2>3. PICK i \in 1 .. n : i <= j /\ ~ (due(i) <= due(j))
    BY <2>2
  <2>4. i # j /\ j # 1 /\ j \in 1 .. n
    BY <1>1, <2>2, <2>3
  <2>5. due(j - 1) <= due(j) /\ j - 1 \in 1 .. n /\ j - 1 \notin Wrong
    <3>1. due(j - 1) <= due(j) /\ j - 1 \in 1 .. n
      BY <1>4, <2>4
    <3>2. ~(j <= j - 1)
      BY <1>1, <2>4
    <3> HIDE DEF Wrong
    <3> QED
      BY <2>2, <3>1, <3>2
  <2>6. due(i) <= due(j - 1)
    <3>1. i <= j - 1
      BY <1>1, <2>3, <2>4
    <3> QED
      BY <2>5, <3>1
  <2>7. due(i) \in Int /\ due(j - 1) \in Int /\ due(j) \in Int
    BY <1>1, <2>4, <2>5
  <2> QED
    BY <2>3, <2>5, <2>6, <2>7
<1>6. \A i, j \in 1 .. n : i <= j => due(i) <= due(j)
  BY <1>5
<1>7. \A i \in 1 .. n : due(i) \in Nat
  <2>1. SUFFICES ASSUME NEW i \in 1 .. n
                 PROVE  due(i) \in Nat
    OBVIOUS
  <2>2. 1 \in 1 .. n /\ 1 <= i
    BY <1>1
  <2> QED
    BY <1>1, <1>3, <1>6, <2>2
<1> QED
  BY <1>6, <1>7 DEF due

\* Only the times of the timers in the list matter.
LEMMA OtherTimes ==
    ASSUME NEW c, c.list \in Seq(AnyTimer), NEW time, DeltaOf(c, time),
           NEW time2, \A t \in Members(c.list) : time2[t] = time[t],
           NEW d, d.list = c.list, \A t \in Members(c.list) : d.ticks[t] = c.ticks[t]
    PROVE  DeltaOf(d, time2)
<1>1. Len(c.list) \in Nat /\ DOMAIN c.list = 1 .. Len(c.list) /\ DOMAIN d.list = 1 .. Len(c.list)
  BY TimersOf
<1>2. \A k \in 1 .. Len(c.list) : c.list[k] \in Members(c.list)
  BY TimersOf
<1>3. NoRepeat(d.list)
  BY DEF DeltaOf
<1>4. ASSUME NEW k \in 1 .. Len(c.list)
      PROVE  d.ticks[d.list[k]] = time2[d.list[k]] - (IF k = 1 THEN 0 ELSE time2[d.list[k - 1]])
  <2>1. c.ticks[c.list[k]] = time[c.list[k]] - (IF k = 1 THEN 0 ELSE time[c.list[k - 1]])
    BY <1>1 DEF DeltaOf
  <2>2. k # 1 => k - 1 \in 1 .. Len(c.list)
    BY <1>1
  <2> QED
    BY <1>2, <2>1, <2>2
<1> QED
  BY <1>1, <1>3, <1>4 DEF DeltaOf
\* A list with the remaining ticks.
Countdowns == [list : Seq(AnyTimer), ticks : [AnyTimer -> Nat]]

\* The times at which the timers expire.
Times == [AnyTimer -> Int]

\* r is exact for these times and has these members; what it has left of the
\* timers that are neither of them nor touched is what c had.
Becomes(r, c, time, members, touched) ==
    /\ r \in Countdowns /\ DeltaOf(r, time)
    /\ Members(r.list) = members
    /\ \A u \in AnyTimer : u \notin touched => r.ticks[u] = c.ticks[u]

\* The place at which os_timer_running_insert links: behind all that expire
\* first, or at the same time.
PlaceOf(c, t) == Min({k \in DOMAIN c.list : TicksTo(c, k) > c.ticks[t]} \cup {Len(c.list) + 1})

\* It is a place in the list, and between the right neighbours.
LEMMA PlaceIsRight ==
    ASSUME NEW c \in Countdowns, NEW time \in Times, DeltaOf(c, time),
           NEW t \in AnyTimer, time[t] = c.ticks[t]
    PROVE  /\ PlaceOf(c, t) \in 1 .. Len(c.list) + 1
           /\ PlaceOf(c, t) # 1 => time[c.list[PlaceOf(c, t) - 1]] <= time[t]
           /\ PlaceOf(c, t) <= Len(c.list) => time[c.list[PlaceOf(c, t)]] > time[t]
           /\ {k \in DOMAIN c.list : TicksTo(c, k) > c.ticks[t]} # {}
                 <=> PlaceOf(c, t) <= Len(c.list)
<1> DEFINE n == Len(c.list)
           later == {k \in DOMAIN c.list : TicksTo(c, k) > c.ticks[t]}
           i == PlaceOf(c, t)
<1>1. /\ n \in Nat /\ DOMAIN c.list = 1 .. n
      /\ \A k \in 1 .. n : c.list[k] \in AnyTimer
  BY TimersOf DEF Countdowns
<1>2. \A k \in 1 .. n : k \in later <=> time[c.list[k]] > time[t]
  <2>1. c.list \in Seq(AnyTimer)
    BY DEF Countdowns
  <2>2. \A k \in 1 .. n : k \in 0 .. n /\ k # 0
    BY <1>1
  <2>3. \A k \in 1 .. n : TicksTo(c, k) = time[c.list[k]]
    BY <2>1, <2>2, TicksToIs DEF Times
  <2> QED
    BY <1>1, <2>3
<1>3. i \in later \cup {n + 1} /\ \A k \in later \cup {n + 1} : i <= k
  <2>1. later \cup {n + 1} \subseteq Nat /\ later \cup {n + 1} # {}
    BY <1>1
  <2>2. i = Min(later \cup {n + 1})
    BY DEF PlaceOf
  <2> HIDE DEF i, later
  <2> QED
    BY <2>1, <2>2, MinIsLeast
<1>4. later \subseteq 1 .. n
  BY <1>1
<1>5. later # {} <=> i <= n
  <2> HIDE DEF i, later
  <2>1. ASSUME NEW k \in later
        PROVE  i <= n
    <3>1. k \in 1 .. n /\ i <= k /\ i \in Nat
      BY <1>1, <1>3, <1>4
    <3> HIDE DEF n
    <3> QED
      BY <1>1, <3>1
  <2>2. later = {} => i = n + 1
    BY <1>3
  <2> HIDE DEF n
  <2> QED
    BY <1>1, <2>1, <2>2
<1>6. i \in 1 .. n + 1
  <2> HIDE DEF i, later
  <2> QED
    BY <1>1, <1>3, <1>4
<1>7. ASSUME i # 1
      PROVE  time[c.list[i - 1]] <= time[t]
  <2> HIDE DEF i
  <2>1. i - 1 \in 1 .. n /\ ~(i <= i - 1)
    BY <1>1, <1>6, <1>7
  <2>2. i - 1 \notin later
    <3> HIDE DEF later
    <3> QED
      BY <1>3, <2>1
  <2>3. time[c.list[i - 1]] \in Int /\ time[t] \in Int
    BY <1>1, <2>1 DEF Times
  <2> QED
    BY <1>2, <2>1, <2>2, <2>3
<1>8. ASSUME i <= n
      PROVE  time[c.list[i]] > time[t]
  <2> HIDE DEF i
  <2>1. i \in 1 .. n /\ i # n + 1
    BY <1>1, <1>6, <1>8
  <2> QED
    BY <1>2, <1>3, <2>1
<1> QED
  BY <1>5, <1>6, <1>7, <1>8

\* One more timer in a list, one place up for those behind it.
HasOneMore(longer, l, j, t) ==
    /\ longer \in Seq(AnyTimer) /\ Len(longer) = Len(l) + 1
    /\ \A k \in 1 .. Len(l) + 1 :
          longer[k] = IF k < j THEN l[k] ELSE IF k = j THEN t ELSE l[k - 1]

\* That is what an insertion makes of it.
LEMMA InsertedElements ==
    ASSUME NEW l \in Seq(AnyTimer), NEW j \in 1 .. Len(l) + 1, NEW t \in AnyTimer
    PROVE  HasOneMore(InsertAt(l, j, t), l, j, t)
BY InsertAtElements, SMTT(60) DEF HasOneMore

\* os_timer_running_insert keeps the deltas exact, whatever its timer has left.
LEMMA InsertedExact ==
    ASSUME NEW c \in Countdowns, NEW time \in Times, DeltaOf(c, time),
           NEW t \in AnyTimer, t \notin Members(c.list), time[t] = c.ticks[t],
           NEW r, r = Inserted(c, t)
    PROVE  Becomes(r, c, time, Members(c.list) \cup {t}, Members(c.list) \cup {t})
<1> DEFINE n == Len(c.list)
           i == PlaceOf(c, t)
           ahead == c.ticks[t] - TicksTo(c, i - 1)
<1>1. /\ n \in Nat /\ c.list \in Seq(AnyTimer) /\ c.ticks \in [AnyTimer -> Nat]
      /\ \A k \in 1 .. n : c.list[k] \in AnyTimer /\ c.list[k] \in Members(c.list)
  <2>1. c.list \in Seq(AnyTimer) /\ c.ticks \in [AnyTimer -> Nat]
    BY DEF Countdowns
  <2>2. /\ Len(c.list) \in Nat /\ \A k \in 1 .. Len(c.list) : c.list[k] \in AnyTimer
        /\ Members(c.list) = {c.list[k] : k \in 1 .. Len(c.list)}
    BY <2>1, TimersOf
  <2> QED
    BY <2>1, <2>2
<1>2. /\ i \in 1 .. n + 1
      /\ i # 1 => time[c.list[i - 1]] <= time[t]
      /\ i <= n => time[c.list[i]] > time[t]
      /\ {k \in DOMAIN c.list : TicksTo(c, k) > c.ticks[t]} # {} <=> i <= n
  BY PlaceIsRight
<1>3. r = [list  |-> ListInsertBefore(c.list, i, t),
           ticks |-> [u \in AnyTimer |-> IF u = t THEN ahead
                                         ELSE IF i <= n /\ u = c.list[i] THEN c.ticks[u] - ahead
                                         ELSE c.ticks[u]]]
  <2>1. Inserted(c, t) =
          [list  |-> ListInsertBefore(c.list, i, t),
           ticks |-> [u \in AnyTimer |->
              IF u = t THEN ahead
              ELSE IF {k \in DOMAIN c.list : TicksTo(c, k) > c.ticks[t]} # {} /\ u = c.list[i]
                   THEN c.ticks[u] - ahead
              ELSE c.ticks[u]]]
    BY DEF Inserted, PlaceOf
  <2> HIDE DEF i, ahead
  <2> QED
    BY <1>2, <2>1
<1>4. ahead = time[t] - (IF i = 1 THEN 0 ELSE time[c.list[i - 1]])
  <2> HIDE DEF i
  <2>1. i - 1 \in 0 .. n /\ (i - 1 = 0 <=> i = 1)
    BY <1>1, <1>2
  <2>2. TicksTo(c, i - 1) = IF i - 1 = 0 THEN 0 ELSE time[c.list[i - 1]]
    BY <1>1, <2>1, TicksToIs DEF Times
  <2> QED
    BY <2>1, <2>2
<1> HIDE DEF i, ahead
<1>5. /\ \A k \in 1 .. n :
            c.ticks[c.list[k]] = time[c.list[k]] - (IF k = 1 THEN 0 ELSE time[c.list[k - 1]])
      /\ \A k, l \in 1 .. n : c.list[k] = c.list[l] => k = l
      /\ \A k \in 1 .. n : time[c.list[k]] \in Nat /\ c.list[k] # t
      /\ time[t] \in Nat
  <2>1. \A k \in 1 .. n : time[c.list[k]] \in Nat
    BY <1>1, Ascending DEF Times
  <2> QED
    BY <1>1, <2>1, TimersOf DEF DeltaOf, NoRepeat
<1>6. /\ r.list \in Seq(AnyTimer) /\ Len(r.list) = n + 1
      /\ \A k \in 1 .. n + 1 :
            r.list[k] = IF k < i THEN c.list[k] ELSE IF k = i THEN t ELSE c.list[k - 1]
  <2>1. r.list = InsertAt(c.list, i, t)
    BY <1>3 DEF ListInsertBefore
  <2> QED
    <3>1. c.list \in Seq(AnyTimer) /\ i \in 1 .. Len(c.list) + 1
      BY <1>1, <1>2
    <3>2. HasOneMore(InsertAt(c.list, i, t), c.list, i, t)
      BY <3>1, InsertedElements
    <3> QED
      BY <2>1, <3>2 DEF HasOneMore
<1>7. NoRepeat(r.list) /\ Members(r.list) = Members(c.list) \cup {t}
  <2>1. c.list \in Seq(AnyTimer) /\ i \in 1 .. Len(c.list) + 1 /\ NoRepeat(c.list)
    BY <1>1, <1>2 DEF DeltaOf
  <2>2. r.list = ListInsertBefore(c.list, i, t)
    BY <1>3
  <2> HIDE DEF i
  <2> QED
    BY <2>1, <2>2, InsertMembers
<1>8. /\ i # 1 => i - 1 \in 1 .. n
      /\ i <= n => i \in 1 .. n
  BY <1>1, <1>2
<1> HIDE DEF n
<1>9. ahead \in Nat
  BY <1>2, <1>4, <1>5, <1>8
<1>10. i <= n => c.ticks[c.list[i]] - ahead = time[c.list[i]] - time[t]
  <2>1. SUFFICES ASSUME i \in 1 .. n
                 PROVE  c.ticks[c.list[i]] - ahead = time[c.list[i]] - time[t]
    BY <1>8
  <2>2. c.ticks[c.list[i]] = time[c.list[i]] - (IF i = 1 THEN 0 ELSE time[c.list[i - 1]])
    BY <1>5, <2>1
  <2>3. time[c.list[i]] \in Nat /\ time[t] \in Nat /\ (i # 1 => time[c.list[i - 1]] \in Nat)
    BY <1>5, <1>8, <2>1
  <2> QED
    BY <1>4, <2>2, <2>3
<1>11. ASSUME NEW u \in AnyTimer
       PROVE  r.ticks[u] = IF u = t THEN ahead
                           ELSE IF i <= n /\ u = c.list[i] THEN time[u] - time[t]
                           ELSE c.ticks[u]
  BY <1>3, <1>10
<1>12. r.ticks \in [AnyTimer -> Nat]
  <2>1. ASSUME NEW u \in AnyTimer
        PROVE  r.ticks[u] \in Nat
    <3>1. i <= n => time[c.list[i]] - time[t] \in Nat
      BY <1>2, <1>5, <1>8
    <3>2. c.ticks[u] \in Nat
      BY <1>1
    <3> QED
      BY <1>9, <1>11, <3>1, <3>2
  <2>2. r.ticks = [u \in AnyTimer |-> r.ticks[u]]
    BY <1>3
  <2> QED
    BY <2>1, <2>2
<1>13. r \in Countdowns
  BY <1>3, <1>6, <1>12 DEF Countdowns
<1>14. ASSUME NEW k \in 1 .. n + 1
       PROVE  r.ticks[r.list[k]] = time[r.list[k]] - (IF k = 1 THEN 0 ELSE time[r.list[k - 1]])
  <2>1. CASE k < i
    <3>1. k \in 1 .. n /\ r.list[k] = c.list[k] /\ (k # 1 => r.list[k - 1] = c.list[k - 1])
      <4>1. k \in 1 .. n /\ (k # 1 => k - 1 \in 1 .. n + 1 /\ k - 1 < i)
        BY <1>1, <1>2, <2>1
      <4> QED
        BY <1>6, <2>1, <4>1
    <3>2. i <= n => c.list[i] # c.list[k]
      BY <1>1, <1>5, <1>8, <2>1, <3>1
    <3>3. r.ticks[c.list[k]] = c.ticks[c.list[k]]
      BY <1>1, <1>5, <1>11, <3>1, <3>2
    <3> QED
      BY <1>5, <3>1, <3>3
  <2>2. CASE k = i
    <3>1. r.list[k] = t /\ (k # 1 => r.list[k - 1] = c.list[k - 1])
      <4>1. k # 1 => k - 1 \in 1 .. n + 1 /\ k - 1 < i
        BY <1>1, <1>2, <2>2
      <4> QED
        BY <1>2, <1>6, <2>2, <4>1
    <3> QED
      BY <1>4, <1>11, <2>2, <3>1
  <2>3. CASE k = i + 1
    <3>1. i \in 1 .. n /\ r.list[k] = c.list[i] /\ r.list[k - 1] = t /\ k # 1
      <4>1. i \in 1 .. n /\ k - 1 = i /\ k # 1 /\ ~(k < i) /\ k # i /\ k - 1 \in 1 .. n + 1
        BY <1>1, <1>2, <2>3
      <4> QED
        BY <1>6, <4>1
    <3>2. r.ticks[c.list[i]] = time[c.list[i]] - time[t]
      BY <1>1, <1>5, <1>11, <3>1
    <3> QED
      BY <3>1, <3>2
  <2>4. CASE k > i + 1
    <3>1. /\ k - 1 \in 1 .. n /\ k - 2 \in 1 .. n /\ (k - 1) - 1 = k - 2 /\ k - 1 # 1 /\ k # 1
          /\ r.list[k] = c.list[k - 1] /\ r.list[k - 1] = c.list[k - 2]
      <4>1. k - 1 \in 1 .. n /\ k - 2 \in 1 .. n /\ (k - 1) - 1 = k - 2 /\ k - 1 # 1 /\ k # 1
        <5>1. k \in Nat /\ i \in Nat /\ i >= 1 /\ k > i + 1 /\ k <= n + 1
          BY <1>1, <1>2, <2>4
        <5> QED
          BY <1>1, <5>1
      <4>2. k - 1 \in 1 .. n + 1 /\ ~(k < i) /\ k # i /\ ~(k - 1 < i) /\ k - 1 # i
        BY <1>1, <1>2, <2>4
      <4> QED
        BY <1>6, <4>1, <4>2
    <3>2. i \in 1 .. n /\ c.list[i] # c.list[k - 1]
      <4>1. i \in 1 .. n /\ i # k - 1
        BY <1>1, <1>2, <2>4
      <4> QED
        BY <1>5, <3>1, <4>1
    <3>3. r.ticks[c.list[k - 1]] = c.ticks[c.list[k - 1]]
      BY <1>1, <1>5, <1>11, <3>1, <3>2
    <3>4. c.ticks[c.list[k - 1]] = time[c.list[k - 1]] - time[c.list[k - 2]]
      BY <1>5, <3>1
    <3> QED
      BY <3>1, <3>3, <3>4
  <2> QED
    BY <1>1, <1>2, <2>1, <2>2, <2>3, <2>4
<1>15. DeltaOf(r, time)
  <2>1. DOMAIN r.list = 1 .. n + 1
    BY <1>6, LenProperties
  <2> QED
    BY <1>7, <1>14, <2>1 DEF DeltaOf
<1>16. ASSUME NEW u \in AnyTimer, u # t, u \notin Members(c.list)
       PROVE  r.ticks[u] = c.ticks[u]
  BY <1>1, <1>8, <1>11, <1>16
<1> QED
  BY <1>7, <1>13, <1>15, <1>16 DEF Becomes
\* os_timer_running_remove keeps the deltas exact, and its timer the time left.
LEMMA RemovedExact ==
    ASSUME NEW c \in Countdowns, NEW time \in Times, DeltaOf(c, time),
           NEW t \in AnyTimer, NEW r, r = Removed(c, t)
    PROVE  /\ Becomes(r, c, time, Members(c.list) \ {t}, Members(c.list))
           /\ r.ticks[t] = IF t \in Members(c.list) THEN time[t] ELSE c.ticks[t]
<1>1. CASE t \notin Members(c.list)
  BY <1>1 DEF Removed, Linked, Becomes
<1>2. CASE t \in Members(c.list)
  <2> DEFINE n == Len(c.list)
  <2>1. /\ n \in Nat /\ c.list \in Seq(AnyTimer) /\ c.ticks \in [AnyTimer -> Nat]
        /\ DOMAIN c.list = 1 .. n
        /\ \A k \in 1 .. n : c.list[k] \in AnyTimer /\ c.list[k] \in Members(c.list)
        /\ Members(c.list) = {c.list[k] : k \in 1 .. n}
    <3>1. c.list \in Seq(AnyTimer) /\ c.ticks \in [AnyTimer -> Nat]
      BY DEF Countdowns
    <3>2. /\ n \in Nat /\ DOMAIN c.list = 1 .. n /\ \A k \in 1 .. n : c.list[k] \in AnyTimer
          /\ Members(c.list) = {c.list[k] : k \in 1 .. n}
      BY <3>1, TimersOf
    <3> QED
      BY <3>1, <3>2
  <2>2. /\ \A k \in 1 .. n :
              c.ticks[c.list[k]] = time[c.list[k]] - (IF k = 1 THEN 0 ELSE time[c.list[k - 1]])
        /\ \A k, l \in 1 .. n : c.list[k] = c.list[l] => k = l
        /\ NoRepeat(c.list)
    BY <2>1 DEF DeltaOf, NoRepeat
  <2>3. \A k \in 1 .. n : time[c.list[k]] \in Nat
    BY <2>1, Ascending DEF Times
  <2>4. PICK i \in 1 .. n : c.list[i] = t
    BY <1>2, <2>1
  <2>5. i = CHOOSE k \in DOMAIN c.list : c.list[k] = t
    BY <2>1, <2>2, <2>4
  <2>6. r = [list  |-> ListRemove(c.list, t),
             ticks |-> [u \in AnyTimer |->
                           IF u = t THEN time[t]
                           ELSE IF i < n /\ u = c.list[i + 1] THEN c.ticks[u] + c.ticks[t]
                           ELSE c.ticks[u]]]
    <3>1. TicksTo(c, i) = time[t]
      <4>1. i \in 0 .. n /\ i # 0
        BY <2>1, <2>4
      <4> QED
        BY <2>1, <2>4, <4>1, TicksToIs DEF Times
    <3>2. ~(~Linked(c.list, t))
      BY <1>2 DEF Linked
    <3> QED
      BY <2>5, <3>1, <3>2 DEF Removed
  <2>7. /\ r.list \in Seq(AnyTimer) /\ Len(r.list) = n - 1
        /\ \A k \in 1 .. n - 1 : r.list[k] = IF k < i THEN c.list[k] ELSE c.list[k + 1]
    <3>1. r.list = RemoveAt(c.list, i)
      BY <1>2, <2>5, <2>6 DEF ListRemove
    <3> QED
      <4>1. c.list \in Seq(AnyTimer) /\ i \in 1 .. Len(c.list)
        BY <2>1, <2>4
      <4>2. /\ RemoveAt(c.list, i) \in Seq(AnyTimer) /\ Len(RemoveAt(c.list, i)) = Len(c.list) - 1
            /\ \A k \in 1 .. Len(c.list) - 1 :
                  RemoveAt(c.list, i)[k] = IF k < i THEN c.list[k] ELSE c.list[k + 1]
        BY <4>1, RemoveAtElements, Zenon
      <4> QED
        BY <3>1, <4>2
  <2>8. NoRepeat(r.list) /\ Members(r.list) = Members(c.list) \ {t}
    BY <2>1, <2>2, <2>6, RemoveMembers
  <2>a. n \in Nat /\ i \in Nat /\ i >= 1 /\ i <= n
    BY <2>1, <2>4
  <2> HIDE DEF n
  <2>9. ASSUME NEW u \in AnyTimer
        PROVE  r.ticks[u] = IF u = t THEN time[t]
                            ELSE IF i < n /\ u = c.list[i + 1] THEN c.ticks[u] + c.ticks[t]
                            ELSE c.ticks[u]
    BY <2>6
  <2>10. r.ticks \in [AnyTimer -> Nat]
    <3>1. ASSUME NEW u \in AnyTimer
          PROVE  r.ticks[u] \in Nat
      <4>1. time[t] \in Nat /\ c.ticks[t] \in Nat /\ c.ticks[u] \in Nat
        BY <2>1, <2>3, <2>4
      <4> QED
        BY <2>9, <4>1
    <3>2. r.ticks = [u \in AnyTimer |-> r.ticks[u]]
      BY <2>6
    <3> QED
      BY <3>1, <3>2
  <2>11. r \in Countdowns
    BY <2>6, <2>7, <2>10 DEF Countdowns
  <2>12. ASSUME NEW k \in 1 .. n - 1
         PROVE  r.ticks[r.list[k]] = time[r.list[k]] - (IF k = 1 THEN 0 ELSE time[r.list[k - 1]])
    <3>1. CASE k < i
      <4>1. k \in 1 .. n /\ k # i /\ k # i + 1 /\ (k # 1 => k - 1 \in 1 .. n - 1 /\ k - 1 < i)
        BY <2>a, <3>1
      <4>2. r.list[k] = c.list[k] /\ (k # 1 => r.list[k - 1] = c.list[k - 1])
        BY <2>7, <3>1, <4>1
      <4>3. c.list[k] # t /\ (i < n => c.list[k] # c.list[i + 1])
        <5>1. i < n => i + 1 \in 1 .. n
          BY <2>1, <2>4
        <5> QED
          BY <2>2, <2>4, <4>1, <5>1
      <4>4. r.ticks[c.list[k]] = c.ticks[c.list[k]]
        BY <2>1, <2>9, <4>1, <4>3
      <4> QED
        BY <2>2, <4>1, <4>2, <4>4
    <3>2. CASE k = i
      <4>1. /\ i < n /\ k + 1 = i + 1 /\ i + 1 \in 1 .. n /\ i + 1 # i
            /\ (i + 1) - 1 = i /\ i + 1 # 1
            /\ ~(k < i) /\ (k # 1 => k - 1 \in 1 .. n - 1 /\ k - 1 < i /\ k - 1 \in 1 .. n)
        BY <2>a, <3>2
      <4>2. r.list[k] = c.list[i + 1] /\ (k # 1 => r.list[k - 1] = c.list[k - 1])
        BY <2>7, <3>2, <4>1
      <4>3. c.list[i + 1] # t /\ c.list[i + 1] \in AnyTimer
        BY <2>1, <2>2, <2>4, <4>1
      <4>4. r.ticks[c.list[i + 1]] = c.ticks[c.list[i + 1]] + c.ticks[t]
        BY <2>9, <4>1, <4>3
      <4>5. /\ c.ticks[c.list[i + 1]] = time[c.list[i + 1]] - time[t]
            /\ c.ticks[t] = time[t] - (IF i = 1 THEN 0 ELSE time[c.list[i - 1]])
        BY <2>2, <2>4, <4>1
      <4>6. /\ time[c.list[i + 1]] \in Nat /\ time[t] \in Nat
            /\ (i # 1 => time[c.list[i - 1]] \in Nat)
        BY <2>3, <2>4, <3>2, <4>1
      <4> QED
        BY <3>2, <4>2, <4>4, <4>5, <4>6
    <3>3. CASE k > i
      <4>1. /\ k + 1 \in 1 .. n /\ k + 1 # i /\ k + 1 # i + 1 /\ k + 1 # 1 /\ (k + 1) - 1 = k
            /\ k # 1 /\ k - 1 \in 1 .. n - 1 /\ ~(k - 1 < i) /\ (k - 1) + 1 = k /\ ~(k < i)
        BY <2>a, <3>3
      <4>2. r.list[k] = c.list[k + 1] /\ r.list[k - 1] = c.list[k]
        BY <2>7, <4>1
      <4>3. c.list[k + 1] # t /\ (i < n => c.list[k + 1] # c.list[i + 1])
        <5>1. i < n => i + 1 \in 1 .. n
          BY <2>1, <2>4
        <5> QED
          BY <2>2, <2>4, <4>1, <5>1
      <4>4. r.ticks[c.list[k + 1]] = c.ticks[c.list[k + 1]]
        BY <2>1, <2>9, <4>1, <4>3
      <4> QED
        BY <2>2, <4>1, <4>2, <4>4
    <3> QED
      BY <2>1, <2>4, <3>1, <3>2, <3>3
  <2>13. DeltaOf(r, time)
    <3>1. DOMAIN r.list = 1 .. n - 1
      BY <2>7, LenProperties
    <3> QED
      BY <2>8, <2>12, <3>1 DEF DeltaOf
  <2>14. ASSUME NEW u \in AnyTimer, u \notin Members(c.list)
         PROVE  r.ticks[u] = c.ticks[u]
    <3>1. i < n => i + 1 \in 1 .. n
      BY <2>1, <2>4
    <3> QED
      BY <1>2, <2>1, <2>9, <2>14, <3>1
  <2>15. r.ticks[t] = time[t]
    BY <2>9
  <2> QED
    BY <1>2, <2>8, <2>11, <2>13, <2>14, <2>15 DEF Becomes
<1> QED
  BY <1>1, <1>2
\* How many of the running timers a window brings to their end.
DueCount(elapsed) == Max({0} \cup {k \in DOMAIN running : TicksTo(Now, k) <= elapsed})

\* They are the ones at the front, and exactly those whose time has come.
LEMMA DueAreFirst ==
    ASSUME running \in Seq(AnyTimer), ticksLeft \in [AnyTimer -> Nat],
           until \in [AnyTimer -> Nat], DeltaOf(Now, until), NEW elapsed \in Nat
    PROVE  /\ DueCount(elapsed) \in 0 .. Len(running)
           /\ \A k \in 1 .. Len(running) :
                 k <= DueCount(elapsed) <=> until[running[k]] <= elapsed
<1> DEFINE n == Len(running)
           come == {k \in DOMAIN running : TicksTo(Now, k) <= elapsed}
           m == DueCount(elapsed)
<1>1. /\ Now \in Countdowns /\ Now.list = running /\ Now.ticks = ticksLeft
      /\ until \in [AnyTimer -> Int]
  BY DEF Now, Countdowns
<1>2. n \in Nat /\ DOMAIN running = 1 .. n /\ \A k \in 1 .. n : running[k] \in AnyTimer
  BY LenProperties, ElementOfSeq
<1>3. ASSUME NEW k \in 1 .. n
      PROVE  k \in come <=> until[running[k]] <= elapsed
  <2>1. k \in 0 .. n /\ k # 0
    BY <1>2
  <2>2. TicksTo(Now, k) = until[running[k]]
    BY <1>1, <2>1, TicksToIs DEF Times
  <2> QED
    BY <1>2, <2>2
<1>4. come \subseteq 1 .. n
  BY <1>2
<1>5. \A i, j \in 1 .. n : i <= j => until[running[i]] <= until[running[j]]
  BY <1>1, Ascending
<1>6. \A k \in 1 .. n : until[running[k]] \in Nat
  BY <1>2
<1>7. m \in {0} \cup come /\ \A k \in {0} \cup come : m >= k
  <2>1. \E x \in {0} \cup come : \A k \in {0} \cup come : x >= k
    <3> DEFINE Over == {x \in 0 .. n : \A k \in {0} \cup come : x >= k}
    <3>1. n \in Over
      BY <1>2, <1>4
    <3>2. PICK x \in Over : \A y \in Over : x <= y
      <4>1. Over \subseteq Nat
        BY <1>2
      <4> HIDE DEF Over
      <4> QED
        BY <3>1, <4>1, LeastNatural
    <3>3. ASSUME x \notin {0} \cup come
          PROVE  FALSE
      <4>1. x - 1 \in 0 .. n /\ ~(x <= x - 1)
        BY <1>2, <3>2, <3>3
      <4>2. ASSUME NEW k \in {0} \cup come
            PROVE  x - 1 >= k
        <5>1. k \in Nat /\ k # x /\ x >= k /\ x \in Nat
          BY <1>2, <1>4, <3>2, <3>3
        <5> QED
          BY <5>1
      <4> QED
        BY <3>2, <4>1, <4>2
    <3> QED
      BY <3>2, <3>3
  <2> HIDE DEF come
  <2> QED
    BY <2>1 DEF DueCount, Max, come
<1>8. m \in 0 .. n
  <2> HIDE DEF m, come
  <2> QED
    BY <1>2, <1>4, <1>7
<1>9. ASSUME NEW k \in 1 .. n
      PROVE  k <= m <=> until[running[k]] <= elapsed
  <2>1. k \in come => k <= m
    <3> HIDE DEF m, come
    <3> QED
      BY <1>2, <1>7, <1>8
  <2>2. ASSUME k <= m
        PROVE  until[running[k]] <= elapsed
    <3> HIDE DEF m, come
    <3>1. m \in 1 .. n /\ m \in come
      BY <1>2, <1>7, <1>8, <2>2
    <3>2. until[running[m]] <= elapsed /\ until[running[k]] <= until[running[m]]
      BY <1>3, <1>5, <2>2, <3>1
    <3> QED
      BY <1>6, <3>1, <3>2
  <2> QED
    BY <1>3, <2>1, <2>2
<1> QED
  BY <1>8, <1>9

\* The first loop of os_timer_tick_process leaves an exact list of the others.
LEMMA RestExact ==
    ASSUME running \in Seq(AnyTimer), ticksLeft \in [AnyTimer -> Nat],
           until \in [AnyTimer -> Nat], DeltaOf(Now, until), NEW elapsed \in Nat,
           NEW time \in Times,
           \A k \in DueCount(elapsed) + 1 .. Len(running) :
              time[running[k]] = until[running[k]] - elapsed,
           NEW r, r = Rest(DueCount(elapsed), elapsed)
    PROVE  /\ r \in Countdowns /\ DeltaOf(r, time)
           /\ Members(r.list) = {running[k] : k \in DueCount(elapsed) + 1 .. Len(running)}
           /\ \A u \in AnyTimer : u \notin Members(running) => r.ticks[u] = ticksLeft[u]
<1> DEFINE n == Len(running)
           m == DueCount(elapsed)
<1>1. n \in Nat /\ DOMAIN running = 1 .. n /\ \A k \in 1 .. n : running[k] \in AnyTimer
  BY LenProperties, ElementOfSeq
<1>2. m \in 0 .. n /\ \A k \in 1 .. n : k <= m <=> until[running[k]] <= elapsed
  BY DueAreFirst
<1>3. /\ \A k \in 1 .. n : ticksLeft[running[k]] =
                              until[running[k]] - (IF k = 1 THEN 0 ELSE until[running[k - 1]])
      /\ \A k, l \in 1 .. n : running[k] = running[l] => k = l
  BY <1>1 DEF DeltaOf, Now, NoRepeat
<1>4. \A k \in 1 .. n : until[running[k]] \in Nat
  BY <1>1
<1>5. /\ r.list = SubSeq(running, m + 1, n)
      /\ r.ticks = IF SubSeq(running, m + 1, n) = << >> THEN ticksLeft
                   ELSE [ticksLeft EXCEPT ![Head(SubSeq(running, m + 1, n))] =
                            @ - (elapsed - TicksTo(Now, m))]
      /\ r = [list |-> r.list, ticks |-> r.ticks]
  <2> DEFINE front == SubSeq(running, m + 1, n)
             after == IF front = << >> THEN ticksLeft
                      ELSE [ticksLeft EXCEPT ![Head(front)] = @ - (elapsed - TicksTo(Now, m))]
  <2>1. Rest(m, elapsed) = [list |-> front, ticks |-> after]
    BY DEF Rest
  <2> HIDE DEF front, after
  <2>2. r = [list |-> front, ticks |-> after]
    BY <2>1
  <2>3. r.list = front /\ r.ticks = after
    BY <2>2
  <2>4. r = [list |-> r.list, ticks |-> r.ticks]
    BY <2>2
  <2> QED
    BY <2>3, <2>4 DEF front, after
<1>6. TicksTo(Now, m) = IF m = 0 THEN 0 ELSE until[running[m]]
  <2>1. Now.list = running /\ until \in [AnyTimer -> Int]
    BY DEF Now
  <2> QED
    BY <1>2, <2>1, TicksToIs
<1> HIDE DEF m
<1>7. /\ r.list \in Seq(AnyTimer) /\ Len(r.list) = n - m
      /\ \A k \in 1 .. n - m : r.list[k] = running[m + k]
  <2>1. \A k \in m + 1 .. n : running[k] \in AnyTimer
    BY <1>1, <1>2
  <2>2. /\ SubSeq(running, m + 1, n) \in Seq(AnyTimer)
        /\ Len(SubSeq(running, m + 1, n)) = IF m + 1 <= n THEN n - (m + 1) + 1 ELSE 0
        /\ \A k \in 1 .. n - (m + 1) + 1 : SubSeq(running, m + 1, n)[k] = running[(m + 1) + k - 1]
    BY <1>1, <1>2, <2>1, SubSeqProperties
  <2>3. SubSeq(running, m + 1, n) = r.list
    BY <1>5
  <2> HIDE DEF n
  <2>4. (IF m + 1 <= n THEN n - (m + 1) + 1 ELSE 0) = n - m /\ n - (m + 1) + 1 = n - m
    BY <1>1, <1>2
  <2>5. \A k \in 1 .. n - m : (m + 1) + k - 1 = m + k
    BY <1>1, <1>2
  <2> QED
    BY <2>2, <2>3, <2>4, <2>5
<1> HIDE DEF n
<1>8. \A k \in 1 .. n - m : m + k \in m + 1 .. n /\ m + k \in 1 .. n
  BY <1>1, <1>2
<1>9. \A k \in m + 1 .. n : k - m \in 1 .. n - m /\ m + (k - m) = k
  BY <1>1, <1>2
<1>10. DOMAIN r.list = 1 .. n - m
  BY <1>7, LenProperties
<1>11. Members(r.list) = {running[k] : k \in m + 1 .. n}
  <2>1. \A k \in m + 1 .. n : running[k] = r.list[k - m]
    BY <1>7, <1>9
  <2>2. \A k \in 1 .. n - m : r.list[k] = running[m + k] /\ m + k \in m + 1 .. n
    BY <1>7, <1>8
  <2> QED
    <3>1. Members(r.list) = {r.list[k] : k \in 1 .. n - m}
      BY <1>10 DEF Members
    <3>2. ASSUME NEW u \in {r.list[k] : k \in 1 .. n - m}
          PROVE  u \in {running[k] : k \in m + 1 .. n}
      <4>1. PICK k \in 1 .. n - m : u = r.list[k]
        OBVIOUS
      <4> QED
        BY <2>2, <4>1
    <3>3. ASSUME NEW u \in {running[k] : k \in m + 1 .. n}
          PROVE  u \in {r.list[k] : k \in 1 .. n - m}
      <4>1. PICK k \in m + 1 .. n : u = running[k]
        OBVIOUS
      <4> QED
        BY <1>9, <2>1, <4>1
    <3> QED
      BY <3>1, <3>2, <3>3, Zenon
<1>12. NoRepeat(r.list)
  <2>1. ASSUME NEW k \in 1 .. n - m, NEW l \in 1 .. n - m, r.list[k] = r.list[l]
        PROVE  k = l
    <3>1. m + k = m + l
      <4>1. running[m + k] = running[m + l] /\ m + k \in 1 .. n /\ m + l \in 1 .. n
        BY <1>7, <1>8, <2>1
      <4> QED
        BY <1>3, <4>1
    <3> QED
      BY <1>1, <1>2, <3>1
  <2> QED
    BY <1>10, <2>1 DEF NoRepeat
<1>13. CASE m = n
  <2>1. r.list = << >>
    BY <1>1, <1>7, <1>13, EmptySeq
  <2>2. r.ticks = ticksLeft
    BY <1>5, <2>1
  <2>3. DOMAIN r.list = {}
    BY <1>1, <1>10, <1>13
  <2> QED
    BY <1>5, <1>7, <1>11, <1>12, <2>2, <2>3 DEF Countdowns, DeltaOf, m, n
<1>14. CASE m # n
  <2>1. 1 \in 1 .. n - m /\ m + 1 \in 1 .. n /\ ~(m + 1 <= m) /\ m + 1 \in m + 1 .. n
    BY <1>1, <1>2, <1>14
  <2>2. r.list # << >> /\ Head(r.list) = running[m + 1]
    <3>1. r.list # << >>
      BY <1>7, <2>1, EmptySeq
    <3>2. Head(r.list) = r.list[1]
      BY <1>7, <3>1, HeadTailProperties
    <3> QED
      BY <1>7, <2>1, <3>1, <3>2
  <2>3. r.ticks = [ticksLeft EXCEPT ![running[m + 1]] = @ - (elapsed - TicksTo(Now, m))]
    BY <1>5, <2>2, Zenon
  <2>4. /\ until[running[m + 1]] > elapsed
        /\ until[running[m + 1]] \in Nat /\ (m # 0 => until[running[m]] \in Nat)
    <3>1. m # 0 => m \in 1 .. n
      BY <1>1, <1>2
    <3> QED
      BY <1>2, <1>4, <2>1, <3>1
  <2>5. r.ticks[running[m + 1]] = until[running[m + 1]] - elapsed
    <3>1. ticksLeft[running[m + 1]] =
             until[running[m + 1]] - (IF m = 0 THEN 0 ELSE until[running[m]])
      <4>1. (m + 1 = 1 <=> m = 0) /\ (m + 1) - 1 = m
        BY <1>1, <1>2
      <4> QED
        BY <1>3, <2>1, <4>1
    <3>2. r.ticks[running[m + 1]] = ticksLeft[running[m + 1]] - (elapsed - TicksTo(Now, m))
      BY <1>1, <2>1, <2>3
    <3> QED
      BY <1>6, <2>4, <3>1, <3>2
  <2>6. ASSUME NEW u \in AnyTimer, u # running[m + 1]
        PROVE  r.ticks[u] = ticksLeft[u]
    BY <2>3, <2>6
  <2>7. r.ticks \in [AnyTimer -> Nat]
    <3>1. until[running[m + 1]] - elapsed \in Nat
      BY <2>4
    <3>2. \A u \in AnyTimer : r.ticks[u] \in Nat
      BY <2>5, <2>6, <3>1
    <3>3. r.ticks = [u \in AnyTimer |-> r.ticks[u]]
      BY <2>3
    <3> QED
      BY <3>2, <3>3
  <2>8. ASSUME NEW k \in 1 .. n - m
        PROVE  r.ticks[r.list[k]] = time[r.list[k]] - (IF k = 1 THEN 0 ELSE time[r.list[k - 1]])
    <3>1. r.list[k] = running[m + k] /\ m + k \in 1 .. n /\ m + k \in m + 1 .. n
      BY <1>7, <1>8
    <3>2. time[running[m + k]] = until[running[m + k]] - elapsed
      BY <3>1 DEF m, n
    <3>3. CASE k = 1
      <4>1. m + k = m + 1
        BY <3>3
      <4>2. time[running[m + 1]] = until[running[m + 1]] - elapsed
        BY <3>2, <4>1
      <4>3. time[running[m + 1]] - 0 = time[running[m + 1]]
        BY <2>4, <4>2
      <4> QED
        BY <2>5, <3>1, <3>3, <4>1, <4>2, <4>3
    <3>4. CASE k # 1
      <4>1. /\ k - 1 \in 1 .. n - m /\ (m + k) - 1 = m + (k - 1)
            /\ m + k # 1 /\ m + k # m + 1
        <5>1. m \in Nat /\ k \in Nat /\ n \in Nat /\ 1 <= k /\ k <= n - m
          BY <1>1, <1>2
        <5> QED
          BY <3>4, <5>1
      <4>2. /\ r.list[k - 1] = running[m + (k - 1)] /\ m + (k - 1) \in 1 .. n
            /\ m + (k - 1) \in m + 1 .. n
        BY <1>7, <1>8, <4>1
      <4>3. time[running[m + (k - 1)]] = until[running[m + (k - 1)]] - elapsed
        BY <4>2 DEF m, n
      <4>4. running[m + k] # running[m + 1]
        BY <1>3, <2>1, <3>1, <4>1
      <4>5. ticksLeft[running[m + k]] = until[running[m + k]] - until[running[m + (k - 1)]]
        BY <1>3, <3>1, <4>1
      <4>6. r.ticks[running[m + k]] = ticksLeft[running[m + k]]
        BY <1>1, <2>6, <3>1, <4>4
      <4>7. until[running[m + k]] \in Nat /\ until[running[m + (k - 1)]] \in Nat
        BY <1>4, <3>1, <4>2
      <4>8. ticksLeft[running[m + k]] = time[running[m + k]] - time[running[m + (k - 1)]]
        <5>1. PICK a \in Nat : a = until[running[m + k]]
          BY <4>7
        <5>2. PICK b \in Nat : b = until[running[m + (k - 1)]]
          BY <4>7
        <5>3. (a - elapsed) - (b - elapsed) = a - b
          OBVIOUS
        <5> QED
          BY <3>2, <4>3, <4>5, <5>1, <5>2, <5>3
      <4> QED
        BY <3>1, <3>4, <4>2, <4>6, <4>8
    <3> QED
      BY <3>3, <3>4
  <2>9. ASSUME NEW u \in AnyTimer, u \notin Members(running)
        PROVE  r.ticks[u] = ticksLeft[u]
    BY <1>1, <2>1, <2>6, <2>9 DEF Members
  <2> QED
    BY <1>5, <1>7, <1>10, <1>11, <1>12, <2>7, <2>8, <2>9 DEF Countdowns, DeltaOf, m, n
<1> QED
  BY <1>13, <1>14
\* done is what the second loop of os_timer_tick_process has after each of the
\* first n timers.
IsLoop(done, c, due, n) ==
    done = [i \in 0 .. n |-> IF i = 0 THEN c ELSE Rearmed(done[i - 1], due[i])]

\* There is such a loop over any number of timers.
LEMMA LoopExists ==
    ASSUME NEW c, NEW due, NEW n \in Nat
    PROVE  \E done : IsLoop(done, c, due, n)
<1> DEFINE Stuck == {i \in Nat : ~ \E done : IsLoop(done, c, due, i)}
<1>1. SUFFICES ASSUME Stuck # {}
               PROVE  FALSE
  OBVIOUS
<1>2. PICK least \in Stuck : \A j \in Stuck : least <= j
  <2>1. Stuck \subseteq Nat
    OBVIOUS
  <2> HIDE DEF Stuck
  <2> QED
    BY <1>1, <2>1, LeastNatural
<1>3. least # 0
  <2>1. IsLoop([i \in 0 .. 0 |-> c], c, due, 0)
    BY DEF IsLoop
  <2> QED
    BY <2>1
<1>4. least - 1 \in Nat /\ least - 1 \notin Stuck
  BY <1>2, <1>3
<1>5. PICK done : IsLoop(done, c, due, least - 1)
  BY <1>4
<1> DEFINE more == [i \in 0 .. least |->
                       IF i < least THEN done[i] ELSE Rearmed(done[i - 1], due[i])]
<1>6. ASSUME NEW i \in 0 .. least
      PROVE  more[i] = IF i = 0 THEN c ELSE Rearmed(more[i - 1], due[i])
  <2>1. CASE i = 0
    <3>1. done[0] = c
      BY <1>4, <1>5 DEF IsLoop
    <3> QED
      BY <1>3, <2>1, <3>1
  <2>2. CASE i # 0 /\ i < least
    <3>1. i \in 0 .. least - 1 /\ i - 1 \in 0 .. least /\ i - 1 < least
      BY <2>2
    <3>2. done[i] = Rearmed(done[i - 1], due[i])
      BY <1>5, <2>2, <3>1 DEF IsLoop
    <3> QED
      BY <2>2, <3>1, <3>2
  <2>3. CASE i # 0 /\ i = least
    <3>1. i - 1 \in 0 .. least /\ i - 1 < least
      BY <2>3
    <3> QED
      BY <2>3, <3>1
  <2> QED
    BY <2>1, <2>2, <2>3
<1>7. IsLoop(more, c, due, least)
  <2>1. more = [i \in 0 .. least |-> more[i]]
    OBVIOUS
  <2> HIDE DEF more
  <2> QED
    BY <1>6, <2>1 DEF IsLoop
<1> HIDE DEF more
<1> QED
  BY <1>2, <1>7

\* A timer that was due counts a period from now on, or is done.
LEMMA RearmedExact ==
    ASSUME NEW c \in Countdowns, NEW time \in Times, DeltaOf(c, time),
           NEW t \in AnyTimer, t \notin Members(c.list), period \in [User -> Period],
           t \in Periodic => time[t] = period[t],
           NEW r, r = Rearmed(c, t)
    PROVE  Becomes(r, c, time, Members(c.list) \cup ({t} \cap Periodic), Members(c.list) \cup {t})
<1>1. c.list \in Seq(AnyTimer) /\ c.ticks \in [AnyTimer -> Nat]
  BY DEF Countdowns
<1>2. CASE t \in Periodic
  <2> DEFINE d == [c EXCEPT !.ticks[t] = period[t]]
  <2>1. period[t] \in Nat
    BY <1>2, TimerAssumption DEF User, Period
  <2>2. /\ d \in Countdowns /\ d.list = c.list /\ d.ticks[t] = period[t]
        /\ \A u \in AnyTimer : u # t => d.ticks[u] = c.ticks[u]
    BY <1>1, <2>1 DEF Countdowns
  <2>3. r = Inserted(d, t)
    BY <1>2 DEF Rearmed
  <2> HIDE DEF d
  <2>4. DeltaOf(d, time)
    <3>1. Members(c.list) \subseteq AnyTimer
      BY <1>1, TimersOf
    <3> QED
      BY <1>1, <2>2, <3>1, OtherTimes
  <2>5. Becomes(r, d, time, Members(d.list) \cup {t}, Members(d.list) \cup {t})
    <3>1. t \notin Members(d.list) /\ time[t] = d.ticks[t]
      BY <1>2, <2>2
    <3>2. d \in Countdowns
      BY <2>2
    <3> QED
      BY <2>3, <2>4, <3>1, <3>2, InsertedExact
  <2> QED
    BY <1>2, <2>2, <2>5 DEF Becomes
<1>3. CASE t \notin Periodic
  <2>1. r = [c EXCEPT !.ticks[t] = 0]
    BY <1>3 DEF Rearmed
  <2>2. /\ r \in Countdowns /\ r.list = c.list
        /\ \A u \in AnyTimer : u # t => r.ticks[u] = c.ticks[u]
    <3>1. c = [list |-> c.list, ticks |-> c.ticks]
      BY DEF Countdowns
    <3>2. r = [list |-> c.list, ticks |-> [c.ticks EXCEPT ![t] = 0]]
      BY <2>1, <3>1
    <3> QED
      BY <1>1, <3>2 DEF Countdowns
  <2>3. DeltaOf(r, time)
    <3>1. Members(c.list) \subseteq AnyTimer
      BY <1>1, TimersOf
    <3> QED
      BY <1>1, <2>2, <3>1, OtherTimes
  <2> QED
    BY <1>3, <2>2, <2>3 DEF Becomes
<1> QED
  BY <1>2, <1>3

\* So do all that were due, in one list with those that were not.
LEMMA AllRearmedExact ==
    ASSUME NEW c \in Countdowns, NEW time \in Times, DeltaOf(c, time),
           NEW due \in Seq(AnyTimer), NoRepeat(due),
           \A t \in Members(due) : t \notin Members(c.list),
           period \in [User -> Period],
           \A t \in Members(due) : t \in Periodic => time[t] = period[t],
           NEW r, r = AllRearmed(c, due)
    PROVE  Becomes(r, c, time, Members(c.list) \cup (Members(due) \cap Periodic),
                   Members(c.list) \cup Members(due))
<1> DEFINE n == Len(due)
           done == CHOOSE d : IsLoop(d, c, due, n)
           First(i) == {due[k] : k \in 1 .. i}
           Good(i) == Becomes(done[i], c, time, Members(c.list) \cup (First(i) \cap Periodic),
                              Members(c.list) \cup First(i))
<1>1. /\ n \in Nat /\ DOMAIN due = 1 .. n
      /\ \A k \in 1 .. n : due[k] \in AnyTimer /\ due[k] \in Members(due)
      /\ Members(due) = {due[k] : k \in 1 .. n}
      /\ \A k, l \in 1 .. n : due[k] = due[l] => k = l
  BY LenProperties, ElementOfSeq DEF Members, NoRepeat
<1>2. IsLoop(done, c, due, n)
  BY <1>1, LoopExists
<1>3. r = done[n]
  BY DEF AllRearmed, IsLoop
<1> HIDE DEF done
<1>4. done[0] = c /\ \A i \in 1 .. n : done[i] = Rearmed(done[i - 1], due[i])
  <2>1. \A i \in 0 .. n : done[i] = IF i = 0 THEN c ELSE Rearmed(done[i - 1], due[i])
    BY <1>2 DEF IsLoop
  <2>2. 0 \in 0 .. n /\ \A i \in 1 .. n : i \in 0 .. n /\ i # 0
    BY <1>1
  <2> QED
    BY <2>1, <2>2
<1> HIDE DEF n
<1>5. Good(0)
  <2>1. First(0) = {}
    OBVIOUS
  <2> HIDE DEF First
  <2> QED
    BY <1>4, <2>1 DEF Becomes
<1>6. ASSUME NEW i \in 1 .. n, Good(i - 1)
      PROVE  Good(i)
  <2>1. First(i) = First(i - 1) \cup {due[i]}
    <3>1. \A k \in 1 .. i : k \in 1 .. i - 1 \/ k = i
      BY <1>1
    <3>2. i \in 1 .. i /\ \A k \in 1 .. i - 1 : k \in 1 .. i
      BY <1>1
    <3> QED
      BY <3>1, <3>2
  <2>2. due[i] \notin First(i - 1)
    <3>1. \A k \in 1 .. i - 1 : k \in 1 .. n /\ k # i
      BY <1>1
    <3> QED
      BY <1>1, <3>1
  <2>3. due[i] \notin Members(done[i - 1].list)
    <3> HIDE DEF First
    <3> QED
      BY <1>1, <1>6, <2>2 DEF Becomes
  <2> HIDE DEF First
  <2>4. Becomes(done[i], done[i - 1], time,
                Members(done[i - 1].list) \cup ({due[i]} \cap Periodic),
                Members(done[i - 1].list) \cup {due[i]})
    <3>1. done[i] = Rearmed(done[i - 1], due[i]) /\ due[i] \in AnyTimer
      BY <1>1, <1>4
    <3>2. due[i] \in Periodic => time[due[i]] = period[due[i]]
      BY <1>1
    <3>3. done[i - 1] \in Countdowns /\ DeltaOf(done[i - 1], time)
      BY <1>6 DEF Becomes
    <3> QED
      BY <2>3, <3>1, <3>2, <3>3, RearmedExact
  <2> QED
    BY <1>6, <2>1, <2>4 DEF Becomes
<1> HIDE DEF Good
<1>7. Good(n)
  <2> DEFINE Bad == {i \in 0 .. n : ~ Good(i)}
  <2>1. SUFFICES ASSUME Bad # {}
                 PROVE  FALSE
    BY <1>1
  <2>2. PICK i \in Bad : \A j \in Bad : i <= j
    <3>1. Bad \subseteq Nat
      BY <1>1
    <3> HIDE DEF Bad
    <3> QED
      BY <2>1, <3>1, LeastNatural
  <2>3. i # 0
    BY <1>5, <2>2
  <2>4. i \in 1 .. n /\ i - 1 \in 0 .. n /\ ~(i <= i - 1)
    BY <1>1, <2>2, <2>3
  <2>5. Good(i - 1)
    BY <2>2, <2>4
  <2> QED
    BY <1>6, <2>2, <2>4, <2>5
<1>8. First(n) = Members(due)
  BY <1>1
<1> HIDE DEF First
<1> QED
  BY <1>3, <1>7, <1>8 DEF Good
\* What the invariant says of the lists and of the flags.
LEMMA TimerFacts ==
    ASSUME TimerIInv
    PROVE  /\ running \in Seq(AnyTimer) /\ ready \in Seq(AnyTimer) /\ free \in [Pool -> Seq(Entry)]
           /\ active \in [AnyTimer -> BOOLEAN] /\ paused \in [AnyTimer -> BOOLEAN]
           /\ queued \in [AnyTimer -> BOOLEAN] /\ owed \in [AnyTimer -> BOOLEAN]
           /\ ticksLeft \in [AnyTimer -> Nat] /\ until \in [AnyTimer -> Nat] /\ until \in Times
           /\ period \in [User -> Period] /\ \A t \in User : period[t] \in Nat
           /\ Now \in Countdowns /\ DeltaOf(Now, until)
           /\ Now.list = running /\ Now.ticks = ticksLeft
           /\ Members(running) = {t \in AnyTimer : active[t]}
           /\ Members(ready) = {t \in AnyTimer : owed[t]}
           /\ Members(ready) = {t \in AnyTimer : queued[t]}
           /\ NoRepeat(ready)
<1>1. /\ running \in Seq(AnyTimer) /\ ready \in Seq(AnyTimer) /\ free \in [Pool -> Seq(Entry)]
      /\ active \in [AnyTimer -> BOOLEAN] /\ paused \in [AnyTimer -> BOOLEAN]
      /\ queued \in [AnyTimer -> BOOLEAN] /\ owed \in [AnyTimer -> BOOLEAN]
      /\ ticksLeft \in [AnyTimer -> Nat] /\ until \in [AnyTimer -> Nat]
      /\ period \in [User -> Period]
  BY DEF TimerIInv, TimerTypeOK
<1>2. until \in Times /\ \A t \in User : period[t] \in Nat
  BY <1>1, TimerAssumption DEF Times, Period
<1>3. Now \in Countdowns /\ Now.list = running /\ Now.ticks = ticksLeft
  BY <1>1 DEF Now, Countdowns
<1> QED
  BY <1>1, <1>2, <1>3 DEF TimerIInv, CountingDown, DeliveriesOwed

\* A step that leaves the list of a record leaves the record.
LEMMA NowAfter ==
    ASSUME NEW r \in Countdowns, running' = r.list, ticksLeft' = r.ticks
    PROVE  Now' = r
<1>1. r = [list |-> r.list, ticks |-> r.ticks]
  BY DEF Countdowns
<1> QED
  BY <1>1 DEF Now

\* The flags and times have their types after a step, one by one.
LEMMA TimerTypes ==
    ASSUME running' \in Seq(AnyTimer), ready' \in Seq(AnyTimer), free' \in [Pool -> Seq(Entry)],
           active' \in [AnyTimer -> BOOLEAN], paused' \in [AnyTimer -> BOOLEAN],
           queued' \in [AnyTimer -> BOOLEAN], owed' \in [AnyTimer -> BOOLEAN],
           ticksLeft' \in [AnyTimer -> Nat], until' \in [AnyTimer -> Nat],
           period' \in [User -> Period],
           timerTask' \in {"fetch", "callback", "check", "asleep"}
    PROVE  TimerTypeOK'
BY DEF TimerTypeOK

\* os_list_remove on a list whose members the flags know.
LEMMA UnlinkedMembers ==
    ASSUME NEW l \in Seq(AnyTimer), NoRepeat(l), NEW t \in AnyTimer
    PROVE  /\ Unlinked(l, t) \in Seq(AnyTimer) /\ NoRepeat(Unlinked(l, t))
           /\ Members(Unlinked(l, t)) = Members(l) \ {t}
<1>1. CASE t \in Members(l)
  BY <1>1, RemoveMembers DEF Unlinked, Linked
<1>2. CASE t \notin Members(l)
  BY <1>2 DEF Unlinked, Linked
<1> QED
  BY <1>1, <1>2

\* The timer task may sleep on as long as the ready list gains nothing.
LEMMA NoneSlept ==
    ASSUME TimerIInv, ready' \in Seq(AnyTimer), Members(ready') \subseteq Members(ready),
           timerTask' = timerTask
    PROVE  NoSleptExpiry'
<1>1. ASSUME timerTask = "asleep"
      PROVE  ready' = << >>
  <2>1. ready = << >> /\ ready \in Seq(AnyTimer)
    BY <1>1 DEF TimerIInv, NoSleptExpiry, TimerTypeOK
  <2>2. Members(ready) = {}
    BY <2>1, MembersOfSeq
  <2> HIDE DEF Members
  <2>3. Members(ready') = {}
    BY <2>2
  <2> DEFINE later == ready'
  <2>4. later \in Seq(AnyTimer) /\ Members(later) = {}
    BY <2>3
  <2> HIDE DEF later
  <2>5. later = << >>
    BY <2>4, MembersOfSeq
  <2> QED
    BY <2>5 DEF later
<1> QED
  BY <1>1 DEF NoSleptExpiry

\* Starting, restarting and resuming a timer.
LEMMA ArmKeeps ==
    ASSUME TimerIInv, NEW t \in User, NEW reload \in BOOLEAN, Arm(t, reload)
    PROVE  TimerIInv'
<1> DEFINE fresh == reload \/ ~paused[t]
           c == Removed(Now, t)
           d == IF fresh THEN [c EXCEPT !.ticks[t] = period[t]] ELSE c
           r == Inserted(d, t)
<1>1. t \in AnyTimer /\ t \notin Entry
  BY TimerAssumption DEF User, AnyTimer
<1>2. /\ Becomes(c, Now, until, Members(running) \ {t}, Members(running))
      /\ c.ticks[t] = IF t \in Members(running) THEN until[t] ELSE ticksLeft[t]
  <2>1. Now.list = running /\ Now.ticks = ticksLeft
    BY TimerFacts
  <2> HIDE DEF c
  <2>2. c = Removed(Now, t)
    BY DEF c
  <2>3. Now \in Countdowns /\ DeltaOf(Now, until) /\ until \in Times
    BY TimerFacts
  <2> HIDE DEF Now
  <2>4. /\ Becomes(c, Now, until, Members(Now.list) \ {t}, Members(Now.list))
        /\ c.ticks[t] = IF t \in Members(Now.list) THEN until[t] ELSE Now.ticks[t]
    BY <1>1, <2>2, <2>3, RemovedExact
  <2> QED
    BY <2>1, <2>4
<1>3. running' = r.list /\ ticksLeft' = r.ticks
  BY DEF Arm, SetRunning
<1>4. /\ until' = [until EXCEPT ![t] = IF fresh THEN period[t] ELSE @]
      /\ owed' = [owed EXCEPT ![t] = @ /\ ~fresh]
      /\ queued' = [queued EXCEPT ![t] = @ /\ ~fresh]
      /\ ready' = IF fresh /\ queued[t] THEN Unlinked(ready, t) ELSE ready
      /\ paused' = [paused EXCEPT ![t] = FALSE]
      /\ active' = [active EXCEPT ![t] = TRUE]
      /\ UNCHANGED <<free, period, timerTask>>
  BY DEF Arm
<1> HIDE DEF c, r
<1>5. fresh \in BOOLEAN /\ (~fresh => paused[t])
  BY TimerFacts, <1>1
<1> HIDE DEF fresh
<1>6. until' \in [AnyTimer -> Nat] /\ until' \in Times
  <2>1. (IF fresh THEN period[t] ELSE until[t]) \in Nat
    BY <1>1, TimerFacts
  <2>2. until' \in [AnyTimer -> Nat]
    BY <1>4, <2>1, TimerFacts
  <2> QED
    BY <2>2 DEF Times
<1>7. /\ d \in Countdowns /\ d.list = c.list /\ d.ticks[t] = until'[t]
      /\ \A u \in AnyTimer : u # t => d.ticks[u] = c.ticks[u]
  <2>1. c \in Countdowns /\ c = [list |-> c.list, ticks |-> c.ticks]
        /\ c.list \in Seq(AnyTimer) /\ c.ticks \in [AnyTimer -> Nat]
    BY <1>2 DEF Becomes, Countdowns
  <2>2. CASE fresh
    <3>1. d = [list |-> c.list, ticks |-> [c.ticks EXCEPT ![t] = period[t]]]
      BY <2>1, <2>2
    <3>2. period[t] \in Nat /\ until'[t] = period[t]
      BY <1>1, <1>4, <2>2, TimerFacts
    <3> QED
      BY <1>1, <2>1, <3>1, <3>2 DEF Countdowns
  <2>3. CASE ~fresh
    <3>1. ~active[t] /\ ticksLeft[t] = until[t] /\ t \notin Members(running)
      BY <1>1, <1>5, <2>3, TimerFacts DEF TimerIInv, CountingDown
    <3>2. until'[t] = until[t]
      BY <1>1, <1>4, <2>3, TimerFacts
    <3> QED
      BY <1>2, <2>1, <2>3, <3>1, <3>2
  <2> QED
    BY <2>2, <2>3
<1> HIDE DEF d
<1>8. t \notin Members(d.list) /\ Members(d.list) = Members(running) \ {t} /\ DeltaOf(c, until)
      /\ c.list \in Seq(AnyTimer) /\ Members(c.list) \subseteq AnyTimer
  <2>1. c.list \in Seq(AnyTimer)
    BY <1>2 DEF Becomes, Countdowns
  <2>2. Members(c.list) \subseteq AnyTimer
    BY <2>1, TimersOf
  <2> QED
    BY <1>2, <1>7, <2>1, <2>2 DEF Becomes
<1>9. DeltaOf(d, until')
  <2>1. \A u \in Members(c.list) : until'[u] = until[u] /\ d.ticks[u] = c.ticks[u]
    BY <1>1, <1>4, <1>7, <1>8, TimerFacts
  <2> QED
    BY <1>7, <1>8, <2>1, OtherTimes
<1>10. Becomes(r, d, until', Members(d.list) \cup {t}, Members(d.list) \cup {t})
  <2>1. PICK time \in Times : time = until'
    BY <1>6
  <2> QED
    BY <1>1, <1>7, <1>8, <1>9, <2>1, InsertedExact DEF r
<1>11. Members(running') = Members(running) \cup {t} /\ Now' = r /\ DeltaOf(r, until')
       /\ r \in Countdowns
  BY <1>3, <1>8, <1>10, NowAfter DEF Becomes
<1>12. CountingDown'
  <2>1. Members(running') = {u \in AnyTimer : active'[u]}
    BY <1>1, <1>4, <1>11, TimerFacts
  <2>2. ASSUME NEW u \in AnyTimer, paused'[u]
        PROVE  ~active'[u] /\ u \in User /\ ticksLeft'[u] = until'[u]
    <3>1. u # t /\ paused[u]
      BY <1>1, <1>4, <2>2, TimerFacts
    <3>2. ~active[u] /\ u \in User /\ ticksLeft[u] = until[u] /\ u \notin Members(running)
      BY <3>1, TimerFacts DEF TimerIInv, CountingDown
    <3>3. r.ticks[u] = ticksLeft[u]
      <4>1. r.ticks[u] = d.ticks[u]
        BY <1>8, <1>10, <3>1, <3>2 DEF Becomes
      <4>2. d.ticks[u] = c.ticks[u]
        BY <1>7, <3>1
      <4>3. c.ticks[u] = Now.ticks[u]
        BY <1>2, <3>2 DEF Becomes
      <4> QED
        BY <4>1, <4>2, <4>3, TimerFacts
    <3> QED
      BY <1>3, <1>4, <3>1, <3>2, <3>3, TimerFacts
  <2> QED
    BY <1>11, <2>1, <2>2 DEF CountingDown
<1>13. /\ ready' \in Seq(AnyTimer) /\ NoRepeat(ready')
       /\ Members(ready') = IF fresh THEN Members(ready) \ {t} ELSE Members(ready)
  <2>1. CASE fresh /\ queued[t]
    BY <1>1, <1>4, <2>1, TimerFacts, UnlinkedMembers
  <2>2. CASE ~(fresh /\ queued[t])
    BY <1>1, <1>4, <2>2, TimerFacts
  <2> QED
    BY <2>1, <2>2
<1>14. DeliveriesOwed'
  <2>1. \A u \in AnyTimer : /\ owed'[u] <=> owed[u] /\ ~(u = t /\ fresh)
                            /\ queued'[u] <=> queued[u] /\ ~(u = t /\ fresh)
    BY <1>1, <1>4, <1>5, TimerFacts
  <2>2. Members(ready') = {u \in AnyTimer : owed'[u]}
    BY <1>1, <1>13, <2>1, TimerFacts
  <2>3. Members(ready') = {u \in AnyTimer : queued'[u]}
    BY <1>1, <1>13, <2>1, TimerFacts
  <2> QED
    BY <1>13, <2>2, <2>3 DEF DeliveriesOwed
<1>15. TimerTypeOK'
  <2>1. running' \in Seq(AnyTimer) /\ ticksLeft' \in [AnyTimer -> Nat]
    BY <1>3, <1>11 DEF Countdowns
  <2>2. /\ active' \in [AnyTimer -> BOOLEAN] /\ paused' \in [AnyTimer -> BOOLEAN]
        /\ queued' \in [AnyTimer -> BOOLEAN] /\ owed' \in [AnyTimer -> BOOLEAN]
    BY <1>1, <1>4, <1>5, TimerFacts
  <2>3. /\ free' \in [Pool -> Seq(Entry)] /\ period' \in [User -> Period]
        /\ timerTask' \in {"fetch", "callback", "check", "asleep"}
    BY <1>4 DEF TimerIInv, TimerTypeOK
  <2> QED
    BY <1>6, <1>13, <2>1, <2>2, <2>3, TimerTypes
<1>16. InPlace' /\ FreeOnce' /\ NoSleptExpiry'
  <2>1. \A e \in Entry : /\ e \in Members(running') <=> e \in Members(running)
                         /\ e \in Members(ready') <=> e \in Members(ready)
    BY <1>1, <1>11, <1>13
  <2>2. InPlace' /\ FreeOnce'
    BY <1>4, <2>1 DEF TimerIInv, InPlace, FreeOnce
  <2>3. NoSleptExpiry'
    BY <1>4, <1>13, NoneSlept
  <2> QED
    BY <2>2, <2>3
<1> QED
  BY <1>12, <1>14, <1>15, <1>16 DEF TimerIInv

\* The countdowns after a step that leaves the list of a record.
LEMMA StillCounting ==
    ASSUME NEW r \in Countdowns, running' = r.list, ticksLeft' = r.ticks, DeltaOf(r, until'),
           Members(r.list) = {t \in AnyTimer : active'[t]},
           \A t \in AnyTimer :
              paused'[t] => ~active'[t] /\ t \in User /\ r.ticks[t] = until'[t]
    PROVE  CountingDown' /\ running' \in Seq(AnyTimer) /\ ticksLeft' \in [AnyTimer -> Nat]
<1>1. Now' = r
  BY NowAfter
<1> QED
  BY <1>1 DEF CountingDown, Countdowns

\* A step that moves no entry of a pool leaves each in its place.
LEMMA StillInPlace ==
    ASSUME TimerIInv, UNCHANGED free,
           \A e \in Entry : /\ e \in Members(running') <=> e \in Members(running)
                            /\ e \in Members(ready') <=> e \in Members(ready)
    PROVE  InPlace' /\ FreeOnce'
BY DEF TimerIInv, InPlace, FreeOnce

\* A pause takes the time left with it, and leaves an expiry to be delivered.
LEMMA PauseKeeps ==
    ASSUME TimerIInv, NEW t \in User, PauseTimer(t)
    PROVE  TimerIInv'
<1> DEFINE r == Removed(Now, t)
<1>1. t \in AnyTimer /\ t \notin Entry
  BY TimerAssumption DEF User, AnyTimer
<1>2. running' = r.list /\ ticksLeft' = r.ticks
  BY DEF PauseTimer, SetRunning
<1>3. /\ active[t]
      /\ active' = [active EXCEPT ![t] = FALSE]
      /\ paused' = [paused EXCEPT ![t] = TRUE]
      /\ UNCHANGED <<ready, free, queued, period, timerTask, until, owed>>
  BY DEF PauseTimer
<1>4. /\ Becomes(r, Now, until, Members(running) \ {t}, Members(running))
      /\ r.ticks[t] = until[t]
  <2>1. Now.list = running /\ Now.ticks = ticksLeft /\ t \in Members(running)
    BY <1>1, <1>3, TimerFacts
  <2> HIDE DEF r
  <2>2. r = Removed(Now, t)
    BY DEF r
  <2>3. Now \in Countdowns /\ DeltaOf(Now, until) /\ until \in Times
    BY TimerFacts
  <2> HIDE DEF Now
  <2>4. /\ Becomes(r, Now, until, Members(Now.list) \ {t}, Members(Now.list))
        /\ r.ticks[t] = IF t \in Members(Now.list) THEN until[t] ELSE Now.ticks[t]
    BY <1>1, <2>2, <2>3, RemovedExact
  <2> QED
    BY <2>1, <2>4
<1> HIDE DEF r
<1>5. \A u \in AnyTimer : /\ active'[u] <=> active[u] /\ u # t
                          /\ paused'[u] <=> paused[u] \/ u = t
  BY <1>1, <1>3, TimerFacts
<1>6. Members(r.list) = {u \in AnyTimer : active'[u]}
  BY <1>4, <1>5, TimerFacts DEF Becomes
<1>7. ASSUME NEW u \in AnyTimer, paused'[u]
      PROVE  ~active'[u] /\ u \in User /\ r.ticks[u] = until'[u]
  <2>1. CASE u = t
    BY <1>3, <1>4, <1>5, <2>1
  <2>2. CASE u # t
    <3>1. ~active[u] /\ u \in User /\ ticksLeft[u] = until[u] /\ u \notin Members(running)
      BY <1>5, <1>7, <2>2, TimerFacts DEF TimerIInv, CountingDown
    <3>2. r.ticks[u] = ticksLeft[u]
      BY <1>4, <3>1, TimerFacts DEF Becomes
    <3> QED
      BY <1>3, <1>5, <3>1, <3>2
  <2> QED
    BY <2>1, <2>2
<1>8. CountingDown' /\ running' \in Seq(AnyTimer) /\ ticksLeft' \in [AnyTimer -> Nat]
  <2>1. r \in Countdowns /\ DeltaOf(r, until')
    BY <1>3, <1>4 DEF Becomes
  <2> QED
    BY <1>2, <1>6, <1>7, <2>1, StillCounting
<1>9. TimerTypeOK'
  <2>1. active' \in [AnyTimer -> BOOLEAN] /\ paused' \in [AnyTimer -> BOOLEAN]
    BY <1>1, <1>3, TimerFacts
  <2>2. timerTask' \in {"fetch", "callback", "check", "asleep"}
    BY <1>3 DEF TimerIInv, TimerTypeOK
  <2> QED
    BY <1>3, <1>8, <2>1, <2>2, TimerFacts, TimerTypes
<1>10. DeliveriesOwed' /\ NoSleptExpiry'
  BY <1>3 DEF TimerIInv, DeliveriesOwed, NoSleptExpiry
<1>11. InPlace' /\ FreeOnce'
  <2>1. Members(running') = Members(running) \ {t}
    BY <1>2, <1>4 DEF Becomes
  <2> QED
    BY <1>1, <1>3, <2>1, StillInPlace
<1> QED
  BY <1>8, <1>9, <1>10, <1>11 DEF TimerIInv

\* A stop takes the timer off both lists.
LEMMA StopKeeps ==
    ASSUME TimerIInv, NEW t \in User, StopTimer(t)
    PROVE  TimerIInv'
<1> DEFINE r == Removed(Now, t)
<1>1. t \in AnyTimer /\ t \notin Entry
  BY TimerAssumption DEF User, AnyTimer
<1>2. running' = r.list /\ ticksLeft' = r.ticks
  BY DEF StopTimer, Detach, SetRunning
<1>3. /\ ready' = Unlinked(ready, t)
      /\ queued' = [queued EXCEPT ![t] = FALSE]
      /\ active' = [active EXCEPT ![t] = FALSE]
      /\ paused' = [paused EXCEPT ![t] = FALSE]
      /\ until' = [until EXCEPT ![t] = 0]
      /\ owed' = [owed EXCEPT ![t] = FALSE]
      /\ UNCHANGED <<free, period, timerTask>>
  BY DEF StopTimer, Detach
<1>4. Becomes(r, Now, until, Members(running) \ {t}, Members(running))
  <2>1. Now.list = running /\ Now.ticks = ticksLeft
    BY TimerFacts
  <2> HIDE DEF r
  <2>2. r = Removed(Now, t)
    BY DEF r
  <2>3. Now \in Countdowns /\ DeltaOf(Now, until) /\ until \in Times
    BY TimerFacts
  <2> HIDE DEF Now
  <2>4. /\ Becomes(r, Now, until, Members(Now.list) \ {t}, Members(Now.list))
        /\ r.ticks[t] = IF t \in Members(Now.list) THEN until[t] ELSE Now.ticks[t]
    BY <1>1, <2>2, <2>3, RemovedExact
  <2> QED
    BY <2>1, <2>4
<1> HIDE DEF r
<1>5. \A u \in AnyTimer : /\ active'[u] <=> active[u] /\ u # t
                          /\ paused'[u] <=> paused[u] /\ u # t
                          /\ queued'[u] <=> queued[u] /\ u # t
                          /\ owed'[u] <=> owed[u] /\ u # t
                          /\ u # t => until'[u] = until[u]
  BY <1>1, <1>3, TimerFacts
<1>6. Members(r.list) = {u \in AnyTimer : active'[u]}
  BY <1>4, <1>5, TimerFacts DEF Becomes
<1>7. ASSUME NEW u \in AnyTimer, paused'[u]
      PROVE  ~active'[u] /\ u \in User /\ r.ticks[u] = until'[u]
  <2>1. u # t /\ ~active[u] /\ u \in User /\ ticksLeft[u] = until[u] /\ u \notin Members(running)
    BY <1>5, <1>7, TimerFacts DEF TimerIInv, CountingDown
  <2>2. r.ticks[u] = ticksLeft[u]
    BY <1>4, <2>1, TimerFacts DEF Becomes
  <2> QED
    BY <1>5, <2>1, <2>2
<1>8. CountingDown' /\ running' \in Seq(AnyTimer) /\ ticksLeft' \in [AnyTimer -> Nat]
  <2>1. r \in Countdowns /\ r.list \in Seq(AnyTimer) /\ DeltaOf(r, until)
    BY <1>4 DEF Becomes, Countdowns
  <2>2. \A u \in Members(r.list) : until'[u] = until[u]
    BY <1>4, <1>5, TimerFacts DEF Becomes
  <2>3. DeltaOf(r, until')
    BY <2>1, <2>2, OtherTimes
  <2> QED
    BY <1>2, <1>6, <1>7, <2>1, <2>3, StillCounting
<1>9. /\ ready' \in Seq(AnyTimer) /\ NoRepeat(ready')
      /\ Members(ready') = Members(ready) \ {t}
  BY <1>1, <1>3, TimerFacts, UnlinkedMembers
<1>10. DeliveriesOwed'
  <2>1. Members(ready') = {u \in AnyTimer : owed'[u]}
    BY <1>5, <1>9, TimerFacts
  <2>2. Members(ready') = {u \in AnyTimer : queued'[u]}
    BY <1>5, <1>9, TimerFacts
  <2> QED
    BY <1>9, <2>1, <2>2 DEF DeliveriesOwed
<1>11. NoSleptExpiry'
  BY <1>3, <1>9, NoneSlept
<1>12. TimerTypeOK'
  <2>1. /\ active' \in [AnyTimer -> BOOLEAN] /\ paused' \in [AnyTimer -> BOOLEAN]
        /\ queued' \in [AnyTimer -> BOOLEAN] /\ owed' \in [AnyTimer -> BOOLEAN]
        /\ until' \in [AnyTimer -> Nat]
    BY <1>1, <1>3, TimerFacts
  <2>2. timerTask' \in {"fetch", "callback", "check", "asleep"}
    BY <1>3 DEF TimerIInv, TimerTypeOK
  <2> QED
    BY <1>3, <1>8, <1>9, <2>1, <2>2, TimerFacts, TimerTypes
<1>13. InPlace' /\ FreeOnce'
  <2>1. Members(running') = Members(running) \ {t}
    BY <1>2, <1>4 DEF Becomes
  <2> QED
    BY <1>1, <1>3, <1>9, <2>1, StillInPlace
<1> QED
  BY <1>8, <1>10, <1>11, <1>12, <1>13 DEF TimerIInv

\* A period that changes while the timer runs counts from its next start.
LEMMA SetPeriodKeeps ==
    ASSUME TimerIInv, NEW t \in User, NEW p \in Period, SetPeriod(t, p)
    PROVE  TimerIInv'
<1>1. period' \in [User -> Period]
  BY TimerFacts DEF SetPeriod
<1> QED
  BY <1>1 DEF SetPeriod, TimerIInv, TimerTypeOK, CountingDown, DeltaOf, Now, DeliveriesOwed,
              InPlace, FreeOnce, NoSleptExpiry

\* The timer task's steps that deliver nothing.
LEMMA TaskStepKeeps ==
    ASSUME TimerIInv, FetchNothing \/ CallbackReturns \/ CheckAndSleep
    PROVE  TimerIInv'
<1>1. /\ UNCHANGED <<running, ready, free, active, paused, queued, ticksLeft, period, until, owed>>
      /\ timerTask' \in {"fetch", "callback", "check", "asleep"}
      /\ timerTask' = "asleep" => ready = << >>
  BY DEF FetchNothing, CallbackReturns, CheckAndSleep, NothingReady
<1> QED
  BY <1>1 DEF TimerIInv, TimerTypeOK, CountingDown, DeltaOf, Now, DeliveriesOwed, InPlace,
              FreeOnce, NoSleptExpiry

\* A delivery takes the timer off the ready list and, once it is finished, an
\* entry back to its pool.
LEMMA FetchKeeps ==
    ASSUME TimerIInv, Fetch
    PROVE  TimerIInv'
<1> DEFINE t == Head(ready)
<1>1. /\ ready # << >> /\ timerTask' = "callback"
      /\ ready' = Tail(ready)
      /\ queued' = [queued EXCEPT ![t] = FALSE]
      /\ owed' = [owed EXCEPT ![t] = FALSE]
      /\ SetRunning(IF ~active[t] /\ ~paused[t] THEN Removed(Now, t) ELSE Now)
      /\ free' = IF ~active[t] /\ ~paused[t] THEN SlotBack(t) ELSE free
      /\ UNCHANGED <<active, paused, period, until>>
  BY DEF Fetch
<1>2. /\ t \in AnyTimer /\ t \in Members(ready)
      /\ ready' \in Seq(AnyTimer) /\ NoRepeat(ready')
      /\ Members(ready') = Members(ready) \ {t}
  BY <1>1, TimerFacts, TailMembers
<1> HIDE DEF t
<1>3. running' = running /\ ticksLeft' = ticksLeft
  <2>1. ~active[t] => Removed(Now, t) = Now
    BY <1>2, TimerFacts DEF Removed, Linked
  <2>2. SetRunning(Now)
    BY <1>1, <2>1
  <2> QED
    BY <2>2, TimerFacts DEF SetRunning
<1>4. t \in Entry => ~active[t] /\ ~paused[t]
  <2>1. t \in Entry => t \notin Members(running) /\ t \notin User
    BY <1>2, TimerAssumption DEF TimerIInv, InPlace, User
  <2> QED
    BY <1>2, <2>1, TimerFacts DEF TimerIInv, CountingDown
<1>5. /\ t \in Entry => free' = [free EXCEPT ![PoolOf[t]] = ListPushBack(@, t)]
      /\ t \notin Entry => free' = free
  BY <1>1, <1>4 DEF SlotBack
<1>6. CountingDown'
  BY <1>1, <1>3 DEF TimerIInv, CountingDown, DeltaOf, Now
<1>7. DeliveriesOwed'
  <2>1. \A u \in AnyTimer : /\ owed'[u] <=> owed[u] /\ u # t
                            /\ queued'[u] <=> queued[u] /\ u # t
    BY <1>1, <1>2, TimerFacts
  <2>2. Members(ready') = {u \in AnyTimer : owed'[u]}
    BY <1>2, <2>1, TimerFacts
  <2>3. Members(ready') = {u \in AnyTimer : queued'[u]}
    BY <1>2, <2>1, TimerFacts
  <2> QED
    BY <1>2, <2>2, <2>3 DEF DeliveriesOwed
<1>8. NoSleptExpiry'
  BY <1>1 DEF NoSleptExpiry
<1>9. free' \in [Pool -> Seq(Entry)] /\ InPlace' /\ FreeOnce'
  <2>1. CASE t \notin Entry
    <3>1. \A e \in Entry : e \in Members(ready') <=> e \in Members(ready)
      BY <1>2, <2>1
    <3> QED
      BY <1>3, <1>5, <2>1, <3>1, TimerFacts, StillInPlace
  <2>2. CASE t \in Entry
    <3> DEFINE p == PoolOf[t]
    <3>1. p \in Pool /\ free[p] \in Seq(Entry) /\ NoRepeat(free[p]) /\ t \notin Members(free[p])
          /\ Members(free[p]) \subseteq {e \in Entry : PoolOf[e] = p}
      BY <1>2, <2>2, TimerAssumption, TimerFacts DEF TimerIInv, InPlace, FreeOnce
    <3>2. free' = [free EXCEPT ![p] = ListPushBack(free[p], t)]
      BY <1>5, <2>2
    <3>3. /\ ListPushBack(free[p], t) \in Seq(Entry) /\ NoRepeat(ListPushBack(free[p], t))
          /\ Members(ListPushBack(free[p], t)) = Members(free[p]) \cup {t}
      BY <2>2, <3>1, PushBackMembers
    <3>4. free' \in [Pool -> Seq(Entry)] /\ free'[p] = ListPushBack(free[p], t)
          /\ \A q \in Pool : q # p => free'[q] = free[q]
      BY <3>1, <3>2, <3>3, TimerFacts
    <3>5. FreeOnce'
      <4>1. PoolOf[t] = p
        OBVIOUS
      <4> HIDE DEF p
      <4>2. ASSUME NEW q \in Pool
            PROVE  /\ NoRepeat(free'[q])
                   /\ Members(free'[q]) \subseteq {e \in Entry : PoolOf[e] = q}
        <5>1. CASE q = p
          BY <2>2, <3>1, <3>3, <3>4, <4>1, <5>1
        <5>2. CASE q # p
          BY <3>4, <5>2 DEF TimerIInv, FreeOnce
        <5> QED
          BY <5>1, <5>2
      <4> QED
        BY <4>2 DEF FreeOnce
    <3>6. InPlace'
      <4>1. ASSUME NEW e \in Entry
            PROVE  e \in Members(free'[PoolOf[e]]) <=> e \in Members(free[PoolOf[e]]) \/ e = t
        <5>1. PoolOf[e] \in Pool
          BY TimerAssumption
        <5> QED
          BY <3>3, <3>4, <5>1
      <4>2. t \notin Members(running)
        BY <1>2, <2>2 DEF TimerIInv, InPlace
      <4>3. ASSUME NEW e \in Entry
            PROVE  /\ e \in Members(free'[PoolOf[e]])
                         <=> e \notin Members(running') /\ e \notin Members(ready')
                   /\ e \notin Members(running') \/ e \notin Members(ready')
        <5>1. /\ e \in Members(free[PoolOf[e]])
                    <=> e \notin Members(running) /\ e \notin Members(ready)
              /\ e \notin Members(running) \/ e \notin Members(ready)
          BY DEF TimerIInv, InPlace
        <5> QED
          BY <1>2, <1>3, <4>1, <4>2, <5>1
      <4> QED
        BY <4>3 DEF InPlace
    <3> QED
      BY <3>4, <3>5, <3>6
  <2> QED
    BY <2>1, <2>2
<1>10. TimerTypeOK'
  <2>1. queued' \in [AnyTimer -> BOOLEAN] /\ owed' \in [AnyTimer -> BOOLEAN]
    BY <1>1, <1>2, TimerFacts
  <2> QED
    BY <1>1, <1>2, <1>3, <1>9, <2>1, TimerFacts, TimerTypes
<1> QED
  BY <1>6, <1>7, <1>8, <1>9, <1>10 DEF TimerIInv

\* What taking an entry out of its pool leaves.
LEMMA SlotTaken ==
    ASSUME TimerIInv, NEW pool \in Pool, free[pool] # << >>,
           free' = [free EXCEPT ![pool] = Tail(@)]
    PROVE  /\ Head(free[pool]) \in Entry /\ Head(free[pool]) \in AnyTimer
           /\ Head(free[pool]) \notin Members(running) /\ Head(free[pool]) \notin Members(ready)
           /\ free' \in [Pool -> Seq(Entry)] /\ FreeOnce'
           /\ \A x \in Entry : x \in Members(free'[PoolOf[x]])
                                  <=> x \in Members(free[PoolOf[x]]) /\ x # Head(free[pool])
<1> DEFINE e == Head(free[pool])
<1>1. /\ free[pool] \in Seq(Entry) /\ NoRepeat(free[pool])
      /\ Members(free[pool]) \subseteq {x \in Entry : PoolOf[x] = pool}
  BY TimerFacts DEF TimerIInv, FreeOnce
<1>2. /\ e \in Entry /\ e \in Members(free[pool])
      /\ Tail(free[pool]) \in Seq(Entry) /\ NoRepeat(Tail(free[pool]))
      /\ Members(Tail(free[pool])) = Members(free[pool]) \ {e}
  BY <1>1, TailMembers
<1>3. e \in AnyTimer /\ PoolOf[e] = pool
  BY <1>1, <1>2 DEF AnyTimer
<1> HIDE DEF e
<1>4. e \notin Members(running) /\ e \notin Members(ready)
  BY <1>2, <1>3 DEF TimerIInv, InPlace
<1>5. /\ free' \in [Pool -> Seq(Entry)] /\ free'[pool] = Tail(free[pool])
      /\ \A q \in Pool : q # pool => free'[q] = free[q]
  BY <1>2, TimerFacts
<1>6. ASSUME NEW q \in Pool
      PROVE  /\ NoRepeat(free'[q])
             /\ Members(free'[q]) \subseteq {x \in Entry : PoolOf[x] = q}
  <2>1. CASE q = pool
    BY <1>1, <1>2, <1>5, <2>1
  <2>2. CASE q # pool
    BY <1>5, <2>2 DEF TimerIInv, FreeOnce
  <2> QED
    BY <2>1, <2>2
<1>7. ASSUME NEW x \in Entry
      PROVE  x \in Members(free'[PoolOf[x]]) <=> x \in Members(free[PoolOf[x]]) /\ x # e
  <2>1. PoolOf[x] \in Pool
    BY TimerAssumption
  <2> QED
    BY <1>2, <1>3, <1>5, <2>1
<1>8. FreeOnce'
  BY <1>6 DEF FreeOnce
<1> QED
  BY <1>2, <1>3, <1>4, <1>5, <1>7, <1>8 DEF e

\* A submission takes an entry out of its pool: it counts down, or is delivered
\* at once.
LEMMA SubmitKeeps ==
    ASSUME TimerIInv, NEW pool \in Pool, Submit(pool)
    PROVE  TimerIInv'
<1> DEFINE e == Head(free[pool])
           delay == PoolDelay[pool]
<1>1. /\ free[pool] # << >>
      /\ free' = [free EXCEPT ![pool] = Tail(@)]
      /\ paused' = [paused EXCEPT ![e] = FALSE]
      /\ active' = [active EXCEPT ![e] = delay # 0]
      /\ until' = [until EXCEPT ![e] = delay]
      /\ UNCHANGED period
  BY DEF Submit
<1>2. delay = 0 => /\ ticksLeft' = [ticksLeft EXCEPT ![e] = 0]
                   /\ queued' = [queued EXCEPT ![e] = TRUE]
                   /\ owed' = [owed EXCEPT ![e] = TRUE]
                   /\ ready' = ListPushBack(ready, e)
                   /\ timerTask' = IF timerTask = "asleep" THEN "fetch" ELSE timerTask
                   /\ UNCHANGED running
  BY DEF Submit, WakeTimerTask
<1>3. delay # 0 => /\ SetRunning(Inserted([Now EXCEPT !.ticks[e] = delay], e))
                   /\ UNCHANGED <<ready, queued, owed, timerTask>>
  BY DEF Submit
<1>4. delay \in Nat
  BY TimerAssumption
<1>5. /\ e \in Entry /\ e \in AnyTimer
      /\ e \notin Members(running) /\ e \notin Members(ready)
      /\ free' \in [Pool -> Seq(Entry)] /\ FreeOnce'
      /\ \A x \in Entry :
            x \in Members(free'[PoolOf[x]]) <=> x \in Members(free[PoolOf[x]]) /\ x # e
  BY <1>1, SlotTaken
<1> HIDE DEF e, delay
<1>6. e \notin User /\ ~active[e] /\ ~paused[e]
  <2>1. e \notin User
    BY <1>5, TimerAssumption DEF User
  <2> QED
    BY <1>5, <2>1, TimerFacts DEF TimerIInv, CountingDown
<1>7. \A u \in AnyTimer : /\ paused'[u] <=> paused[u]
                          /\ active'[u] <=> active[u] \/ (u = e /\ delay # 0)
                          /\ u # e => until'[u] = until[u]
                          /\ u = e => until'[u] = delay
  BY <1>1, <1>5, <1>6, TimerFacts
<1>8. /\ active' \in [AnyTimer -> BOOLEAN] /\ paused' \in [AnyTimer -> BOOLEAN]
      /\ until' \in [AnyTimer -> Nat] /\ until' \in Times
  BY <1>1, <1>4, <1>5, TimerFacts DEF Times
<1>9. \A u \in AnyTimer : paused'[u] => /\ ~active'[u] /\ u \in User /\ u # e
                                        /\ ticksLeft[u] = until'[u] /\ u \notin Members(running)
  BY <1>6, <1>7, TimerFacts DEF TimerIInv, CountingDown
<1>10. \A u \in Members(running) : u # e /\ u \in AnyTimer /\ until'[u] = until[u]
  BY <1>5, <1>7, TimerFacts
<1>11. CASE delay = 0
  <2> DEFINE r == [list |-> running, ticks |-> [ticksLeft EXCEPT ![e] = 0]]
  <2>1. /\ r \in Countdowns /\ r.list = running
        /\ r.ticks = [ticksLeft EXCEPT ![e] = 0]
    BY <1>5, TimerFacts DEF Countdowns
  <2> HIDE DEF r
  <2>2. \A u \in AnyTimer : u # e => r.ticks[u] = ticksLeft[u]
    BY <2>1, TimerFacts
  <2>3. DeltaOf(r, until')
    <3>1. /\ Now.list \in Seq(AnyTimer) /\ DeltaOf(Now, until) /\ r.list = Now.list
          /\ \A u \in Members(Now.list) : until'[u] = until[u] /\ r.ticks[u] = Now.ticks[u]
      BY <1>10, <2>1, <2>2, TimerFacts
    <3> QED
      BY <3>1, OtherTimes
  <2>4. CountingDown' /\ running' \in Seq(AnyTimer) /\ ticksLeft' \in [AnyTimer -> Nat]
    <3>1. Members(r.list) = {u \in AnyTimer : active'[u]}
      BY <1>7, <1>11, <2>1, TimerFacts
    <3>2. running' = r.list /\ ticksLeft' = r.ticks
      BY <1>2, <1>11, <2>1
    <3>3. \A u \in AnyTimer : paused'[u] => ~active'[u] /\ u \in User /\ r.ticks[u] = until'[u]
      BY <1>9, <2>2
    <3> QED
      BY <2>1, <2>3, <3>1, <3>2, <3>3, StillCounting
  <2>5. /\ ready' \in Seq(AnyTimer) /\ NoRepeat(ready')
        /\ Members(ready') = Members(ready) \cup {e}
    <3>1. ready' = ListPushBack(ready, e)
      BY <1>2, <1>11
    <3>2. /\ ListPushBack(ready, e) \in Seq(AnyTimer) /\ NoRepeat(ListPushBack(ready, e))
          /\ Members(ListPushBack(ready, e)) = Members(ready) \cup {e}
      BY <1>5, TimerFacts, PushBackMembers
    <3> QED
      BY <3>1, <3>2
  <2>6. DeliveriesOwed'
    <3>1. \A u \in AnyTimer : /\ owed'[u] <=> owed[u] \/ u = e
                              /\ queued'[u] <=> queued[u] \/ u = e
      BY <1>2, <1>5, <1>11, TimerFacts
    <3>2. Members(ready') = {u \in AnyTimer : owed'[u]}
      BY <1>5, <2>5, <3>1, TimerFacts
    <3>3. Members(ready') = {u \in AnyTimer : queued'[u]}
      BY <1>5, <2>5, <3>1, TimerFacts
    <3> QED
      BY <2>5, <3>2, <3>3 DEF DeliveriesOwed
  <2>7. timerTask' \in {"fetch", "callback", "check"}
    BY <1>2, <1>11 DEF TimerIInv, TimerTypeOK
  <2>8. TimerTypeOK'
    <3>1. queued' \in [AnyTimer -> BOOLEAN] /\ owed' \in [AnyTimer -> BOOLEAN]
      BY <1>2, <1>5, <1>11, TimerFacts
    <3> QED
      BY <1>1, <1>5, <1>8, <2>4, <2>5, <2>7, <3>1, TimerFacts, TimerTypes
  <2>9. InPlace'
    BY <1>2, <1>5, <1>11, <2>5 DEF TimerIInv, InPlace
  <2>10. NoSleptExpiry'
    BY <2>7 DEF NoSleptExpiry
  <2> QED
    BY <1>5, <2>4, <2>6, <2>8, <2>9, <2>10 DEF TimerIInv
<1>12. CASE delay # 0
  <2> DEFINE d == [Now EXCEPT !.ticks[e] = delay]
             r == Inserted(d, e)
  <2>1. running' = r.list /\ ticksLeft' = r.ticks
    BY <1>3, <1>12 DEF SetRunning
  <2>2. /\ d \in Countdowns /\ d.list = running /\ d.ticks[e] = delay
        /\ \A u \in AnyTimer : u # e => d.ticks[u] = ticksLeft[u]
    <3>1. d = [list |-> running, ticks |-> [ticksLeft EXCEPT ![e] = delay]]
      BY DEF Now
    <3> QED
      BY <1>4, <1>5, <3>1, TimerFacts DEF Countdowns
  <2> HIDE DEF d
  <2>3. DeltaOf(d, until')
    <3>1. /\ Now.list \in Seq(AnyTimer) /\ DeltaOf(Now, until) /\ d.list = Now.list
          /\ \A u \in Members(Now.list) : until'[u] = until[u] /\ d.ticks[u] = Now.ticks[u]
      BY <1>10, <2>2, TimerFacts
    <3> QED
      BY <3>1, OtherTimes
  <2>4. Becomes(r, d, until', Members(running) \cup {e}, Members(running) \cup {e})
    <3>1. PICK time \in Times : time = until'
      BY <1>8
    <3>2. time[e] = d.ticks[e]
      BY <1>5, <1>7, <2>2, <3>1
    <3> QED
      BY <1>5, <2>2, <2>3, <3>1, <3>2, InsertedExact DEF r
  <2> HIDE DEF r
  <2>5. CountingDown' /\ running' \in Seq(AnyTimer) /\ ticksLeft' \in [AnyTimer -> Nat]
    <3>1. Members(r.list) = {u \in AnyTimer : active'[u]}
      BY <1>5, <1>7, <1>12, <2>4, TimerFacts DEF Becomes
    <3>2. \A u \in AnyTimer : paused'[u] => ~active'[u] /\ u \in User /\ r.ticks[u] = until'[u]
      BY <1>9, <2>2, <2>4 DEF Becomes
    <3>3. r \in Countdowns /\ DeltaOf(r, until')
      BY <2>4 DEF Becomes
    <3> QED
      BY <2>1, <3>1, <3>2, <3>3, StillCounting
  <2>6. DeliveriesOwed' /\ NoSleptExpiry'
    BY <1>3, <1>12 DEF TimerIInv, DeliveriesOwed, NoSleptExpiry
  <2>7. TimerTypeOK'
    <3>1. timerTask' \in {"fetch", "callback", "check", "asleep"}
      BY <1>3, <1>12 DEF TimerIInv, TimerTypeOK
    <3> QED
      BY <1>1, <1>3, <1>5, <1>8, <1>12, <2>5, <3>1, TimerFacts, TimerTypes
  <2>8. InPlace'
    <3>1. Members(running') = Members(running) \cup {e} /\ ready' = ready
      BY <1>3, <1>12, <2>1, <2>4 DEF Becomes
    <3> QED
      BY <1>5, <3>1 DEF TimerIInv, InPlace
  <2> QED
    BY <1>5, <2>5, <2>6, <2>7, <2>8 DEF TimerIInv
<1> QED
  BY <1>11, <1>12

\* A tick keeps the countdowns, re-arms the periodic timers that are due and
\* queues all that are due and not queued yet.
LEMMA TickKeeps ==
    ASSUME TimerIInv, NEW elapsed \in 1 .. MaxElapsed, TimerTick(elapsed)
    PROVE  TimerIInv'
<1> DEFINE n == Len(running)
           m == DueCount(elapsed)
           due == SubSeq(running, 1, m)
           c == Rest(m, elapsed)
           r == AllRearmed(c, due)
           noted == Noted(due)
<1>1. /\ SetRunning(r)
      /\ active' = [t \in AnyTimer |-> active[t] /\ (t \in Members(due) => t \in Periodic)]
      /\ queued' = [t \in AnyTimer |-> queued[t] \/ t \in Members(due)]
      /\ ready' = ready \o noted
      /\ IF noted = << >> THEN UNCHANGED timerTask ELSE WakeTimerTask
      /\ until' = [t \in AnyTimer |->
                      IF ~active[t] THEN until[t]
                      ELSE IF until[t] > elapsed THEN until[t] - elapsed
                      ELSE IF t \in Periodic THEN period[t] ELSE 0]
      /\ owed' = [t \in AnyTimer |-> owed[t] \/ (active[t] /\ until[t] <= elapsed)]
      /\ UNCHANGED <<free, paused, period>>
  BY DEF TimerTick, DueCount
<1>2. elapsed \in Nat
  BY TimerAssumption
<1>3. /\ n \in Nat /\ DOMAIN running = 1 .. n
      /\ \A k \in 1 .. n : running[k] \in AnyTimer /\ active[running[k]]
      /\ Members(running) = {running[k] : k \in 1 .. n}
      /\ NoRepeat(running)
  <2>1. running \in Seq(AnyTimer) /\ NoRepeat(running)
    BY TimerFacts DEF DeltaOf
  <2>2. n \in Nat /\ DOMAIN running = 1 .. n /\ \A k \in 1 .. n : running[k] \in AnyTimer
    BY <2>1, LenProperties, ElementOfSeq
  <2>3. \A k \in 1 .. n : running[k] \in Members(running)
    BY <2>2 DEF Members
  <2> QED
    BY <2>1, <2>2, <2>3, TimerFacts DEF Members
<1>4. m \in 0 .. n /\ \A k \in 1 .. n : k <= m <=> until[running[k]] <= elapsed
  BY <1>2, TimerFacts, DueAreFirst
<1>5. /\ due \in Seq(AnyTimer) /\ Len(due) = m /\ DOMAIN due = 1 .. m
      /\ \A k \in 1 .. m : due[k] = running[k] /\ k \in 1 .. n
      /\ NoRepeat(due)
      /\ Members(due) = {t \in AnyTimer : active[t] /\ until[t] <= elapsed}
  <2> HIDE DEF m
  <2>1. /\ due \in Seq(AnyTimer) /\ Len(due) = m
        /\ \A k \in 1 .. m : due[k] = running[k]
    <3>1. 1 \in 1 .. n + 1 /\ m \in 1 - 1 .. n /\ m - 1 + 1 = m
      BY <1>3, <1>4
    <3> HIDE DEF n
    <3>2. \A k \in 1 .. m : 1 + k - 1 = k
      BY <1>3, <1>4
    <3>3. \A k \in 1 .. Len(due) : due[k] = running[1 + k - 1]
      BY <3>1, TimerFacts, SubSeqProperties DEF n
    <3>4. due \in Seq(AnyTimer) /\ Len(due) = m
      <4>1. \A k \in 1 .. m : running[k] \in AnyTimer
        BY <1>3, <1>4
      <4>2. Len(due) = IF 1 <= m THEN m - 1 + 1 ELSE 0
        BY <3>1, TimerFacts, SubSeqProperties DEF n
      <4>3. Len(due) = m
        BY <1>3, <1>4, <4>2
      <4>4. due \in Seq(AnyTimer)
        BY <3>1, TimerFacts, SubSeqProperties DEF n
      <4> QED
        BY <4>3, <4>4
    <3> QED
      BY <3>2, <3>3, <3>4
  <2> HIDE DEF due
  <2>2. DOMAIN due = 1 .. m /\ \A k \in 1 .. m : k \in 1 .. n /\ k <= m
    <3>1. DOMAIN due = 1 .. Len(due)
      BY <2>1, LenProperties
    <3> QED
      BY <1>3, <1>4, <2>1, <3>1
  <2>3. NoRepeat(due)
    BY <1>3, <2>1, <2>2 DEF NoRepeat
  <2>4. ASSUME NEW t \in Members(due)
        PROVE  t \in AnyTimer /\ active[t] /\ until[t] <= elapsed
    BY <1>3, <1>4, <2>1, <2>2 DEF Members
  <2>5. ASSUME NEW t \in AnyTimer, active[t], until[t] <= elapsed
        PROVE  t \in Members(due)
    <3>1. PICK k \in 1 .. n : t = running[k]
      BY <1>3, <2>5, TimerFacts
    <3>2. k \in 1 .. m
      BY <1>3, <1>4, <2>5, <3>1
    <3> QED
      BY <2>1, <2>2, <3>1, <3>2 DEF Members
  <2>6. Members(due) = {t \in AnyTimer : active[t] /\ until[t] <= elapsed}
    BY <2>4, <2>5
  <2> QED
    BY <2>1, <2>2, <2>3, <2>6
<1> HIDE DEF due
<1>6. until' \in [AnyTimer -> Nat] /\ until' \in Times
  <2>1. \A t \in Periodic : t \in User /\ period[t] \in Nat
    BY TimerFacts DEF User
  <2>2. ASSUME NEW t \in AnyTimer
        PROVE  (IF ~active[t] THEN until[t]
                ELSE IF until[t] > elapsed THEN until[t] - elapsed
                ELSE IF t \in Periodic THEN period[t] ELSE 0) \in Nat
    <3>1. until[t] \in Nat
      BY TimerFacts
    <3> QED
      BY <1>2, <2>1, <3>1
  <2>3. until' \in [AnyTimer -> Nat]
    BY <1>1, <2>2
  <2> QED
    BY <2>3 DEF Times
<1>7. PICK time \in Times : time = until'
  BY <1>6
<1>8. /\ c \in Countdowns /\ DeltaOf(c, time)
      /\ Members(c.list) = {t \in AnyTimer : active[t] /\ ~(until[t] <= elapsed)}
      /\ \A u \in AnyTimer : u \notin Members(running) => c.ticks[u] = ticksLeft[u]
  <2>1. \A k \in m + 1 .. n : k \in 1 .. n /\ ~(k <= m)
    <3> HIDE DEF m, n
    <3> QED
      BY <1>3, <1>4
  <2>2. \A k \in m + 1 .. n : time[running[k]] = until[running[k]] - elapsed
    <3>1. ASSUME NEW k \in m + 1 .. n
          PROVE  time[running[k]] = until[running[k]] - elapsed
      <4>1. running[k] \in AnyTimer /\ active[running[k]] /\ ~(until[running[k]] <= elapsed)
        BY <1>3, <1>4, <2>1
      <4>2. until[running[k]] > elapsed
        BY <1>2, <4>1, TimerFacts
      <4> QED
        BY <1>1, <1>7, <4>1, <4>2
    <3> QED
      BY <3>1
  <2>3. /\ c \in Countdowns /\ DeltaOf(c, time)
        /\ Members(c.list) = {running[k] : k \in m + 1 .. n}
        /\ \A u \in AnyTimer : u \notin Members(running) => c.ticks[u] = ticksLeft[u]
    <3> HIDE DEF c
    <3>1. c = Rest(DueCount(elapsed), elapsed)
      BY DEF c
    <3> QED
      <4>1. running \in Seq(AnyTimer) /\ ticksLeft \in [AnyTimer -> Nat]
            /\ until \in [AnyTimer -> Nat] /\ DeltaOf(Now, until)
        BY TimerFacts
      <4>2. \A k \in DueCount(elapsed) + 1 .. Len(running) :
               time[running[k]] = until[running[k]] - elapsed
        BY <2>2
      <4> QED
        BY <1>2, <3>1, <4>1, <4>2, RestExact
  <2>4. ASSUME NEW t \in AnyTimer, active[t], ~(until[t] <= elapsed)
        PROVE  t \in {running[k] : k \in m + 1 .. n}
    <3>1. PICK k \in 1 .. n : t = running[k]
      BY <1>3, <2>4, TimerFacts
    <3>2. ~(k <= m)
      BY <1>4, <2>4, <3>1
    <3>3. k \in m + 1 .. n
      <4> HIDE DEF m, n
      <4> QED
        BY <1>3, <1>4, <3>2
    <3> QED
      BY <3>1, <3>3
  <2>5. ASSUME NEW k \in m + 1 .. n
        PROVE  running[k] \in AnyTimer /\ active[running[k]] /\ ~(until[running[k]] <= elapsed)
    BY <1>3, <1>4, <2>1
  <2> HIDE DEF c, m, n
  <2>6. Members(c.list) = {t \in AnyTimer : active[t] /\ ~(until[t] <= elapsed)}
    BY <2>3, <2>4, <2>5
  <2> QED
    BY <2>3, <2>6
<1> HIDE DEF c
<1>9. Becomes(r, c, time, Members(c.list) \cup (Members(due) \cap Periodic),
              Members(c.list) \cup Members(due))
  <2>1. \A t \in Members(due) : t \notin Members(c.list)
    BY <1>5, <1>8
  <2>2. \A t \in Members(due) : t \in Periodic => time[t] = period[t]
    <3>1. ASSUME NEW t \in Members(due), t \in Periodic
          PROVE  time[t] = period[t]
      <4>1. t \in AnyTimer /\ active[t] /\ ~(until[t] > elapsed)
        BY <1>2, <1>5, TimerFacts
      <4> QED
        BY <1>1, <1>7, <3>1, <4>1
    <3> QED
      BY <3>1
  <2> HIDE DEF r
  <2>3. r = AllRearmed(c, due)
    BY DEF r
  <2> QED
    BY <1>5, <1>8, <2>1, <2>2, <2>3, TimerFacts, AllRearmedExact
<1>10. running' = r.list /\ ticksLeft' = r.ticks
  BY <1>1 DEF SetRunning
<1> HIDE DEF r
<1>11. \A t \in AnyTimer : active'[t] <=> active[t] /\ (t \in Members(due) => t \in Periodic)
  BY <1>1, TimerFacts
<1>12. Members(r.list) = {t \in AnyTimer : active'[t]}
  <2>1. Members(r.list) = Members(c.list) \cup (Members(due) \cap Periodic)
    BY <1>9 DEF Becomes
  <2> QED
    BY <1>5, <1>8, <1>11, <2>1, TimerFacts
<1>13. CountingDown' /\ running' \in Seq(AnyTimer) /\ ticksLeft' \in [AnyTimer -> Nat]
  <2>1. ASSUME NEW u \in AnyTimer, paused'[u]
        PROVE  ~active'[u] /\ u \in User /\ r.ticks[u] = until'[u]
    <3>1. ~active[u] /\ u \in User /\ ticksLeft[u] = until[u] /\ u \notin Members(running)
      BY <1>1, <2>1, TimerFacts DEF TimerIInv, CountingDown
    <3>2. ~active'[u]
      BY <1>11, <3>1
    <3>3. u \notin Members(c.list) \cup Members(due)
      BY <1>5, <1>8, <3>1
    <3>4. r.ticks[u] = c.ticks[u]
      BY <1>9, <3>3 DEF Becomes
    <3>5. until'[u] = until[u]
      BY <1>1, <3>1
    <3> QED
      BY <1>8, <3>1, <3>2, <3>4, <3>5
  <2>2. r \in Countdowns /\ DeltaOf(r, until')
    BY <1>7, <1>9 DEF Becomes
  <2> QED
    BY <1>10, <1>12, <2>1, <2>2, StillCounting
<1>14. /\ noted \in Seq(AnyTimer) /\ NoRepeat(noted)
       /\ Members(noted) = Members(due) \ Members(ready)
  <2>1. Members(ready) = {t \in AnyTimer : queued[t]}
    BY TimerFacts
  <2>2. noted = ListWithout(due, Members(ready))
    BY <2>1 DEF Noted
  <2> QED
    BY <1>5, <2>2, WithoutMembers
<1> HIDE DEF noted
<1>15. /\ ready' \in Seq(AnyTimer) /\ NoRepeat(ready')
       /\ Members(ready') = Members(ready) \cup Members(due)
  <2>1. Members(ready) \cap Members(noted) = {}
    BY <1>14
  <2>2. /\ ready \o noted \in Seq(AnyTimer) /\ NoRepeat(ready \o noted)
        /\ Members(ready \o noted) = Members(ready) \cup Members(noted)
    BY <1>14, <2>1, TimerFacts, ConcatMembers
  <2> QED
    BY <1>1, <1>14, <2>2
<1>16. DeliveriesOwed'
  <2>1. \A t \in AnyTimer : /\ owed'[t] <=> owed[t] \/ t \in Members(due)
                            /\ queued'[t] <=> queued[t] \/ t \in Members(due)
    BY <1>1, <1>5, TimerFacts
  <2>2. Members(ready') = {t \in AnyTimer : owed'[t]}
    BY <1>5, <1>15, <2>1, TimerFacts
  <2>3. Members(ready') = {t \in AnyTimer : queued'[t]}
    BY <1>5, <1>15, <2>1, TimerFacts
  <2> QED
    BY <1>15, <2>2, <2>3 DEF DeliveriesOwed
<1>17. NoSleptExpiry'
  <2>1. CASE noted = << >>
    <3>1. Members(noted) = {}
      BY <1>14, <2>1, MembersOfSeq
    <3>2. Members(ready') \subseteq Members(ready)
      BY <1>14, <1>15, <3>1
    <3> QED
      BY <1>1, <1>15, <2>1, <3>2, NoneSlept
  <2>2. CASE noted # << >>
    BY <1>1, <2>2 DEF WakeTimerTask, NoSleptExpiry
  <2> QED
    BY <2>1, <2>2
<1>18. TimerTypeOK'
  <2>1. /\ active' \in [AnyTimer -> BOOLEAN] /\ paused' \in [AnyTimer -> BOOLEAN]
        /\ queued' \in [AnyTimer -> BOOLEAN] /\ owed' \in [AnyTimer -> BOOLEAN]
    BY <1>1, TimerFacts, Zenon
  <2>2. timerTask' \in {"fetch", "callback", "check", "asleep"}
    BY <1>1 DEF TimerIInv, TimerTypeOK, WakeTimerTask
  <2> QED
    BY <1>1, <1>6, <1>13, <1>15, <2>1, <2>2, TimerFacts, TimerTypes
<1>19. InPlace' /\ FreeOnce'
  <2>1. ASSUME NEW e \in Entry
        PROVE  /\ e \in Members(running') <=> e \in Members(running) /\ e \notin Members(due)
               /\ e \in Members(ready') <=> e \in Members(ready) \/ e \in Members(due)
               /\ e \in Members(due) => e \in Members(running)
    <3>1. e \in AnyTimer /\ e \notin Periodic
      BY TimerAssumption DEF AnyTimer
    <3> QED
      BY <1>5, <1>10, <1>11, <1>12, <1>15, <3>1, TimerFacts
  <2> QED
    BY <1>1, <2>1 DEF TimerIInv, InPlace, FreeOnce
<1> QED
  BY <1>13, <1>16, <1>17, <1>18, <1>19 DEF TimerIInv

\* A finite set in some order lists every element once.
LEMMA SetToSeqMembers ==
    ASSUME NEW S, IsFiniteSet(S)
    PROVE  /\ SetToSeq(S) \in Seq(S) /\ NoRepeat(SetToSeq(S))
           /\ Members(SetToSeq(S)) = S
<1> DEFINE n == Cardinality(S)
           s == SetToSeq(S)
<1>1. n \in Nat /\ ExistsBijection(1 .. n, S)
  BY FS_CardinalityType
<1>2. \E f \in [1 .. n -> S] : IsInjective(f)
  BY <1>1 DEF ExistsBijection, Bijection, Injection
<1>3. s \in [1 .. n -> S] /\ IsInjective(s)
  BY <1>2 DEF SetToSeq
<1> HIDE DEF s
<1>4. s \in Seq(S) /\ DOMAIN s = 1 .. n /\ Len(s) = n
  <2> HIDE DEF n
  <2>1. s \in Seq(S)
    BY <1>1, <1>3, SeqDef
  <2>2. DOMAIN s = 1 .. n
    BY <1>3
  <2> QED
    BY <1>1, <2>1, <2>2, LenProperties
<1>5. NoRepeat(s)
  BY <1>3 DEF IsInjective, NoRepeat
<1>6. Members(s) = S
  <2>1. s \in Injection(1 .. n, S)
    BY <1>3 DEF Injection
  <2>2. IsFiniteSet(1 .. n) /\ Cardinality(1 .. n) = n
    <3> HIDE DEF n
    <3> QED
      BY <1>1, FS_Interval
  <2>3. s \in Surjection(1 .. n, S)
    BY <2>1, <2>2, FS_Injection
  <2> QED
    BY <1>4, <2>3 DEF Surjection, Members
<1> QED
  BY <1>4, <1>5, <1>6 DEF s

\* os_timer_system_init.
LEMMA TimerInitHolds == TimerInit => TimerIInv
<1>1. SUFFICES ASSUME TimerInit
               PROVE  TimerIInv
  OBVIOUS
<1>2. /\ running = << >> /\ ready = << >>
      /\ free = [pool \in Pool |-> Prepared(pool)]
      /\ active = [t \in AnyTimer |-> FALSE]
      /\ paused = [t \in AnyTimer |-> FALSE]
      /\ queued = [t \in AnyTimer |-> FALSE]
      /\ ticksLeft = [t \in AnyTimer |-> 0]
      /\ period \in [User -> Period]
      /\ timerTask = "fetch"
      /\ until = [t \in AnyTimer |-> 0]
      /\ owed = [t \in AnyTimer |-> FALSE]
  BY <1>1 DEF TimerInit
<1>3. Members(<< >>) = {} /\ NoRepeat(<< >>) /\ << >> \in Seq(AnyTimer) /\ DOMAIN << >> = {}
  BY DEF Members, NoRepeat
<1>4. ASSUME NEW pool \in Pool
      PROVE  /\ Prepared(pool) \in Seq(Entry) /\ NoRepeat(Prepared(pool))
             /\ Members(Prepared(pool)) = {e \in Entry : PoolOf[e] = pool}
  <2> DEFINE mine == {e \in Entry : PoolOf[e] = pool}
  <2>1. mine \subseteq Entry /\ IsFiniteSet(mine)
    BY TimerAssumption, FS_Subset
  <2> HIDE DEF mine
  <2>2. /\ SetToSeq(mine) \in Seq(mine) /\ NoRepeat(SetToSeq(mine))
        /\ Members(SetToSeq(mine)) = mine
    BY <2>1, SetToSeqMembers
  <2>3. SetToSeq(mine) \in Seq(Entry)
    <3>1. PICK s : s = SetToSeq(mine)
      OBVIOUS
    <3>2. s \in Seq(Entry)
      BY <2>1, <2>2, <3>1
    <3> QED
      BY <3>1, <3>2
  <2> QED
    BY <2>2, <2>3 DEF Prepared, mine
<1>5. TimerTypeOK
  <2>1. free \in [Pool -> Seq(Entry)]
    BY <1>2, <1>4
  <2> QED
    BY <1>2, <1>3, <2>1 DEF TimerTypeOK
<1>6. CountingDown
  BY <1>2, <1>3 DEF CountingDown, DeltaOf, Now
<1>7. DeliveriesOwed
  BY <1>2, <1>3 DEF DeliveriesOwed
<1>8. InPlace /\ FreeOnce
  <2>1. \A pool \in Pool : free[pool] = Prepared(pool)
    BY <1>2
  <2>2. \A e \in Entry : PoolOf[e] \in Pool
    BY TimerAssumption
  <2> QED
    BY <1>2, <1>3, <1>4, <2>1, <2>2 DEF InPlace, FreeOnce
<1>9. NoSleptExpiry
  BY <1>2 DEF NoSleptExpiry
<1> QED
  BY <1>5, <1>6, <1>7, <1>8, <1>9 DEF TimerIInv

\* The inductive invariant of the timers: the deltas of the running list add up
\* to the times left, the flags know the lists, and an entry is in one place.
THEOREM TimerInvariance == TimerSpec => []TimerIInv
<1>1. TimerIInv /\ [TimerNext]_timerVars => TimerIInv'
  <2> SUFFICES ASSUME TimerIInv, [TimerNext]_timerVars
               PROVE  TimerIInv'
    OBVIOUS
  <2>1. CASE \E t \in User : Arm(t, FALSE) \/ Arm(t, TRUE)
    BY <2>1, ArmKeeps
  <2>2. CASE \E t \in User : PauseTimer(t)
    BY <2>2, PauseKeeps
  <2>3. CASE \E t \in User : StopTimer(t)
    BY <2>3, StopKeeps
  <2>4. CASE \E t \in User, p \in Period : SetPeriod(t, p)
    BY <2>4, SetPeriodKeeps
  <2>5. CASE \E pool \in Pool : Submit(pool)
    BY <2>5, SubmitKeeps
  <2>6. CASE \E k \in 1 .. MaxElapsed : TimerTick(k)
    BY <2>6, TickKeeps
  <2>7. CASE Fetch
    BY <2>7, FetchKeeps
  <2>8. CASE FetchNothing \/ CallbackReturns \/ CheckAndSleep
    BY <2>8, TaskStepKeeps
  <2>9. CASE UNCHANGED timerVars
    BY <2>9 DEF timerVars, TimerIInv, TimerTypeOK, CountingDown, DeltaOf, Now, DeliveriesOwed,
                InPlace, FreeOnce, NoSleptExpiry
  <2> QED
    BY <2>1, <2>2, <2>3, <2>4, <2>5, <2>6, <2>7, <2>8, <2>9 DEF TimerNext
<1> QED
  BY <1>1, TimerInitHolds, PTL DEF TimerSpec

\* The sleep of the idle task: what the head alone says is the earliest expiry.
LEMMA NextIsEarliest ==
    ASSUME TimerIInv
    PROVE  /\ \A n \in NextExpiry :
                 n = Min({until[t] : t \in {u \in AnyTimer : active[u]}}
                            \cup {0 : t \in {u \in AnyTimer : owed[u]}})
           /\ NextExpiry = {} => \A t \in AnyTimer : ~active[t] /\ ~owed[t]
<1> DEFINE times == {until[t] : t \in {u \in AnyTimer : active[u]}}
                       \cup {0 : t \in {u \in AnyTimer : owed[u]}}
<1>1. times \subseteq Nat
  BY TimerFacts
<1>2. ready = << >> <=> \A t \in AnyTimer : ~owed[t]
  <2>1. ready = << >> <=> Members(ready) = {}
    BY TimerFacts, MembersOfSeq
  <2> QED
    BY <2>1, TimerFacts
<1>3. running = << >> <=> \A t \in AnyTimer : ~active[t]
  <2>1. running = << >> <=> Members(running) = {}
    BY TimerFacts, MembersOfSeq
  <2> QED
    BY <2>1, TimerFacts
<1>4. CASE ready # << >>
  <2>1. 0 \in times
    BY <1>2, <1>4
  <2> HIDE DEF times
  <2>2. Min(times) \in Nat /\ Min(times) <= 0
    BY <1>1, <2>1, MinIsLeast
  <2>3. Min(times) = 0
    BY <2>2
  <2> QED
    BY <1>4, <2>3 DEF NextExpiry, times
<1>5. CASE ready = << >> /\ running # << >>
  <2>1. /\ Len(running) \in Nat /\ Len(running) # 0 /\ DOMAIN running = 1 .. Len(running)
        /\ Head(running) = running[1]
        /\ Members(running) = {running[k] : k \in 1 .. Len(running)}
    BY <1>5, TimerFacts, LenProperties, EmptySeq, MembersOfSeq, HeadTailProperties
  <2>2. 1 \in 1 .. Len(running) /\ \A k \in 1 .. Len(running) : 1 <= k
    BY <2>1
  <2>3. ticksLeft[running[1]] = until[running[1]]
    <3>1. running[1] \in AnyTimer
      BY <2>2, TimerFacts, ElementOfSeq
    <3>2. ticksLeft[running[1]] = until[running[1]] - 0
      BY <2>1, <2>2, TimerFacts DEF DeltaOf
    <3> QED
      BY <3>1, <3>2, TimerFacts
  <2>4. \A k \in 1 .. Len(running) : until[running[1]] <= until[running[k]]
    <3>1. /\ Now.list \in Seq(AnyTimer) /\ Now.ticks \in [AnyTimer -> Nat]
          /\ until \in [AnyTimer -> Int] /\ DeltaOf(Now, until) /\ Now.list = running
      BY TimerFacts
    <3> QED
      BY <2>2, <3>1, Ascending
  <2>5. times = {until[t] : t \in Members(running)}
    BY <1>2, <1>5, TimerFacts
  <2>6. until[running[1]] \in times /\ \A x \in times : until[running[1]] <= x
    <3> HIDE DEF times
    <3> QED
      BY <2>1, <2>2, <2>4, <2>5
  <2> HIDE DEF times
  <2>7. Min(times) \in times /\ Min(times) <= until[running[1]]
    BY <1>1, <2>6, MinIsLeast
  <2>8. Min(times) = until[running[1]]
    <3>1. Min(times) \in Nat /\ until[running[1]] \in Nat /\ until[running[1]] <= Min(times)
      BY <1>1, <2>6, <2>7
    <3> QED
      BY <2>7, <3>1
  <2> QED
    BY <1>5, <2>1, <2>3, <2>8 DEF NextExpiry, times
<1>6. CASE ready = << >> /\ running = << >>
  BY <1>2, <1>3, <1>6 DEF NextExpiry
<1> QED
  BY <1>4, <1>5, <1>6

\* The running list is exact, and what the idle task may sleep through with it.
THEOREM CountdownsAlwaysExact == TimerSpec => []CountdownsExact
<1>1. TimerIInv => CountdownsExact
  <2> SUFFICES ASSUME TimerIInv
               PROVE  CountdownsExact
    OBVIOUS
  <2>1. \A k \in DOMAIN running : TicksTo(Now, k) = until[running[k]]
    <3>1. Now.list \in Seq(AnyTimer) /\ until \in [AnyTimer -> Int] /\ Now.list = running
      BY TimerFacts
    <3>2. \A k \in DOMAIN running : k \in 0 .. Len(Now.list) /\ k # 0
      BY <3>1, LenProperties
    <3> QED
      <4>1. DeltaOf(Now, until)
        BY TimerFacts
      <4>2. \A k \in 0 .. Len(Now.list) :
               TicksTo(Now, k) = IF k = 0 THEN 0 ELSE until[Now.list[k]]
        BY <3>1, <4>1, TicksToIs
      <4> QED
        BY <3>1, <3>2, <4>2
  <2>2. NoRepeat(running) /\ Members(running) = {t \in AnyTimer : active[t]}
    BY TimerFacts DEF DeltaOf
  <2>3. \A t \in AnyTimer : paused[t] => ticksLeft[t] = until[t]
    BY DEF TimerIInv, CountingDown
  <2> QED
    BY <2>1, <2>2, <2>3, NextIsEarliest DEF CountdownsExact
<1> QED
  BY <1>1, TimerInvariance, PTL

\* Every expiry is delivered once, no entry of a pool is lost or handed out
\* twice, and the timer task does not sleep on an expiry.
THEOREM DeliveriesAlwaysExact == TimerSpec => []DeliveriesExact
<1>1. TimerIInv => SlotsExact
  <2> SUFFICES ASSUME TimerIInv
               PROVE  SlotsExact
    OBVIOUS
  <2>1. \A pool \in Pool : NoRepeat(free[pool])
    BY DEF TimerIInv, FreeOnce
  <2>2. ASSUME NEW e \in Entry
        PROVE  Cardinality({l \in {"free", "running", "ready"} :
                   e \in Members(CASE l = "free" -> free[PoolOf[e]]
                                 [] l = "running" -> running
                                 [] l = "ready" -> ready)}) = 1
    <3> DEFINE places == {l \in {"free", "running", "ready"} :
                   e \in Members(CASE l = "free" -> free[PoolOf[e]]
                                 [] l = "running" -> running
                                 [] l = "ready" -> ready)}
    <3>1. /\ e \in Members(free[PoolOf[e]])
                <=> e \notin Members(running) /\ e \notin Members(ready)
          /\ e \notin Members(running) \/ e \notin Members(ready)
      BY DEF TimerIInv, InPlace
    <3>2. /\ "free" \in places <=> e \in Members(free[PoolOf[e]])
          /\ "running" \in places <=> e \in Members(running)
          /\ "ready" \in places <=> e \in Members(ready)
          /\ places \subseteq {"free", "running", "ready"}
      OBVIOUS
    <3> HIDE DEF places
    <3>3. places = {"free"} \/ places = {"running"} \/ places = {"ready"}
      BY <3>1, <3>2
    <3>4. Cardinality(places) = 1
      BY <3>3, FS_Singleton
    <3> QED
      BY <3>4 DEF places
  <2> QED
    BY <2>1, <2>2 DEF SlotsExact
<1>2. TimerIInv => DeliveriesExact
  BY <1>1 DEF TimerIInv, DeliveriesExact
<1> QED
  BY <1>2, TimerInvariance, PTL

\* The lists, the flags and the ticks keep their types.
THEOREM TimerTypesHold == TimerSpec => []TimerTypeOK
<1>1. TimerIInv => TimerTypeOK
  BY DEF TimerIInv
<1> QED
  BY <1>1, TimerInvariance, PTL

(***************************************************************************)
(* Windows on a counter that never stops.                                  *)
(***************************************************************************)

\* The lesser of two numbers.
LEMMA LesserOf ==
    ASSUME NEW a \in Nat, NEW b \in Nat
    PROVE  Min({a, b}) = IF a <= b THEN a ELSE b
<1>1. Min({a, b}) \in {a, b} /\ \A y \in {a, b} : Min({a, b}) <= y
  BY MinIsLeast
<1> QED
  BY <1>1

\* What the configuration the source insists on gives: a window can be armed before it is over the
\* longest one, and that is shorter than the counter is wide.
LEMMA WindowBounds ==
    /\ MaxCounts \in Nat /\ MaxCounts < Span
    /\ ArmCounts < MaxCounts
    /\ \A r \in Rates : r \in Nat /\ r > 0
<1>1. /\ Declared \in Nat /\ Declared > 0 /\ TickHz \in Nat /\ TickHz > 0
      /\ Span \in Nat /\ Span > 0 /\ ArmCounts \in Nat /\ ArmCounts > 0
      /\ Declared >= TickHz /\ ArmCounts * Declared < MaxCounts * TickHz
  BY WindowAssumption
<1>2. MaxCounts \in Nat /\ MaxCounts < Span
  BY <1>1, Z3 DEF MaxCounts
<1>3. ArmCounts < MaxCounts
  <2> SUFFICES ASSUME ArmCounts >= MaxCounts
               PROVE  FALSE
    BY <1>1, <1>2
  <2>1. ArmCounts * TickHz >= MaxCounts * TickHz
    BY <1>1, <1>2, Z3
  <2>2. ArmCounts * Declared >= ArmCounts * TickHz
    BY <1>1, Z3
  <2> HIDE DEF MaxCounts
  <2>3. /\ ArmCounts * TickHz \in Nat /\ MaxCounts * TickHz \in Nat
        /\ ArmCounts * Declared \in Nat
    BY <1>1, <1>2
  <2> QED
    BY <1>1, <2>1, <2>2, <2>3
<1>4. ASSUME NEW r \in Rates
      PROVE  r \in Nat /\ r > 0
  <2>1. Declared - Declared \div 4 > 0 /\ Declared \div 4 \in Nat
    BY <1>1, Z3
  <2> QED
    BY <1>1, <1>4, <2>1 DEF Rates
<1> QED
  BY <1>2, <1>3, <1>4

\* A counter that comes round, seen from where a window opened.
LEMMA Around ==
    ASSUME NEW o \in 0 .. Span - 1, NEW s \in 0 .. Span - 1
    PROVE  /\ (o + s) % Span = IF o + s < Span THEN o + s ELSE o + s - Span
           /\ (o + s) % Span \in 0 .. Span - 1
           /\ (((o + s) % Span) + Span - o) % Span = s
<1>1. Span \in Nat /\ Span > 0
  BY WindowAssumption
<1>2. (o + s) % Span = IF o + s < Span THEN o + s ELSE o + s - Span
  BY <1>1, Z3
<1>3. CASE o + s < Span
  BY <1>1, <1>2, <1>3, Z3
<1>4. CASE o + s >= Span
  BY <1>1, <1>2, <1>4, Z3
<1> QED
  BY <1>1, <1>3, <1>4

\* One count more.
LEMMA AroundOne ==
    ASSUME NEW o \in 0 .. Span - 1, NEW s \in 0 .. Span - 2
    PROVE  (((o + s) % Span) + 1) % Span = (o + (s + 1)) % Span
<1>1. Span \in Nat /\ Span > 0
  BY WindowAssumption
<1>2. /\ (o + s) % Span = IF o + s < Span THEN o + s ELSE o + s - Span
      /\ (o + (s + 1)) % Span = IF o + (s + 1) < Span THEN o + (s + 1) ELSE o + (s + 1) - Span
  <2>1. s + 1 \in 0 .. Span - 1 /\ s \in 0 .. Span - 1
    BY <1>1
  <2>2. \A k \in 0 .. Span - 1 :
          (o + k) % Span = IF o + k < Span THEN o + k ELSE o + k - Span
    BY Around
  <2> QED
    BY <2>1, <2>2
<1>3. CASE o + s < Span
  BY <1>1, <1>2, <1>3, Z3
<1>4. CASE o + s >= Span
  BY <1>1, <1>2, <1>4, Z3
<1> QED
  BY <1>1, <1>3, <1>4

\* While a window is open the counter stands where the counts since then have taken it, and what
\* has been measured and not given out is banked.
WindowIInv ==
    /\ WindowTypeOK
    /\ windowAt = "shut" => since = 0
    /\ windowAt # "shut" => counter = (opened + since) % Span
    /\ windowAt \in {"read", "written"} => since <= ArmCounts
    /\ owing = banked

\* The types, for the provers.
LEMMA WindowTypes ==
    ASSUME WindowTypeOK
    PROVE  /\ rate \in Rates /\ rate \in Nat /\ rate > 0
           /\ counter \in 0 .. Span - 1 /\ opened \in 0 .. Span - 1 /\ target \in 0 .. Span - 1
           /\ windowAt \in {"shut", "read", "written", "asleep"} /\ windowOf \in Nat
           /\ matched \in BOOLEAN /\ stale \in BOOLEAN /\ slipped \in BOOLEAN
           /\ banked \in 0 .. rate - 1 /\ since \in 0 .. Span - 1 /\ owing \in Nat
           /\ Span \in Nat /\ Span > 0 /\ TickHz \in Nat /\ TickHz > 0 /\ ArmCounts \in Nat
BY WindowBounds, WindowAssumption DEF WindowTypeOK

\* A number modulo the span of the counter.
LEMMA InSpan ==
    ASSUME NEW x \in Nat
    PROVE  x % Span \in 0 .. Span - 1
<1>1. Span \in Nat /\ Span > 0
  BY WindowAssumption
<1> QED
  BY <1>1, Z3

\* The counter counts.
LEMMA CountUpKeeps == WindowIInv /\ CountUp => WindowIInv'
<1> SUFFICES ASSUME WindowIInv, CountUp
             PROVE  WindowIInv'
  OBVIOUS
<1>1. WindowTypeOK
  BY DEF WindowIInv
<1>2. counter' \in 0 .. Span - 1
  BY <1>1, WindowTypes, InSpan DEF CountUp
<1>3. CASE windowAt = "shut"
  BY <1>1, <1>2, <1>3, WindowTypes DEF WindowIInv, WindowTypeOK, CountUp
<1>4. CASE windowAt # "shut"
  <2>1. since' = since + 1 /\ since \in 0 .. Span - 2
        /\ (windowAt \in {"read", "written"} => since < ArmCounts)
    BY <1>1, <1>4, WindowTypes, WindowBounds DEF CountUp, InBounds
  <2>2. counter' = (opened + since') % Span
    <3>1. counter' = (((opened + since) % Span) + 1) % Span
      BY <1>4 DEF CountUp, WindowIInv
    <3> QED
      BY <1>1, <2>1, <3>1, AroundOne, WindowTypes
  <2>3. WindowTypeOK'
    BY <1>1, <1>2, <2>1, WindowTypes DEF CountUp, WindowTypeOK
  <2> QED
    BY <1>1, <1>4, <2>1, <2>2, <2>3, WindowTypes DEF CountUp, WindowIInv
<1> QED
  BY <1>3, <1>4

\* A window is opened.
LEMMA OpenSourceKeeps ==
    ASSUME WindowIInv, NEW n \in Nat, OpenSource(n)
    PROVE  WindowIInv'
<1>1. (counter + 0) % Span = counter
  <2>1. counter \in 0 .. Span - 1 /\ 0 \in 0 .. Span - 1 /\ Span \in Nat
    BY WindowTypes DEF WindowIInv
  <2>2. (counter + 0) % Span = IF counter + 0 < Span THEN counter + 0 ELSE counter + 0 - Span
    BY <2>1, Around
  <2> QED
    BY <2>1, <2>2
<1>2. counter + 0 = counter /\ 0 <= ArmCounts /\ 0 \in 0 .. Span - 1
  BY WindowTypes DEF WindowIInv
<1> QED
  BY <1>1, <1>2, WindowTypes DEF OpenSource, WindowIInv, WindowTypeOK

\* Its target is written.
LEMMA WriteTargetKeeps == WindowIInv /\ WriteTarget => WindowIInv'
<1> SUFFICES ASSUME WindowIInv, WriteTarget
             PROVE  WindowIInv'
  OBVIOUS
<1>1. CountsOf(windowOf) \in Nat
  <2>1. /\ rate \in Nat /\ windowOf \in Nat /\ TickHz \in Nat /\ TickHz > 0
    BY WindowTypes DEF WindowIInv
  <2>2. windowOf * rate \in Nat
    BY <2>1
  <2>3. ASSUME NEW a \in Nat
        PROVE  (a + TickHz - 1) \div TickHz \in Nat
    BY <2>1, Z3
  <2> QED
    BY <2>2, <2>3 DEF CountsOf, Ceiling
<1>2. Min({CountsOf(windowOf), MaxCounts}) \in Nat
  BY <1>1, WindowBounds, LesserOf
<1>3. target' \in 0 .. Span - 1
  BY <1>2, InSpan, WindowTypes DEF WriteTarget, WindowIInv
<1> QED
  BY <1>3, WindowTypes DEF WriteTarget, ClearMatch, WindowIInv, WindowTypeOK

\* It is closed: whole ticks are given out, and the rest is banked.
LEMMA CloseSourceKeeps == WindowIInv /\ CloseSource => WindowIInv'
<1> SUFFICES ASSUME WindowIInv, CloseSource
             PROVE  WindowIInv'
  OBVIOUS
<1>1. SpanSince = since
  BY Around, WindowTypes DEF WindowIInv, CloseSource, SpanSince
<1>2. /\ since \in Nat /\ banked \in Nat /\ TickHz \in Nat /\ rate \in Nat /\ rate > 0
      /\ owing = banked
  BY WindowTypes DEF WindowIInv
<1>3. PICK all \in Nat : all = banked + since * TickHz
  BY <1>2
<1>4. /\ TicksMeasured = all \div rate /\ BankLeft = all % rate
  BY <1>1, <1>3 DEF TicksMeasured, BankLeft
<1>5. all - (all \div rate) * rate = all % rate /\ all % rate \in 0 .. rate - 1
  BY <1>2, Z3
<1>6. owing' = all - (all \div rate) * rate
  BY <1>2, <1>3, <1>4 DEF CloseSource
<1>7. owing' = banked' /\ banked' \in 0 .. rate - 1
  BY <1>4, <1>5, <1>6 DEF CloseSource
<1>8. slipped' \in BOOLEAN
  BY DEF CloseSource
<1>9. owing' \in Nat /\ 0 \in 0 .. Span - 1
  BY <1>2, <1>7, WindowTypes DEF WindowIInv
<1>10. WindowTypeOK'
  BY <1>7, <1>8, <1>9, WindowTypes DEF CloseSource, WindowIInv, WindowTypeOK
<1> QED
  BY <1>7, <1>10 DEF CloseSource, WindowIInv

\* It holds throughout.
THEOREM WindowInvariance == WindowSpec => []WindowIInv
<1>1. WindowInit => WindowIInv
  <2> SUFFICES ASSUME WindowInit
               PROVE  WindowIInv
    OBVIOUS
  <2>1. rate \in Rates /\ rate \in Nat /\ rate > 0 /\ Span \in Nat /\ Span > 0
    BY WindowBounds, WindowAssumption DEF WindowInit
  <2>2. 0 \in 0 .. Span - 1 /\ 0 \in 0 .. rate - 1
    BY <2>1
  <2> QED
    BY <2>1, <2>2 DEF WindowInit, WindowIInv, WindowTypeOK
<1>2. WindowIInv /\ [WindowNext]_windowVars => WindowIInv'
  <2> SUFFICES ASSUME WindowIInv, [WindowNext]_windowVars
               PROVE  WindowIInv'
    OBVIOUS
  <2>1. CASE StaleMatch
    BY <2>1, WindowTypes DEF StaleMatch, WindowIInv, WindowTypeOK
  <2>2. CASE MatchIsr
    BY <2>2, WindowTypes DEF MatchIsr, WindowIInv, WindowTypeOK
  <2>3. ASSUME NEW n \in 2 .. MaxCounts, OpenSource(n)
        PROVE  WindowIInv'
    BY <2>3, OpenSourceKeeps, WindowBounds
  <2>4. CASE TargetSettles
    BY <2>4, WindowTypes DEF TargetSettles, WindowIInv, WindowTypeOK
  <2>5. CASE UNCHANGED windowVars
    BY <2>5 DEF windowVars, WindowIInv, WindowTypeOK
  <2> QED
    BY <2>1, <2>2, <2>3, <2>4, <2>5, CountUpKeeps, WriteTargetKeeps, CloseSourceKeeps
       DEF WindowNext
<1> QED
  BY <1>1, <1>2, PTL DEF WindowSpec

\* Nothing that a window measured is lost or counted twice: os_arch_tick_resume_cb's accumulator,
\* over any number of windows.
THEOREM NothingEverDropped == WindowSpec => [](WindowTypeOK /\ NothingDropped)
<1>1. WindowIInv => WindowTypeOK /\ NothingDropped
  BY DEF WindowIInv, NothingDropped
<1> QED
  BY WindowInvariance, <1>1, PTL

\* A window is longer than it takes to arm, at any rate the counter may have: what the comment at
\* os_arch_tick_suppress_min_cb says the floor is there for.
ArmedBeforeItEnds ==
    \A r \in Rates, n \in Nat :
        n >= 2 /\ n >= FloorTicks => Ceiling(n * r, TickHz) >= ArmCounts

\* The alarm: where the target lies, and when it has matched.
AlarmIInv ==
    /\ windowAt # "shut" =>
          /\ CountsOf(windowOf) \in ArmCounts .. MaxCounts
          /\ \A k \in Nat : k >= CountsOf(windowOf) => k * TickHz >= windowOf * rate
    /\ windowAt \in {"written", "asleep"} =>
          target = (opened + CountsOf(windowOf)) % Span
    /\ windowAt = "written" => (matched => stale)
    /\ windowAt = "asleep" =>
          /\ matched => since >= CountsOf(windowOf) \/ stale
          /\ since >= CountsOf(windowOf) => matched

\* The counts of a window are enough for its ticks, and one less is not.
LEMMA CeilingEnough ==
    ASSUME NEW a \in Nat
    PROVE  /\ Ceiling(a, TickHz) \in Nat
           /\ \A k \in Nat : k >= Ceiling(a, TickHz) => k * TickHz >= a
           /\ \A k \in Nat : a <= k * TickHz => Ceiling(a, TickHz) <= k
<1>1. TickHz \in Nat /\ TickHz > 0
  BY WindowAssumption
<1>a. PICK x \in Nat : x = a + TickHz - 1
  BY <1>1
<1>2. PICK c \in Nat : c = x \div TickHz
  BY <1>1, Z3
<1>3. PICK m \in 0 .. TickHz - 1 : a + TickHz - 1 = TickHz * c + m
  <2>1. x % TickHz \in 0 .. TickHz - 1 /\ x = TickHz * (x \div TickHz) + (x % TickHz)
    BY <1>1, Z3
  <2> QED
    BY <1>a, <1>2, <2>1
<1>4. c >= 0
  BY <1>2
<1>5. ASSUME NEW k \in Nat, k >= c
      PROVE  k * TickHz >= a
  <2>1. TickHz * k >= TickHz * c /\ k * TickHz = TickHz * k
    BY <1>1, <1>5, Z3
  <2>2. TickHz * c \in Int /\ TickHz * k \in Int
    BY <1>1
  <2> QED
    BY <1>1, <1>3, <2>1, <2>2
<1>6. ASSUME NEW k \in Nat, a <= k * TickHz
      PROVE  c <= k
  <2> SUFFICES ASSUME c >= k + 1
               PROVE  FALSE
    OBVIOUS
  <2>1. TickHz * c >= TickHz * (k + 1) /\ TickHz * (k + 1) = k * TickHz + TickHz
    BY <1>1, Z3
  <2>2. TickHz * c \in Int /\ k * TickHz \in Int
    BY <1>1
  <2> QED
    BY <1>1, <1>3, <1>6, <2>1, <2>2
<1> QED
  BY <1>a, <1>2, <1>4, <1>5, <1>6 DEF Ceiling

\* A window is opened that is long enough to be armed and short enough to be measured.
LEMMA OpenedFits ==
    ASSUME WindowTypeOK, ArmedBeforeItEnds, NEW n \in Nat, OpenSource(n)
    PROVE  /\ CountsOf(n) \in ArmCounts .. MaxCounts
           /\ \A k \in Nat : k >= CountsOf(n) => k * TickHz >= n * rate
<1>1. /\ rate \in Rates /\ rate \in Nat /\ rate > 0 /\ TickHz \in Nat
      /\ MaxCounts \in Nat /\ ArmCounts \in Nat /\ n * rate \in Nat
  BY WindowTypes, WindowBounds
<1>2. CountsOf(n) >= ArmCounts
  BY <1>1 DEF ArmedBeforeItEnds, OpenSource, CountsOf
<1>3. n * rate <= MaxCounts * TickHz
  <2>1. PICK all \in Nat : all = MaxCounts * TickHz
    BY <1>1
  <2>2. n <= all \div rate
    BY <2>1 DEF OpenSource, CeilingTicks
  <2>3. (all \div rate) * rate <= all /\ all \div rate \in Nat
    BY <1>1, Z3
  <2>4. n * rate <= (all \div rate) * rate
    BY <1>1, <2>2, <2>3, Z3
  <2> HIDE DEF MaxCounts
  <2>5. (all \div rate) * rate \in Nat
    BY <1>1, <2>3
  <2> QED
    BY <1>1, <2>1, <2>3, <2>4, <2>5
<1> QED
  BY <1>1, <1>2, <1>3, CeilingEnough DEF CountsOf

\* The counter stands on the target when as many counts have gone by.
LEMMA OnTarget ==
    ASSUME NEW o \in 0 .. Span - 1, NEW s \in 0 .. Span - 1, NEW k \in 0 .. Span - 1
    PROVE  (o + s) % Span = (o + k) % Span <=> s = k
<1>1. (((o + s) % Span) + Span - o) % Span = s /\ (((o + k) % Span) + Span - o) % Span = k
  BY Around
<1> QED
  BY <1>1

\* A count that goes by in a window.
LEMMA AlarmCounts ==
    ASSUME WindowIInv, WindowIInv', AlarmIInv, CountUp
    PROVE  AlarmIInv'
<1>1. CASE windowAt = "shut"
  BY <1>1 DEF CountUp, AlarmIInv
<1>2. CASE windowAt \in {"read", "written"}
  BY <1>2 DEF CountUp, AlarmIInv, CountsOf
<1>3. CASE windowAt = "asleep"
  <2>1. /\ since' = since + 1 /\ since' \in 0 .. Span - 1 /\ since \in Nat
        /\ opened \in 0 .. Span - 1 /\ counter' = (opened + since') % Span
        /\ UNCHANGED <<windowAt, windowOf, rate, target, opened, stale>>
        /\ matched \in BOOLEAN /\ stale \in BOOLEAN
    BY <1>3, WindowTypes DEF CountUp, WindowIInv, WindowTypeOK
  <2>2. /\ CountsOf(windowOf) \in 0 .. Span - 1 /\ CountsOf(windowOf) \in Nat
        /\ target = (opened + CountsOf(windowOf)) % Span
    BY <1>3, WindowTypes, WindowBounds DEF AlarmIInv, WindowIInv
  <2>3. counter' = target <=> since' = CountsOf(windowOf)
    BY <2>1, <2>2, OnTarget
  <2>4. matched' = (matched \/ counter' = target) /\ CountsOf(windowOf)' = CountsOf(windowOf)
    BY <1>3, <2>1 DEF CountUp, CountsOf
  <2>a. /\ matched => since >= CountsOf(windowOf) \/ stale
        /\ since >= CountsOf(windowOf) => matched
    BY <1>3 DEF AlarmIInv
  <2>5. matched' => since' >= CountsOf(windowOf) \/ stale
    BY <2>1, <2>2, <2>3, <2>4, <2>a
  <2>6. since' >= CountsOf(windowOf) => matched'
    <3>1. since' >= CountsOf(windowOf) => matched \/ counter' = target
      BY <2>1, <2>2, <2>3, <2>a
    <3>2. matched \/ counter' = target => matched'
      BY <2>4, Zenon
    <3> QED
      BY <3>1, <3>2
  <2> QED
    BY <1>3, <2>1, <2>4, <2>5, <2>6 DEF AlarmIInv
<1> QED
  BY <1>1, <1>2, <1>3, WindowTypes DEF WindowIInv

\* The target is written, and settles before it can have been passed.
LEMMA AlarmIsSet ==
    ASSUME WindowIInv, AlarmIInv, WriteTarget \/ TargetSettles
    PROVE  AlarmIInv'
<1>1. ASSUME WriteTarget
      PROVE  AlarmIInv'
  <2>1. /\ CountsOf(windowOf) \in ArmCounts .. MaxCounts /\ ArmCounts \in Nat /\ MaxCounts \in Nat
    BY <1>1, WindowBounds, WindowAssumption DEF WriteTarget, AlarmIInv
  <2>2. Min({CountsOf(windowOf), MaxCounts}) = CountsOf(windowOf)
    BY <2>1, LesserOf
  <2>3. target' = (opened + CountsOf(windowOf)) % Span /\ windowAt' = "written" /\ matched' = FALSE
        /\ UNCHANGED <<windowOf, rate, opened>> /\ windowAt = "read"
    BY <1>1, <2>2 DEF WriteTarget, ClearMatch
  <2>4. CountsOf(windowOf)' = CountsOf(windowOf)
    BY <2>3 DEF CountsOf
  <2> QED
    BY <2>1, <2>3, <2>4 DEF AlarmIInv
<1>2. ASSUME TargetSettles
      PROVE  AlarmIInv'
  <2>1. /\ windowAt = "written" /\ windowAt' = "asleep"
        /\ matched' = (matched \/ counter = target)
        /\ UNCHANGED <<since, windowOf, rate, opened, target, stale>>
        /\ matched \in BOOLEAN /\ stale \in BOOLEAN
    BY <1>2, WindowTypes DEF TargetSettles, WindowIInv
  <2>2. CountsOf(windowOf)' = CountsOf(windowOf)
    BY <2>1 DEF CountsOf
  <2>3. /\ since \in 0 .. Span - 1 /\ since <= ArmCounts /\ ArmCounts \in Nat
        /\ opened \in 0 .. Span - 1 /\ counter = (opened + since) % Span
        /\ CountsOf(windowOf) \in 0 .. Span - 1 /\ CountsOf(windowOf) >= ArmCounts
        /\ target = (opened + CountsOf(windowOf)) % Span
    BY <2>1, WindowTypes, WindowBounds DEF AlarmIInv, WindowIInv
  <2>4. counter = target <=> since = CountsOf(windowOf)
    BY <2>3, OnTarget
  <2>5. since >= CountsOf(windowOf) => since = CountsOf(windowOf)
    BY <2>3
  <2>6. /\ matched' => since' >= CountsOf(windowOf) \/ stale'
        /\ since' >= CountsOf(windowOf) => matched'
    <3>1. matched => stale
      BY <2>1 DEF AlarmIInv
    <3>2. since >= CountsOf(windowOf) => counter = target
      BY <2>4, <2>5
    <3>3. matched \/ counter = target <=> matched'
      BY <2>1, Zenon
    <3> QED
      BY <2>1, <2>3, <2>4, <3>1, <3>2, <3>3
  <2> QED
    BY <2>1, <2>2, <2>6 DEF AlarmIInv
<1> QED
  BY <1>1, <1>2

\* A window that sleeps to its end reaches its deadline and is woken there: os_arch_tick_suppress_cb
\* of the LPTIM, for a counter of any width and at any rate, provided that it is armed in time.
THEOREM AlarmAlwaysInTime ==
    ASSUME ArmedBeforeItEnds
    PROVE  WindowSpec => []AlarmInTime
<1>1. WindowInit => AlarmIInv
  BY DEF WindowInit, AlarmIInv
<1>2. WindowIInv /\ WindowIInv' /\ AlarmIInv /\ [WindowNext]_windowVars => AlarmIInv'
  <2> SUFFICES ASSUME WindowIInv, WindowIInv', AlarmIInv, [WindowNext]_windowVars
               PROVE  AlarmIInv'
    OBVIOUS
  <2>1. CASE StaleMatch
    BY <2>1 DEF StaleMatch, AlarmIInv, CountsOf
  <2>2. CASE MatchIsr
    BY <2>2 DEF MatchIsr, AlarmIInv
  <2>3. ASSUME NEW n \in 2 .. MaxCounts, OpenSource(n)
        PROVE  AlarmIInv'
    <3>1. n \in Nat /\ WindowTypeOK
      BY WindowBounds DEF WindowIInv
    <3>2. /\ windowAt' = "read" /\ windowOf' = n /\ rate' = rate
      BY <2>3 DEF OpenSource
    <3>3. CountsOf(windowOf)' = CountsOf(n)
      BY <3>2 DEF CountsOf
    <3> QED
      BY <2>3, <3>1, <3>2, <3>3, OpenedFits DEF AlarmIInv
  <2>4. CASE CloseSource
    BY <2>4 DEF CloseSource, AlarmIInv
  <2>5. CASE UNCHANGED windowVars
    BY <2>5 DEF windowVars, AlarmIInv, CountsOf
  <2> QED
    BY <2>1, <2>2, <2>3, <2>4, <2>5, AlarmCounts, AlarmIsSet DEF WindowNext
<1>3. WindowIInv /\ AlarmIInv => AlarmInTime
  BY WindowTypes DEF WindowIInv, AlarmIInv, AlarmInTime
<1> QED
  BY <1>1, <1>2, <1>3, WindowInvariance, PTL DEF WindowSpec

(***************************************************************************)
(* Windows on the mtime comparator.                                        *)
(***************************************************************************)

\* Where the deadlines stand on the grid of the ticks: the comparator on the first tick nobody has
\* counted, and in a window on the last of it.
MtimeIInv ==
    /\ MtimeTypeOK
    /\ uncounted >= 0
    /\ skips = 0 => mtimecmp = grid - uncounted * Interval /\ baseTick = 0
    /\ skips # 0 =>
          /\ skips >= 2 /\ baseTick = grid - uncounted * Interval
          /\ mtimecmp = baseTick + (skips - 1) * Interval

\* In a window, the ticks nobody has counted are those the deadline of its first has been left
\* behind by.
LEMMA CrossedIsUncounted ==
    ASSUME MtimeIInv, skips # 0
    PROVE  Crossed = uncounted
<1>1. /\ Interval \in Nat /\ Interval > 0 /\ uncounted \in Nat
      /\ grid \in 1 .. Interval
      /\ baseTick = grid - uncounted * Interval
  BY MtimeAssumption DEF MtimeIInv, MtimeTypeOK
<1>2. CASE uncounted = 0
  BY <1>1, <1>2 DEF Crossed
<1>3. CASE uncounted > 0
  <2>1. PICK u \in Nat : uncounted = u + 1
    BY <1>1, <1>3
  <2>2. (u + 1) * Interval = u * Interval + Interval /\ u * Interval \in Nat
    BY <1>1, Z3
  <2>3. PICK d \in 0 .. Interval - 1 : d = Interval - grid
    BY <1>1
  <2>4. -baseTick = u * Interval + d /\ baseTick <= 0
    BY <1>1, <2>1, <2>2, <2>3
  <2>5. (u * Interval + d) \div Interval = u
    BY <1>1, <2>3, Z3
  <2> QED
    BY <1>1, <2>1, <2>4, <2>5 DEF Crossed
<1> QED
  BY <1>1, <1>2, <1>3

\* A cycle goes by.
LEMMA McycleKeeps == MtimeIInv /\ Mcycle => MtimeIInv'
<1> SUFFICES ASSUME MtimeIInv, Mcycle
             PROVE  MtimeIInv'
  OBVIOUS
<1>1. /\ Interval \in Nat /\ Interval > 0 /\ uncounted \in Int /\ uncounted >= 0
      /\ grid \in 1 .. Interval /\ skips \in 0 .. MaxSkip /\ mtimecmp \in Int /\ baseTick \in Int
      /\ MaxSkip \in Nat
  BY MtimeAssumption DEF MtimeIInv, MtimeTypeOK
<1>2. PICK late \in Int : late = uncounted * Interval
  BY <1>1
<1>3. (uncounted + 1) * Interval = late + Interval
  BY <1>1, <1>2, Z3
<1>4. PICK span \in Int : span = (skips - 1) * Interval
  BY <1>1
<1>5. uncounted' * Interval = IF grid = 1 THEN late + Interval ELSE late
  BY <1>2, <1>3 DEF Mcycle
<1>6. uncounted' \in Int /\ uncounted' >= 0 /\ grid' \in 1 .. Interval
  BY <1>1 DEF Mcycle
<1>7. grid' - uncounted' * Interval = grid - late - 1
  BY <1>1, <1>2, <1>5 DEF Mcycle
<1>8. CASE skips = 0
  BY <1>1, <1>2, <1>6, <1>7, <1>8 DEF Mcycle, MtimeIInv, MtimeTypeOK
<1>9. CASE skips # 0
  <2>1. skips' = skips /\ baseTick' = baseTick - 1 /\ mtimecmp' = mtimecmp - 1
    BY <1>9 DEF Mcycle
  <2>2. /\ skips >= 2 /\ baseTick = grid - late /\ mtimecmp = baseTick + span
    BY <1>2, <1>4, <1>9 DEF MtimeIInv
  <2>3. mtimecmp' = baseTick' + span /\ baseTick' = grid' - uncounted' * Interval
    BY <1>1, <1>7, <2>1, <2>2
  <2>4. MtimeTypeOK'
    BY <1>1, <1>6, <2>1 DEF MtimeTypeOK
  <2> QED
    BY <1>4, <1>6, <1>9, <2>1, <2>2, <2>3, <2>4 DEF MtimeIInv
<1> QED
  BY <1>8, <1>9

\* The handler counts a tick that is due.
LEMMA MtimeIsrKeeps == MtimeIInv /\ MtimeIsr => MtimeIInv'
<1> SUFFICES ASSUME MtimeIInv, MtimeIsr
             PROVE  MtimeIInv'
  OBVIOUS
<1>1. /\ Interval \in Nat /\ Interval > 0 /\ uncounted \in Nat
      /\ grid \in 1 .. Interval /\ skips = 0 /\ mtimecmp \in Int /\ mtimecmp <= 0
      /\ mtimecmp = grid - uncounted * Interval
  BY MtimeAssumption DEF MtimeIInv, MtimeTypeOK, MtimeIsr
<1>2. uncounted # 0
  BY <1>1
<1>3. (uncounted - 1) * Interval = uncounted * Interval - Interval
  BY <1>1, Z3
<1>4. PICK late \in Int : late = uncounted * Interval
  BY <1>1
<1>5. mtimecmp' = grid - uncounted' * Interval
  BY <1>1, <1>3, <1>4 DEF MtimeIsr
<1> QED
  BY <1>1, <1>2, <1>5 DEF MtimeIsr, MtimeIInv, MtimeTypeOK

\* A window is opened on the comparator's own deadline.
LEMMA SuppressKeeps ==
    ASSUME MtimeIInv, NEW ticks \in 2 .. MaxSkip, Suppress(ticks)
    PROVE  MtimeIInv'
<1>1. /\ Interval \in Nat /\ Interval > 0 /\ MaxSkip \in Nat /\ mtimecmp \in Int
  BY MtimeAssumption DEF MtimeIInv, MtimeTypeOK
<1>2. (ticks - 1) * Interval \in Int
  BY <1>1
<1> QED
  BY <1>1, <1>2 DEF Suppress, MtimeIInv, MtimeTypeOK

\* A window is closed: what it counts moves the comparator by as many ticks.
LEMMA ResumeTickKeeps == MtimeIInv /\ ResumeTick => MtimeIInv'
<1> SUFFICES ASSUME MtimeIInv, ResumeTick
             PROVE  MtimeIInv'
  OBVIOUS
<1>1. /\ Interval \in Nat /\ Interval > 0 /\ uncounted \in Nat
      /\ grid \in 1 .. Interval /\ skips \in 2 .. MaxSkip /\ skips # 0 /\ MaxSkip \in Nat
      /\ mtimecmp \in Int /\ baseTick \in Int
      /\ baseTick = grid - uncounted * Interval
      /\ mtimecmp = baseTick + (skips - 1) * Interval
  BY MtimeAssumption DEF MtimeIInv, MtimeTypeOK, ResumeTick
<1>2. PICK n \in Nat : n = ResumedTicks /\ n = IF uncounted <= skips - 1 THEN uncounted
                                             ELSE skips - 1
  <2>1. skips - 1 \in Nat
    BY <1>1
  <2> QED
    BY <1>1, <2>1, LesserOf, CrossedIsUncounted DEF ResumedTicks
<1>3. uncounted - n \in Nat /\ n <= skips - 1
  BY <1>1, <1>2
<1>4. Rewritten(n) = baseTick + n * Interval
  BY <1>1, <1>2, <1>3 DEF Rewritten
<1>5. (uncounted - n) * Interval = uncounted * Interval - n * Interval
      /\ uncounted * Interval \in Int /\ n * Interval \in Int
  BY <1>1, Z3
<1>6. mtimecmp' = grid - uncounted' * Interval /\ mtimecmp' \in Int
  BY <1>1, <1>2, <1>4, <1>5 DEF ResumeTick
<1> QED
  BY <1>1, <1>2, <1>3, <1>6 DEF ResumeTick, MtimeIInv, MtimeTypeOK

\* Every tick of the mtime comparator is counted once, by a window or by soc_tick_isr, for an
\* interval of any length.
THEOREM CadenceAlwaysKept == MtimeSpec => [](MtimeTypeOK /\ CadenceKept)
<1>1. MtimeInit => MtimeIInv
  BY MtimeAssumption DEF MtimeInit, MtimeIInv, MtimeTypeOK
<1>2. MtimeIInv /\ [MtimeNext]_mtimeVars => MtimeIInv'
  <2> SUFFICES ASSUME MtimeIInv, [MtimeNext]_mtimeVars
               PROVE  MtimeIInv'
    OBVIOUS
  <2>1. CASE UNCHANGED mtimeVars
    BY <2>1 DEF mtimeVars, MtimeIInv, MtimeTypeOK
  <2> QED
    BY <2>1, McycleKeeps, MtimeIsrKeeps, SuppressKeeps, ResumeTickKeeps DEF MtimeNext
<1>3. MtimeIInv => MtimeTypeOK /\ CadenceKept
  BY DEF MtimeIInv, CadenceKept
<1> QED
  BY <1>1, <1>2, <1>3, PTL DEF MtimeSpec

(***************************************************************************)
(* Busy waits.                                                             *)
(***************************************************************************)

\* A wait of c cycles keeps within its bounds from one chunk to the next: what is left of it, and
\* what the looks at the counter may have cost.
SpentOn(c, cycles, rest) ==
    /\ cycles >= c - rest
    /\ cycles <= c - rest + 2 * MaxSpin * (asked.chunks - Chunks(rest))

WaitsFor(c) ==
    /\ c * asked.per >= asked.cycles /\ c * asked.per < asked.cycles + asked.per
    /\ asked.chunks = Chunks(c) /\ cycleCount <= c
    /\ spinAt = "chunk" => SpentOn(c, spent, cycleCount)
    /\ spinAt = "spin" =>
          /\ cycleCount > 0 /\ SpinElapsed < Chunk + MaxSpin
          /\ SpentOn(c, spent - SpinElapsed, cycleCount)

BusyIInv ==
    /\ BusyTypeOK /\ asked \in [cycles : Nat, per : Nat \ {0}, chunks : Nat]
    /\ spinAt = "out" => BusyWaitExact
    /\ spinAt # "out" => \E c \in Nat : WaitsFor(c)

\* The number of chunks of a wait, and of what a chunk leaves of it.
LEMMA ChunksOf ==
    ASSUME NEW n \in Nat
    PROVE  /\ Chunks(n) \in Nat
           /\ n = 0 => Chunks(n) = 0
           /\ n > MaxChunk => Chunks(n - MaxChunk) = Chunks(n) - 1
           /\ n \in 1 .. MaxChunk => Chunks(n) = 1
<1>1. MaxChunk \in Nat /\ MaxChunk > 0
  BY CpuTimeAssumption
<1>2. Chunks(n) \in Nat
  BY <1>1, Z3 DEF Chunks
<1>3. ASSUME n = 0
      PROVE  Chunks(n) = 0
  BY <1>1, <1>3, Z3 DEF Chunks
<1>4. ASSUME n > MaxChunk
      PROVE  Chunks(n - MaxChunk) = Chunks(n) - 1
  <2>1. PICK x \in Nat : x = n - 1
    BY <1>1, <1>4
  <2>2. (x + MaxChunk) \div MaxChunk = x \div MaxChunk + 1
    BY <1>1, Z3
  <2>3. n + MaxChunk - 1 = x + MaxChunk /\ n - MaxChunk + MaxChunk - 1 = x
    BY <1>1, <2>1
  <2>4. x \div MaxChunk \in Int
    BY <1>1, Z3
  <2> QED
    BY <2>2, <2>3, <2>4 DEF Chunks
<1>5. ASSUME n \in 1 .. MaxChunk
      PROVE  Chunks(n) = 1
  <2>1. PICK x \in 0 .. MaxChunk - 1 : n + MaxChunk - 1 = MaxChunk + x
    BY <1>1, <1>5
  <2>2. (MaxChunk + x) \div MaxChunk = 1
    BY <1>1, Z3
  <2> QED
    BY <2>1, <2>2 DEF Chunks
<1> QED
  BY <1>2, <1>3, <1>4, <1>5

\* One chunk less is left.
LEMMA OneChunkLess ==
    ASSUME cycleCount \in Nat, cycleCount > 0
    PROVE  /\ Chunk \in 1 .. cycleCount /\ Chunk <= MaxChunk
           /\ Chunks(cycleCount - Chunk) = Chunks(cycleCount) - 1
<1>1. MaxChunk \in Nat /\ MaxChunk > 0
  BY CpuTimeAssumption
<1>2. Chunk = IF cycleCount <= MaxChunk THEN cycleCount ELSE MaxChunk
  BY <1>1, LesserOf DEF Chunk
<1>3. CASE cycleCount <= MaxChunk
  <2>1. cycleCount - Chunk = 0 /\ 0 \in Nat
    BY <1>2, <1>3
  <2>2. Chunks(0) = 0 /\ Chunks(cycleCount) = 1
    BY <1>1, <1>3, <2>1, ChunksOf
  <2> QED
    BY <1>1, <1>2, <1>3, <2>1, <2>2
<1>4. CASE cycleCount > MaxChunk
  BY <1>1, <1>2, <1>4, ChunksOf
<1> QED
  BY <1>1, <1>3, <1>4

\* What the counter shows of a chunk while it has not come round.
LEMMA CounterShows ==
    ASSUME NEW b \in 0 .. CounterLimit - 1, NEW d \in 0 .. CounterLimit - 1, NEW n \in Nat,
           NEW e \in Nat, e = (d + CounterLimit - b) % CounterLimit, e + n < CounterLimit
    PROVE  /\ (d + n) % CounterLimit \in 0 .. CounterLimit - 1
           /\ (((d + n) % CounterLimit) + CounterLimit - b) % CounterLimit = e + n
<1>1. CounterLimit \in Nat /\ CounterLimit > 0
  BY CpuTimeAssumption
<1>2. e = IF d >= b THEN d - b ELSE d + CounterLimit - b
  <2>1. CASE d >= b
    BY <1>1, <2>1, Z3
  <2>2. CASE d < b
    BY <1>1, <2>2, Z3
  <2> QED
    BY <1>1, <2>1, <2>2
<1>3. n < CounterLimit /\ d + n \in Nat /\ d + n < 2 * CounterLimit
  BY <1>1, <1>2
<1>4. (d + n) % CounterLimit = IF d + n < CounterLimit THEN d + n ELSE d + n - CounterLimit
  BY <1>1, <1>3, Z3
<1>5. PICK d2 \in 0 .. CounterLimit - 1 : d2 = (d + n) % CounterLimit
  BY <1>1, <1>3, <1>4
<1>6. (d2 + CounterLimit - b) % CounterLimit = IF d2 >= b THEN d2 - b ELSE d2 + CounterLimit - b
  <2>1. CASE d2 >= b
    BY <1>1, <2>1, Z3
  <2>2. CASE d2 < b
    BY <1>1, <2>2, Z3
  <2> QED
    BY <1>1, <2>1, <2>2
<1> QED
  BY <1>1, <1>2, <1>3, <1>4, <1>5, <1>6

\* The types, for the provers.
LEMMA BusyTypes ==
    ASSUME BusyIInv
    PROVE  /\ spinAt \in {"out", "chunk", "spin"} /\ cycleCount \in Nat
           /\ began \in 0 .. CounterLimit - 1 /\ delayCounter \in 0 .. CounterLimit - 1
           /\ spent \in Nat /\ asked \in [cycles : Nat, per : Nat \ {0}, chunks : Nat]
           /\ CounterLimit \in Nat /\ CounterLimit > 0 /\ MaxSpin \in Nat /\ MaxSpin > 0
           /\ MaxChunk \in Nat /\ MaxChunk > 0 /\ MaxChunk + MaxSpin < CounterLimit
           /\ SpinElapsed \in 0 .. CounterLimit - 1
<1>1. /\ CounterLimit \in Nat /\ CounterLimit > 0 /\ MaxSpin \in Nat /\ MaxSpin > 0
      /\ MaxChunk \in Nat /\ MaxChunk > 0 /\ MaxChunk + MaxSpin < CounterLimit
  BY CpuTimeAssumption
<1>2. began \in 0 .. CounterLimit - 1 /\ delayCounter \in 0 .. CounterLimit - 1
  BY DEF BusyIInv, BusyTypeOK
<1>3. SpinElapsed \in 0 .. CounterLimit - 1
  <2>1. PICK x \in Nat : x = delayCounter + CounterLimit - began
    BY <1>1, <1>2
  <2>2. x % CounterLimit \in 0 .. CounterLimit - 1
    BY <1>1, Z3
  <2> QED
    BY <2>1, <2>2 DEF SpinElapsed
<1> QED
  BY <1>1, <1>2, <1>3 DEF BusyIInv, BusyTypeOK

\* A call: a wait of so many cycles is asked for.
LEMMA SpinKeeps ==
    ASSUME BusyIInv, NEW c \in Nat, NEW exact \in Nat, NEW per \in Nat \ {0}, Spin(c, exact, per),
           c * per >= exact, c * per < exact + per
    PROVE  BusyIInv'
<1>1. asked' = [cycles |-> exact, per |-> per, chunks |-> Chunks(c)] /\ Chunks(c) \in Nat
  BY ChunksOf DEF Spin
<1>2. /\ asked' \in [cycles : Nat, per : Nat \ {0}, chunks : Nat]
      /\ asked'.cycles = exact /\ asked'.per = per /\ asked'.chunks = Chunks(c)
  BY <1>1
<1>3. spinAt' = "chunk" /\ cycleCount' = c /\ spent' = 0 /\ UNCHANGED <<began, delayCounter>>
  BY DEF Spin
<1>4. 2 * MaxSpin * (asked'.chunks - Chunks(c)) = 0
  <2>1. asked'.chunks - Chunks(c) = 0 /\ MaxSpin \in Nat
    BY <1>1, <1>2, BusyTypes
  <2> QED
    BY <2>1
<1>5. SpentOn(c, spent, cycleCount)'
  BY <1>3, <1>4 DEF SpentOn, Chunks
<1>6. WaitsFor(c)'
  BY <1>2, <1>3, <1>5 DEF WaitsFor, Chunks
<1> QED
  BY <1>2, <1>3, <1>6, BusyTypes DEF BusyIInv, BusyTypeOK

\* The cycles of a number of microseconds are rounded up.
LEMMA CyclesEnough ==
    ASSUME NEW us \in Nat
    PROVE  /\ CyclesOf(us) \in Nat /\ us * CounterHz \in Nat /\ PerSecond \in Nat \ {0}
           /\ CyclesOf(us) * PerSecond >= us * CounterHz
           /\ CyclesOf(us) * PerSecond < us * CounterHz + PerSecond
<1>1. PerSecond \in Nat /\ PerSecond > 0 /\ CounterHz \in Nat
  BY CpuTimeAssumption
<1>2. PICK a \in Nat : a = us * CounterHz
  BY <1>1
<1>3. PICK x \in Nat : x = a + PerSecond - 1
  BY <1>1
<1>4. PICK q \in Nat : q = x \div PerSecond
  BY <1>1, Z3
<1>5. PICK m \in 0 .. PerSecond - 1 : x = q * PerSecond + m
  <2>1. x % PerSecond \in 0 .. PerSecond - 1
        /\ x = (x \div PerSecond) * PerSecond + (x % PerSecond)
    BY <1>1, Z3
  <2> QED
    BY <1>4, <2>1
<1>6. CyclesOf(us) = q
  BY <1>2, <1>3, <1>4 DEF CyclesOf
<1>7. q * PerSecond \in Nat
  BY <1>1
<1> QED
  BY <1>1, <1>2, <1>3, <1>5, <1>6, <1>7

\* The counter is read for the start of a chunk.
LEMMA ChunkBeginKeeps == BusyIInv /\ ChunkBegin => BusyIInv'
<1> SUFFICES ASSUME BusyIInv, ChunkBegin
             PROVE  BusyIInv'
  OBVIOUS
<1>1. /\ spinAt = "chunk" /\ spinAt' = "spin" /\ cycleCount > 0 /\ began' = delayCounter
      /\ UNCHANGED <<cycleCount, delayCounter, asked, spent>>
  BY DEF ChunkBegin
<1>2. PICK c \in Nat : WaitsFor(c)
  BY <1>1 DEF BusyIInv
<1>3. SpinElapsed' = 0
  <2>1. delayCounter + CounterLimit - delayCounter = CounterLimit /\ CounterLimit % CounterLimit = 0
    BY BusyTypes, Z3
  <2> QED
    BY <1>1, <2>1 DEF SpinElapsed
<1>4. Chunk' = Chunk /\ Chunk \in Nat /\ Chunk > 0
  BY <1>1, OneChunkLess, BusyTypes DEF Chunk
<1>5. SpentOn(c, spent, cycleCount)
  BY <1>1, <1>2 DEF WaitsFor
<1>6. spent' - SpinElapsed' = spent
  BY <1>1, <1>3, BusyTypes
<1>7. SpentOn(c, spent - SpinElapsed, cycleCount)'
  BY <1>1, <1>5, <1>6 DEF SpentOn, Chunks
<1>8. (SpinElapsed < Chunk + MaxSpin)'
  BY <1>3, <1>4, BusyTypes
<1>9. WaitsFor(c)'
  BY <1>1, <1>2, <1>7, <1>8 DEF WaitsFor, Chunks
<1> QED
  BY <1>1, <1>9, BusyTypes DEF BusyIInv, BusyTypeOK

\* The counter is looked at, and the chunk is not over.
LEMMA SpinOnKeeps ==
    ASSUME BusyIInv, NEW n \in 1 .. MaxSpin, SpinOn(n)
    PROVE  BusyIInv'
<1>1. /\ spinAt = "spin" /\ SpinElapsed < Chunk
      /\ spent' = spent + n /\ delayCounter' = (delayCounter + n) % CounterLimit
      /\ UNCHANGED <<spinAt, cycleCount, began, asked>>
  BY DEF SpinOn, Elapses
<1>2. PICK c \in Nat : WaitsFor(c)
  BY <1>1 DEF BusyIInv
<1>3. Chunk' = Chunk /\ Chunk \in Nat /\ Chunk <= MaxChunk /\ n \in Nat /\ n <= MaxSpin
  BY <1>1, <1>2, OneChunkLess, BusyTypes DEF Chunk, WaitsFor
<1>4. /\ SpinElapsed \in Nat /\ SpinElapsed + n < CounterLimit
      /\ SpinElapsed + n < Chunk + MaxSpin
  BY <1>1, <1>3, BusyTypes
<1>5. SpinElapsed' = SpinElapsed + n /\ delayCounter' \in 0 .. CounterLimit - 1
  BY <1>1, <1>3, <1>4, BusyTypes, CounterShows DEF SpinElapsed
<1>6. spent' - SpinElapsed' = spent - SpinElapsed /\ spent' \in Nat
  BY <1>1, <1>3, <1>4, <1>5, BusyTypes
<1>7. SpentOn(c, spent - SpinElapsed, cycleCount)'
  BY <1>1, <1>2, <1>6 DEF SpentOn, Chunks, WaitsFor
<1>8. WaitsFor(c)'
  BY <1>1, <1>2, <1>3, <1>4, <1>5, <1>7 DEF WaitsFor, Chunks
<1> QED
  BY <1>1, <1>5, <1>6, <1>8, BusyTypes DEF BusyIInv, BusyTypeOK

\* The chunk is over.
LEMMA ChunkEndKeeps ==
    ASSUME BusyIInv, NEW n \in 0 .. MaxSpin, ChunkEnd(n)
    PROVE  BusyIInv'
<1>1. /\ spinAt = "spin" /\ spinAt' = "chunk" /\ SpinElapsed >= Chunk
      /\ spent' = spent + n /\ delayCounter' = (delayCounter + n) % CounterLimit
      /\ cycleCount' = cycleCount - Chunk
      /\ UNCHANGED <<began, asked>>
  BY DEF ChunkEnd, Elapses
<1>2. PICK c \in Nat : WaitsFor(c)
  BY <1>1 DEF BusyIInv
<1>3. /\ cycleCount \in Nat /\ cycleCount > 0 /\ SpinElapsed < Chunk + MaxSpin
      /\ SpentOn(c, spent - SpinElapsed, cycleCount) /\ cycleCount <= c
  BY <1>1, <1>2, BusyTypes DEF WaitsFor
<1>4. /\ Chunk \in 1 .. cycleCount /\ Chunks(cycleCount') = Chunks(cycleCount) - 1
  BY <1>1, <1>3, OneChunkLess
<1>5. PICK k \in Nat : k = asked.chunks
  BY BusyTypes
<1>6. PICK j \in Nat : j = Chunks(cycleCount)
  BY <1>3, ChunksOf
<1>7. 2 * MaxSpin * (k - (j - 1)) = 2 * MaxSpin * (k - j) + 2 * MaxSpin
      /\ 2 * MaxSpin * (k - j) \in Int
  BY BusyTypes, Z3
<1>8. PICK slack \in Int : slack = 2 * MaxSpin * (k - j)
  BY <1>7
<1>9. spent - SpinElapsed >= c - cycleCount /\ spent - SpinElapsed <= c - cycleCount + slack
  BY <1>3, <1>5, <1>6, <1>8 DEF SpentOn
<1>10. spent' >= c - cycleCount' /\ spent' <= c - cycleCount' + (slack + 2 * MaxSpin)
  BY <1>1, <1>3, <1>4, <1>9, BusyTypes
<1>11. SpentOn(c, spent, cycleCount)'
  BY <1>1, <1>4, <1>5, <1>6, <1>7, <1>8, <1>10 DEF SpentOn, Chunks
<1>12. cycleCount' \in Nat /\ cycleCount' <= c /\ spent' \in Nat
  BY <1>1, <1>3, <1>4, BusyTypes
<1>13. WaitsFor(c)'
  BY <1>1, <1>2, <1>11, <1>12 DEF WaitsFor, Chunks
<1>14. delayCounter' \in 0 .. CounterLimit - 1
  <2>1. delayCounter + n \in Nat
    BY BusyTypes
  <2> QED
    BY <1>1, <2>1, BusyTypes, Z3
<1> QED
  BY <1>1, <1>12, <1>13, <1>14, BusyTypes DEF BusyIInv, BusyTypeOK

\* The wait is over.
LEMMA BusyReturnKeeps == BusyIInv /\ BusyReturn => BusyIInv'
<1> SUFFICES ASSUME BusyIInv, BusyReturn
             PROVE  BusyIInv'
  OBVIOUS
<1>1. /\ spinAt = "chunk" /\ spinAt' = "out" /\ cycleCount = 0
      /\ UNCHANGED <<cycleCount, began, delayCounter, asked, spent>>
  BY DEF BusyReturn
<1>2. PICK c \in Nat : WaitsFor(c)
  BY <1>1 DEF BusyIInv
<1>3. PICK per \in Nat : per = asked.per /\ per > 0
  BY BusyTypes
<1>4. PICK slack \in Int : slack = 2 * MaxSpin * asked.chunks
  BY BusyTypes
<1>5. spent >= c /\ spent - slack <= c
  <2>1. Chunks(0) = 0 /\ asked.chunks - 0 = asked.chunks
    BY ChunksOf, BusyTypes
  <2>2. SpentOn(c, spent, 0)
    BY <1>1, <1>2 DEF WaitsFor
  <2> QED
    BY <1>4, <2>1, <2>2, BusyTypes DEF SpentOn
<1>6. spent * per >= c * per /\ (spent - slack) * per <= c * per
  BY <1>5, <1>3, BusyTypes, Z3
<1>7. c * per >= asked.cycles /\ c * per < asked.cycles + per
  BY <1>2, <1>3 DEF WaitsFor
<1>8. spent * per \in Int /\ (spent - slack) * per \in Int /\ c * per \in Int
      /\ asked.cycles \in Nat
  BY <1>3, BusyTypes
<1>9. spent * per >= asked.cycles /\ (spent - slack) * per < asked.cycles + per
  <2> HIDE DEF SpentOn
  <2> QED
    BY <1>3, <1>6, <1>7, <1>8
<1>10. BusyWaitExact'
  BY <1>1, <1>3, <1>4, <1>9 DEF BusyWaitExact
<1> QED
  BY <1>1, <1>10, BusyTypes DEF BusyIInv, BusyTypeOK

\* A busy wait lasts as long as it was asked to, and overruns by a bounded time: os_delay_us and
\* os_delay_ticks where the caller cannot block, for a counter of any width and any rate.
THEOREM BusyWaitAlwaysExact == BusySpec => [](BusyTypeOK /\ BusyWaitExact)
<1>1. BusyInit => BusyIInv
  <2> SUFFICES ASSUME BusyInit
               PROVE  BusyIInv
    OBVIOUS
  <2>1. asked \in [cycles : Nat, per : Nat \ {0}, chunks : Nat]
        /\ asked.cycles = 0 /\ asked.per = 1 /\ asked.chunks = 0
    BY DEF BusyInit
  <2>2. BusyTypeOK
    BY CpuTimeAssumption DEF BusyInit, BusyTypeOK
  <2>3. BusyWaitExact
    BY <2>1 DEF BusyInit, BusyWaitExact
  <2> QED
    BY <2>1, <2>2, <2>3 DEF BusyIInv, BusyInit
<1>2. BusyIInv /\ [BusyNext]_busyVars => BusyIInv'
  <2> SUFFICES ASSUME BusyIInv, [BusyNext]_busyVars
               PROVE  BusyIInv'
    OBVIOUS
  <2>1. ASSUME NEW us \in Durations, DelayUs(us)
        PROVE  BusyIInv'
    <3>1. us \in Nat
      BY CpuTimeAssumption
    <3> QED
      BY <2>1, <3>1, CyclesEnough, SpinKeeps DEF DelayUs
  <2>2. ASSUME NEW ticks \in Durations, DelayTicksBusy(ticks)
        PROVE  BusyIInv'
    <3>1. PICK c \in Nat : c = (ticks * CounterHz) \div TickRate
      <4>1. ticks \in Nat /\ CounterHz \in Nat /\ TickRate \in Nat /\ TickRate > 0
        BY CpuTimeAssumption
      <4>2. PICK a \in Nat : a = ticks * CounterHz
        BY <4>1
      <4>3. a \div TickRate \in Nat
        BY <4>1, Z3
      <4> QED
        BY <4>2, <4>3
    <3>2. Spin(c, c, 1)
      BY <2>2, <3>1 DEF DelayTicksBusy
    <3>3. c * 1 >= c /\ c * 1 < c + 1 /\ 1 \in Nat \ {0}
      OBVIOUS
    <3> QED
      BY <3>2, <3>3, SpinKeeps
  <2>3. CASE UNCHANGED busyVars
    <3>1. \A c \in Nat : WaitsFor(c) => WaitsFor(c)'
      BY <2>3 DEF busyVars, WaitsFor, SpentOn, Chunks, SpinElapsed, Chunk
    <3> QED
      BY <2>3, <3>1 DEF busyVars, BusyIInv, BusyTypeOK, BusyWaitExact
  <2> QED
    BY <2>1, <2>2, <2>3, ChunkBeginKeeps, SpinOnKeeps, ChunkEndKeeps, BusyReturnKeeps
       DEF BusyNext
<1>3. BusyIInv => BusyTypeOK /\ BusyWaitExact
  BY DEF BusyIInv, BusyWaitExact
<1> QED
  BY <1>1, <1>2, <1>3, PTL DEF BusySpec

(***************************************************************************)
(* The usage of the processor.                                             *)
(***************************************************************************)

\* A share is a percentage.
LEMMA Percent ==
    ASSUME NEW a \in Nat, NEW b \in Nat, a <= b, b > 0
    PROVE  (a * 100) \div b \in 0 .. 100
<1> DEFINE q == (a * 100) \div b
           r == (a * 100) % b
<1>1. q \in Int /\ r \in 0 .. b - 1 /\ a * 100 = b * q + r
  BY Z3
<1>2. q >= 0 /\ q <= 100
  <2> HIDE DEF q, r
  <2>1. ASSUME q >= 101
        PROVE  FALSE
    <3>1. b * q >= b * 101
      BY <1>1, <2>1, Z3
    <3> QED
      BY <1>1, <3>1
  <2>2. ASSUME q <= -1
        PROVE  FALSE
    <3>1. b * q <= b * (-1)
      BY <1>1, <2>2, Z3
    <3> QED
      BY <1>1, <3>1
  <2> QED
    BY <1>1, <2>1, <2>2
<1> QED
  BY <1>1, <1>2

\* Until they have come round, the counters show the ticks that have gone by.
UsageFits ==
    /\ sample \in [busy : Nat, idle : Nat]
    /\ totalTicks \in 0 .. UsageLimit - 1 /\ idleTicks \in 0 .. UsageLimit - 1
    /\ TicksIn(sample) < UsageLimit =>
          totalTicks = TicksIn(sample) /\ idleTicks = sample.idle

UsageInv == UsageFits /\ UsageHonest

\* A counter that has not come round does not do so by less than what is left.
LEMMA CountsOn ==
    ASSUME NEW c \in 0 .. UsageLimit - 1, NEW n \in Nat
    PROVE  /\ (c + n) % UsageLimit \in 0 .. UsageLimit - 1
           /\ c + n < UsageLimit => (c + n) % UsageLimit = c + n
<1>1. UsageLimit \in Nat /\ UsageLimit > 0
  BY CpuTimeAssumption
<1> QED
  BY <1>1, Z3

\* Ticks go by, over the idle task or not.
LEMMA TicksGoBy ==
    ASSUME UsageInv, NEW idle \in Nat, NEW busy \in Nat,
           GoneBy(idle, busy), Recorded(idle + busy, idle)
    PROVE  UsageInv'
<1>1. /\ sample \in [busy : Nat, idle : Nat] /\ UsageLimit \in Nat
      /\ totalTicks \in 0 .. UsageLimit - 1 /\ idleTicks \in 0 .. UsageLimit - 1
  BY CpuTimeAssumption DEF UsageInv, UsageFits
<1>2. sample' = [busy |-> sample.busy + busy, idle |-> sample.idle + idle]
  BY DEF GoneBy
<1>3. TicksIn(sample)' = TicksIn(sample) + idle + busy /\ sample'.idle = sample.idle + idle
  BY <1>1, <1>2 DEF TicksIn
<1>4. TicksIn(sample) \in Nat /\ sample.idle <= TicksIn(sample)
  BY <1>1 DEF TicksIn
<1>5. totalTicks' = (totalTicks + (idle + busy)) % UsageLimit
      /\ idleTicks' = (idleTicks + idle) % UsageLimit
  BY DEF Recorded
<1>6. UsageFits'
  <2>1. sample' \in [busy : Nat, idle : Nat]
    BY <1>1, <1>2
  <2>2. idle + busy \in Nat
    OBVIOUS
  <2>3. totalTicks' \in 0 .. UsageLimit - 1 /\ idleTicks' \in 0 .. UsageLimit - 1
    BY <1>1, <1>5, <2>2, CountsOn
  <2>4. ASSUME TicksIn(sample)' < UsageLimit
        PROVE  totalTicks' = TicksIn(sample)' /\ idleTicks' = sample'.idle
    <3>1. TicksIn(sample) < UsageLimit
      BY <1>1, <1>3, <1>4, <2>4
    <3>2. totalTicks = TicksIn(sample) /\ idleTicks = sample.idle
      BY <3>1 DEF UsageInv, UsageFits
    <3>3. totalTicks + (idle + busy) < UsageLimit /\ idleTicks + idle < UsageLimit
      BY <1>1, <1>3, <1>4, <2>4, <3>2
    <3>4. totalTicks' = totalTicks + (idle + busy) /\ idleTicks' = idleTicks + idle
      BY <1>1, <1>5, <2>2, <3>3, CountsOn
    <3> QED
      BY <1>3, <1>4, <3>2, <3>4
  <2> QED
    BY <2>1, <2>3, <2>4 DEF UsageFits
<1>7. UsageHonest'
  BY DEF UsageInv, UsageHonest, GoneBy, TicksIn
<1> QED
  BY <1>6, <1>7 DEF UsageInv

\* The usage is asked for, and the window starts again.
LEMMA UsageGetKeeps == UsageInv /\ UsageGet => UsageInv'
<1> SUFFICES ASSUME UsageInv, UsageGet
             PROVE  UsageInv'
  OBVIOUS
<1>1. /\ sample \in [busy : Nat, idle : Nat] /\ UsageLimit \in Nat /\ UsageLimit > 0
      /\ totalTicks \in 0 .. UsageLimit - 1 /\ idleTicks \in 0 .. UsageLimit - 1
  BY CpuTimeAssumption DEF UsageInv, UsageFits
<1>2. IdleCounted = IF idleTicks <= totalTicks THEN idleTicks ELSE totalTicks
  BY <1>1, LesserOf DEF IdleCounted
<1>3. totalTicks - IdleCounted \in Nat /\ totalTicks - IdleCounted <= totalTicks
  BY <1>1, <1>2
<1>4. UsageFits'
  BY <1>1 DEF UsageGet, UsageFits, NoTicks, TicksIn
<1>5. usage' \in 0 .. 100
  <2>1. CASE totalTicks = 0
    BY <2>1 DEF UsageGet
  <2>2. CASE totalTicks # 0
    BY <1>1, <1>3, <2>2, Percent DEF UsageGet
  <2> QED
    BY <2>1, <2>2
<1>6. ASSUME TicksIn(sample) \in 0 .. UsageLimit - 1
      PROVE  /\ totalTicks = TicksIn(sample)
             /\ totalTicks - IdleCounted = sample.busy
  <2>1. totalTicks = TicksIn(sample) /\ idleTicks = sample.idle
    BY <1>1, <1>6 DEF UsageInv, UsageFits
  <2>2. TicksIn(sample) = sample.busy + sample.idle
    BY DEF TicksIn
  <2> QED
    BY <1>1, <1>2, <2>1, <2>2
<1>7. UsageHonest'
  <2>1. sampled' = sample
    BY DEF UsageGet
  <2>2. ASSUME TicksIn(sample) \in 1 .. UsageLimit - 1
        PROVE  usage' = (sample.busy * 100) \div TicksIn(sample)
    <3>1. totalTicks = TicksIn(sample) /\ totalTicks - IdleCounted = sample.busy
      BY <1>1, <1>6, <2>2
    <3>2. totalTicks # 0
      BY <2>2, <3>1
    <3> QED
      BY <3>1, <3>2 DEF UsageGet
  <2>3. ASSUME TicksIn(sample) = 0
        PROVE  usage' = 0
    <3>1. totalTicks = 0
      BY <1>1, <1>6, <2>3
    <3> QED
      BY <3>1 DEF UsageGet
  <2> QED
    BY <1>5, <2>1, <2>2, <2>3 DEF UsageHonest, TicksIn
<1> QED
  BY <1>4, <1>7 DEF UsageInv

\* The usage reported is the share of busy ticks since it was last asked for: os_tick_handler,
\* os_tick_announce and os_cpu_usage_get, for counters of any width.
THEOREM UsageAlwaysHonest == UsageSpec => [](UsageTypeOK /\ UsageHonest)
<1>1. UsageInit => UsageInv
  BY CpuTimeAssumption DEF UsageInit, UsageInv, UsageFits, UsageHonest, NoTicks, TicksIn
<1>2. UsageInv /\ [UsageNext]_usageVars => UsageInv'
  <2> SUFFICES ASSUME UsageInv, [UsageNext]_usageVars
               PROVE  UsageInv'
    OBVIOUS
  <2>1. CASE UsageTick
    <3>1. 1 + 0 = 1 /\ 0 + 1 = 1 /\ {0, 1} \subseteq Nat
      OBVIOUS
    <3>2. CASE GoneBy(1, 0) /\ Recorded(1, 1)
      BY <3>1, <3>2, TicksGoBy
    <3>3. CASE GoneBy(0, 1) /\ Recorded(1, 0)
      BY <3>1, <3>3, TicksGoBy
    <3> QED
      BY <2>1, <3>2, <3>3 DEF UsageTick
  <2>2. ASSUME NEW n \in 2 .. MaxAnnounced, UsageWindow(n)
        PROVE  UsageInv'
    <3>1. n \in Nat /\ n + 0 = n
      BY CpuTimeAssumption
    <3> QED
      BY <2>2, <3>1, TicksGoBy DEF UsageWindow
  <2>3. CASE UNCHANGED usageVars
    BY <2>3 DEF usageVars, UsageInv, UsageFits, UsageHonest, TicksIn
  <2> QED
    BY <2>1, <2>2, <2>3, UsageGetKeeps DEF UsageNext
<1>3. UsageInv => UsageTypeOK /\ UsageHonest
  BY DEF UsageInv, UsageFits, UsageTypeOK
<1> QED
  BY <1>1, <1>2, <1>3, PTL DEF UsageSpec

-----------------------------------------------------------------------------
(***************************************************************************)
(* The components side by side.                                            *)
(*                                                                         *)
(* A step of one component leaves the variables of the others, so that a   *)
(* behaviour of all is a behaviour of each.                                *)
(***************************************************************************)

\* A step of one part is a step of it, and a stutter of every other.
LEMMA PartSteps ==
    /\ [AllNext]_allVars => [ListNext]_listVars
    /\ [AllNext]_allVars => [Next]_vars
    /\ [AllNext]_allVars => [TimerNext]_timerVars
    /\ [AllNext]_allVars => [TicklessNext]_ticklessVars
    /\ [AllNext]_allVars => [SysTickNext]_sysTickVars
    /\ [AllNext]_allVars => [CycleNext]_cycleVars
    /\ [AllNext]_allVars => [ParkNext]_parkVars
    /\ [AllNext]_allVars => [RingNext]_ringVars
    /\ [AllNext]_allVars => [SectionNext]_sectionVars
    /\ [AllNext]_allVars => [AtomicNext]_atomicVars
    /\ [AllNext]_allVars => [HeapNext]_heapVars
    /\ [AllNext]_allVars => [LogNext]_logVars
    /\ [AllNext]_allVars => [SwitchNext]_switchVars
    /\ [AllNext]_allVars => [BootNext]_bootVars
    /\ [AllNext]_allVars => [WindowNext]_windowVars
    /\ [AllNext]_allVars => [MtimeNext]_mtimeVars
    /\ [AllNext]_allVars => [StackNext]_stackVars
    /\ [AllNext]_allVars => [DeepNext]_deepVars
    /\ [AllNext]_allVars => [BusyNext]_busyVars
    /\ [AllNext]_allVars => [UsageNext]_usageVars
<1>1. [AllNext]_allVars => [ListNext]_listVars
  BY DEF AllNext, Kept, allVars
<1>2. [AllNext]_allVars => [Next]_vars
  BY DEF AllNext, Kept, allVars
<1>3. [AllNext]_allVars => [TimerNext]_timerVars
  BY DEF AllNext, Kept, allVars
<1>4. [AllNext]_allVars => [TicklessNext]_ticklessVars
  BY DEF AllNext, Kept, allVars
<1>5. [AllNext]_allVars => [SysTickNext]_sysTickVars
  BY DEF AllNext, Kept, allVars
<1>6. [AllNext]_allVars => [CycleNext]_cycleVars
  BY DEF AllNext, Kept, allVars
<1>7. [AllNext]_allVars => [ParkNext]_parkVars
  BY DEF AllNext, Kept, allVars
<1>8. [AllNext]_allVars => [SectionNext]_sectionVars
  BY DEF AllNext, Kept, allVars
<1>9. [AllNext]_allVars => [AtomicNext]_atomicVars
  BY DEF AllNext, Kept, allVars
<1>10. [AllNext]_allVars => [HeapNext]_heapVars
  BY DEF AllNext, Kept, allVars
<1>11. [AllNext]_allVars => [LogNext]_logVars
  BY DEF AllNext, Kept, allVars
<1>12. [AllNext]_allVars => [SwitchNext]_switchVars
  BY DEF AllNext, Kept, allVars
<1>13. [AllNext]_allVars => [BootNext]_bootVars
  BY DEF AllNext, Kept, allVars
<1>14. [AllNext]_allVars => [WindowNext]_windowVars
  BY DEF AllNext, Kept, allVars
<1>15. [AllNext]_allVars => [MtimeNext]_mtimeVars
  BY DEF AllNext, Kept, allVars
<1>16. [AllNext]_allVars => [StackNext]_stackVars
  BY DEF AllNext, Kept, allVars
<1>17. [AllNext]_allVars => [DeepNext]_deepVars
  BY DEF AllNext, Kept, allVars
<1>18. [AllNext]_allVars => [BusyNext]_busyVars
  BY DEF AllNext, Kept, allVars
<1>19. [AllNext]_allVars => [UsageNext]_usageVars
  BY DEF AllNext, Kept, allVars
<1>20. [AllNext]_allVars => [RingNext]_ringVars
  BY DEF AllNext, Kept, allVars
<1> QED
  BY <1>1, <1>2, <1>3, <1>4, <1>5, <1>6, <1>7, <1>8, <1>9, <1>10, <1>11, <1>12, <1>13, <1>14,
     <1>15, <1>16, <1>17, <1>18, <1>19, <1>20

\* Each part starts as its own specification has it start.
LEMMA PartStarts ==
    AllInit =>
        /\ ListInit
        /\ Init
        /\ TimerInit
        /\ TicklessInit
        /\ SysTickInit
        /\ CycleInit
        /\ ParkInit
        /\ RingInit
        /\ SectionInit
        /\ AtomicInit
        /\ HeapInit
        /\ LogInit
        /\ SwitchInit
        /\ BootInit
        /\ WindowInit
        /\ MtimeInit
        /\ StackInit
        /\ DeepInit
        /\ BusyInit
        /\ UsageInit
BY DEF AllInit

\* The components, each as if it were alone.
LEMMA PartsAlone ==
    /\ AllSpec => ListSpec
    /\ AllSpec => Spec
    /\ AllSpec => TimerSpec
    /\ AllSpec => TicklessSpec
    /\ AllSpec => SysTickSpec
    /\ AllSpec => CycleSpec
    /\ AllSpec => ParkSpec
    /\ AllSpec => RingSpec
    /\ AllSpec => SectionSpec
    /\ AllSpec => AtomicSpec
    /\ AllSpec => HeapSpec
    /\ AllSpec => LogSpec
    /\ AllSpec => SwitchSpec
    /\ AllSpec => BootSpec
    /\ AllSpec => WindowSpec
    /\ AllSpec => MtimeSpec
    /\ AllSpec => StackSpec
    /\ AllSpec => DeepSpec
    /\ AllSpec => BusySpec
    /\ AllSpec => UsageSpec
<1>1. AllSpec => ListSpec
  BY PartStarts, PartSteps, PTL DEF AllSpec, ListSpec
<1>2. AllSpec => Spec
  BY PartStarts, PartSteps, PTL DEF AllSpec, Spec
<1>3. AllSpec => TimerSpec
  BY PartStarts, PartSteps, PTL DEF AllSpec, TimerSpec
<1>4. AllSpec => TicklessSpec
  BY PartStarts, PartSteps, PTL DEF AllSpec, TicklessSpec
<1>5. AllSpec => SysTickSpec
  BY PartStarts, PartSteps, PTL DEF AllSpec, SysTickSpec
<1>6. AllSpec => CycleSpec
  BY PartStarts, PartSteps, PTL DEF AllSpec, CycleSpec
<1>7. AllSpec => ParkSpec
  BY PartStarts, PartSteps, PTL DEF AllSpec, ParkSpec
<1>8. AllSpec => SectionSpec
  BY PartStarts, PartSteps, PTL DEF AllSpec, SectionSpec
<1>9. AllSpec => AtomicSpec
  BY PartStarts, PartSteps, PTL DEF AllSpec, AtomicSpec
<1>10. AllSpec => HeapSpec
  BY PartStarts, PartSteps, PTL DEF AllSpec, HeapSpec
<1>11. AllSpec => LogSpec
  BY PartStarts, PartSteps, PTL DEF AllSpec, LogSpec
<1>12. AllSpec => SwitchSpec
  BY PartStarts, PartSteps, PTL DEF AllSpec, SwitchSpec
<1>13. AllSpec => BootSpec
  BY PartStarts, PartSteps, PTL DEF AllSpec, BootSpec
<1>14. AllSpec => WindowSpec
  BY PartStarts, PartSteps, PTL DEF AllSpec, WindowSpec
<1>15. AllSpec => MtimeSpec
  BY PartStarts, PartSteps, PTL DEF AllSpec, MtimeSpec
<1>16. AllSpec => StackSpec
  BY PartStarts, PartSteps, PTL DEF AllSpec, StackSpec
<1>17. AllSpec => DeepSpec
  BY PartStarts, PartSteps, PTL DEF AllSpec, DeepSpec
<1>18. AllSpec => BusySpec
  BY PartStarts, PartSteps, PTL DEF AllSpec, BusySpec
<1>19. AllSpec => UsageSpec
  BY PartStarts, PartSteps, PTL DEF AllSpec, UsageSpec
<1>20. AllSpec => RingSpec
  BY PartStarts, PartSteps, PTL DEF AllSpec, RingSpec
<1> QED
  BY <1>1, <1>2, <1>3, <1>4, <1>5, <1>6, <1>7, <1>8, <1>9, <1>10, <1>11, <1>12, <1>13, <1>14,
     <1>15, <1>16, <1>17, <1>18, <1>19, <1>20

\* Whatever the tick and the cycle counter are made from, no tick is lost or counted twice, no
\* alarm comes early or never, time does not run backwards, busy waits last as long as asked,
\* and the usage reported is that of the ticks gone by: the ports' os_arch_tick_* and
\* os_arch_cycle_count functions, for any rates and widths, if a window can be armed in time.
THEOREM TimekeepingAlwaysExact ==
    ASSUME ArmedBeforeItEnds
    PROVE  AllSpec => TimekeepingExact
<1>1. AllSpec => []GridKept
  BY PartsAlone, GridAlwaysKept, PTL
<1>2. AllSpec => []AlarmInTime
  BY PartsAlone, AlarmAlwaysInTime, PTL
<1>3. AllSpec => []NothingDropped
  BY PartsAlone, NothingEverDropped, PTL
<1>4. AllSpec => []CadenceKept
  BY PartsAlone, CadenceAlwaysKept, PTL
<1>5. AllSpec => NeverBackwards
  BY PartsAlone, CounterNeverBackwards, PTL
<1>6. AllSpec => []BusyWaitExact
  BY PartsAlone, BusyWaitAlwaysExact, PTL
<1>7. AllSpec => []UsageHonest
  BY PartsAlone, UsageAlwaysHonest, PTL
<1> QED
  BY <1>1, <1>2, <1>3, <1>4, <1>5, <1>6, <1>7 DEF TimekeepingExact

\* The cores agree on a deep window, the peer is parked or heard, and nothing the deep clocks
\* stop is in use: os_arch_peer_park and the packages' deep sleep, for both ports.
THEOREM DeepAlwaysSafe == AllSpec => []DeepSafe
<1>1. AllSpec => []ParkSafe
  BY PartsAlone, ParkAlwaysSafe, PTL
<1>2. AllSpec => []DeepIsQuiet
  BY PartsAlone, DeepAlwaysQuiet, PTL
<1>3. ParkSafe /\ DeepIsQuiet => DeepSafe
  BY DEF DeepSafe
<1> QED
  BY <1>1, <1>2, <1>3, PTL

KnownPart == part \in Parts

\* A behaviour is one of a component.
LEMMA PartKnown == AllSpec => []KnownPart
<1>1. AllInit => KnownPart
  BY DEF AllInit, KnownPart
<1>2. KnownPart /\ [AllNext]_allVars => KnownPart'
  BY DEF AllNext, allVars, KnownPart
<1> QED
  BY <1>1, <1>2, PTL DEF AllSpec

\* The types of the components that keep time, of those of the ports, and of the others.
TimeTypes ==
    /\ ListTypeOK /\ TypeOK /\ TimerTypeOK /\ TicklessTypeOK /\ WindowTypeOK /\ MtimeTypeOK
    /\ BusyTypeOK /\ UsageTypeOK
PortTypes ==
    /\ SysTickTypeOK /\ CycleIInv /\ ParkTypeOK /\ SectionTypeOK /\ AtomicTypeOK
    /\ SwitchTypeOK /\ BootTypeOK /\ StackTypeOK /\ DeepTypeOK
DataTypes == RingTypeOK /\ HeapTypeOK /\ LogTypeOK

\* One component is looked at.
LEMMA TypesTogether == KnownPart /\ TimeTypes /\ PortTypes /\ DataTypes => ComponentsTypeOK
<1>1. CycleIInv => handed \in Nat
  BY CycleConstants DEF CycleIInv
<1> QED
  BY <1>1 DEF KnownPart, Parts, TimeTypes, PortTypes, DataTypes, ComponentsTypeOK

\* Every component keeps its types.  That the rings of the messages and of the log do are
\* theorems RingAlwaysTyped and LogAlwaysFaithful of module IpcProofs, which cannot be extended
\* beside this one, and the assumptions here.
THEOREM ComponentsAlwaysTyped ==
    ASSUME RingSpec => []RingTypeOK,
           LogSpec => []LogTypeOK
    PROVE  AllSpec => []ComponentsTypeOK
<1>1. AllSpec => []TimeTypes
  BY PartsAlone, ListTypeCorrect, DelayTypeCorrect, TimerTypesHold, TicklessAlwaysSafe,
     NothingEverDropped, CadenceAlwaysKept, BusyWaitAlwaysExact, UsageAlwaysHonest, PTL
     DEF TimeTypes
<1>2. AllSpec => []PortTypes
  BY PartsAlone, GridAlwaysKept, CycleInvariance, ParkAlwaysSafe, SectionTypesHold,
     AtomicsAlwaysSafe, StacksAlwaysApart, BootAlwaysSafe, WatermarkAlwaysHonest,
     DeepAlwaysQuiet, PTL DEF PortTypes
<1>3. AllSpec => []DataTypes
  BY PartsAlone, HeapTypesHold, PTL DEF DataTypes
<1> QED
  BY <1>1, <1>2, <1>3, PartKnown, TypesTogether, PTL

=============================================================================
