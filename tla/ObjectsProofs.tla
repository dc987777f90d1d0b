---------------------------- MODULE ObjectsProofs ----------------------------
(***************************************************************************)
(* The safety of the blocking objects, for any number of tasks, objects,   *)
(* priorities and cores, and any capacity.                                 *)
(*                                                                         *)
(* The waiting machinery keeps WInv, whatever the objects do               *)
(* (WaitingProofs).  What remains is a balance for every waiter list: what *)
(* the object has in stock for those who wait there is matched by tasks    *)
(* that were woken from the list.                                          *)
(***************************************************************************)
EXTENDS Objects, WaitingProofs

-----------------------------------------------------------------------------
(* The inductive invariant.                                                *)

\* What an object holds for the tasks of list s: tokens, items or free slots.
Stock(s) ==
    IF s \in Semaphore THEN semCount[s]
    ELSE IF s[2] = "receive" THEN count[s[1]]
    ELSE capacity[s[1]] - count[s[1]]

StockMatched == \A s \in WaitList : Covered(s, Stock(s))

IInv ==
    /\ WInv
    /\ SemTypeOK
    /\ QueueTypeOK
    /\ StockMatched

-----------------------------------------------------------------------------
(* The lists and their stocks.                                             *)

\* Every waiter list belongs to one object, and has one role.
LEMMA ListsApart ==
    /\ Semaphore \subseteq WaitList
    /\ \A q \in QueueId :
          /\ SendList(q) \in WaitList \ Semaphore
          /\ ReceiveList(q) \in WaitList \ Semaphore
          /\ \A r \in QueueId : /\ SendList(q) # ReceiveList(r)
                                /\ SendList(q) = SendList(r) => q = r
                                /\ ReceiveList(q) = ReceiveList(r) => q = r
    /\ \A s \in WaitList \ Semaphore :
          \E q \in QueueId : s = SendList(q) \/ s = ReceiveList(q)
BY ObjectsAssumption, SemAssumption DEF SendList, ReceiveList

\* What the stocks are.
LEMMA Stocks ==
    /\ \A s \in Semaphore : Stock(s) = semCount[s]
    /\ \A q \in QueueId : /\ Stock(ReceiveList(q)) = count[q]
                          /\ Stock(SendList(q)) = capacity[q] - count[q]
BY ListsApart DEF Stock, SendList, ReceiveList

\* The stock of a list is a number.
LEMMA StockType ==
    ASSUME SemTypeOK, QueueTypeOK, NEW s \in WaitList
    PROVE  Stock(s) \in Int
<1>1. CASE s \in Semaphore
  BY <1>1, Stocks, SemAssumption DEF SemTypeOK
<1>2. CASE s \notin Semaphore
  <2>1. PICK q \in QueueId : s = SendList(q) \/ s = ReceiveList(q)
    BY <1>2, ListsApart
  <2>2. count[q] \in Int /\ capacity[q] \in Int
    BY QueueAssumption DEF QueueTypeOK
  <2> QED
    BY <2>1, <2>2, Stocks
<1> QED
  BY <1>1, <1>2

\* So it is after the step.
LEMMA StockTypeNext ==
    ASSUME SemTypeOK', QueueTypeOK', NEW s \in WaitList
    PROVE  Stock(s)' \in Int
<1>1. CASE s \in Semaphore
  BY <1>1, SemAssumption DEF SemTypeOK, Stock
<1>2. CASE s \notin Semaphore
  <2>1. PICK q \in QueueId : s = SendList(q) \/ s = ReceiveList(q)
    BY <1>2, ListsApart
  <2>2. count'[q] \in Int /\ capacity'[q] \in Int
    BY QueueAssumption DEF QueueTypeOK
  <2> QED
    BY <1>2, <2>1, <2>2 DEF Stock, SendList, ReceiveList
<1> QED
  BY <1>1, <1>2

\* The two conditions are one.
LEMMA MatchedByObject ==
    ASSUME StockMatched
    PROVE  TokensMatched /\ ItemsMatched
BY Stocks, ListsApart DEF StockMatched, Covered, TokensMatched, ItemsMatched

-----------------------------------------------------------------------------
(* Types.                                                                  *)

\* A step of an object is a step of the waiting machinery.
LEMMA StepIsWaiting ==
    ASSUME [Next]_vars
    PROVE  WaitingStep
<1>1. ASSUME NEW s \in Semaphore, SemStep(s)
      PROVE  WaitingStep
  BY <1>1, ListsApart DEF SemStep, SemInit, Give, IsrTake, WaitingStep
<1>2. ASSUME NEW q \in QueueId, QueueStep(q)
      PROVE  WaitingStep
  BY <1>2, ListsApart DEF QueueStep, IsrSend, IsrReceive, ModeSet, InitDynamic, Cleanup,
                          Emptied, WaitingStep
<1>3. ASSUME NEW t \in Task, TakeStep(t) \/ Resume(t) \/ WaitStep(t)
      PROVE  WaitingStep
  BY <1>3 DEF TakeStep, TakeOk, TakeFail, TakeBlock, TakeTimedOut, Taking, Trying, WaitingStep
<1>4. ASSUME NEW t \in Task, SendReceiveStep(t)
      PROVE  WaitingStep
  BY <1>4, ListsApart
  DEF SendReceiveStep, SendOk, SendDisplacing, SendFail, SendBlock, SendLastTry, Sending,
      ReceiveOk, ReceiveFail, ReceiveBlock, ReceiveTimedOut, Receiving, Trying, WaitingStep
<1>5. CASE UNCHANGED vars
  BY <1>5 DEF vars, WaitingStep
<1> QED
  BY <1>1, <1>2, <1>3, <1>4, <1>5 DEF Next, ObjectStep, CallStep

\* The tokens of a semaphore stay within 0..max_count.
LEMMA SemTypeStep ==
    ASSUME SemTypeOK, [Next]_vars
    PROVE  SemTypeOK'
<1> USE DEF SemTypeOK
<1>1. ASSUME NEW s \in Semaphore, SemStep(s)
      PROVE  SemTypeOK'
  BY <1>1, SemAssumption DEF SemStep, SemInit, Give, IsrTake
<1>2. ASSUME NEW t \in Task, TakeStep(t)
      PROVE  SemTypeOK'
  BY <1>2, SemAssumption DEF TakeStep, TakeOk, TakeFail, TakeBlock, TakeTimedOut
<1>3. CASE UNCHANGED semCount
  BY <1>3
<1> QED
  BY <1>1, <1>2, <1>3 DEF Next, ObjectStep, CallStep, vars, objectVars

\* The cursors stay in the ring, and the items within its capacity.
LEMMA RingType ==
    ASSUME QueueTypeOK, NEW q \in QueueId,
           UNCHANGED <<capacity, owned, mode>>,
           \/ \E x \in Item : Insert(q, x) /\ ~Full(q)
           \/ \E x \in Item : Displace(q, x)
           \/ Extract(q) /\ count[q] > 0
    PROVE  QueueTypeOK'
<1>1. \A i \in 0 .. Capacity - 1 : Succ(i) \in 0 .. Capacity - 1
  BY QueueAssumption DEF Succ
<1>2. /\ capacity[q] \in {0, Capacity} /\ count[q] \in 0 .. Capacity
      /\ head[q] \in 0 .. Capacity - 1 /\ tail[q] \in 0 .. Capacity - 1
      /\ buffer[q] \in [0 .. Capacity - 1 -> Item]
  BY DEF QueueTypeOK
<1>3. ASSUME NEW x \in Item, Insert(q, x), ~Full(q)
      PROVE  QueueTypeOK'
  <2>1. /\ count[q] + 1 \in 0 .. Capacity /\ count[q] + 1 <= capacity[q]
        /\ [buffer[q] EXCEPT ![tail[q]] = x] \in [0 .. Capacity - 1 -> Item]
    BY <1>2, <1>3, QueueAssumption DEF Full
  <2> QED
    BY <1>1, <1>2, <1>3, <2>1 DEF Insert, QueueTypeOK
<1>4. ASSUME NEW x \in Item, Displace(q, x)
      PROVE  QueueTypeOK'
  <2>1. [buffer[q] EXCEPT ![tail[q]] = x] \in [0 .. Capacity - 1 -> Item]
    BY <1>2
  <2> QED
    BY <1>1, <1>2, <1>4, <2>1 DEF Displace, QueueTypeOK
<1>5. CASE Extract(q) /\ count[q] > 0
  <2>1. count[q] - 1 \in 0 .. Capacity
    BY <1>2, <1>5, QueueAssumption
  <2>2. count[q] - 1 <= capacity[q]
    BY <1>2, <1>5, QueueAssumption DEF QueueTypeOK
  <2>3. buffer[q][head[q]] \in Item
    BY <1>2
  <2> QED
    BY <1>1, <1>2, <1>5, <2>1, <2>2, <2>3 DEF Extract, QueueTypeOK
<1> QED
  BY <1>3, <1>4, <1>5

\* The queues keep their types.
LEMMA QueueTypeStep ==
    ASSUME QueueTypeOK, [Next]_vars
    PROVE  QueueTypeOK'
<1>1. ASSUME NEW q \in QueueId, NEW x \in Item, IsrSend(q, x)
      PROVE  QueueTypeOK'
  BY <1>1, RingType DEF IsrSend
<1>2. ASSUME NEW q \in QueueId, IsrReceive(q)
      PROVE  QueueTypeOK'
  BY <1>2, RingType DEF IsrReceive
<1>3. ASSUME NEW q \in QueueId, NEW m \in {"normal", "overwrite"}, ModeSet(q, m)
      PROVE  QueueTypeOK'
  BY <1>3 DEF ModeSet, ringVars, QueueTypeOK
<1>4. ASSUME NEW q \in QueueId, InitDynamic(q) \/ Cleanup(q)
      PROVE  QueueTypeOK'
  <2>1. 0 \in 0 .. Capacity - 1 /\ 0 \in 0 .. Capacity /\ Capacity >= 0
    BY QueueAssumption
  <2>2. /\ Emptied(q)
        /\ \E n \in {0, Capacity} : capacity' = [capacity EXCEPT ![q] = n]
        /\ \E b \in BOOLEAN : owned' = [owned EXCEPT ![q] = b]
    <3>1. capacity[q] \in {0, Capacity}
      BY DEF QueueTypeOK
    <3> QED
      BY <1>4, <3>1 DEF InitDynamic, Cleanup
  <2>3. /\ head' \in [QueueId -> 0 .. Capacity - 1]
        /\ tail' \in [QueueId -> 0 .. Capacity - 1]
        /\ count' \in [QueueId -> 0 .. Capacity]
        /\ capacity' \in [QueueId -> {0, Capacity}]
    BY <2>1, <2>2 DEF Emptied, QueueTypeOK
  <2>4. owned' \in [QueueId -> BOOLEAN]
    BY <2>2 DEF QueueTypeOK
  <2>5. ASSUME NEW r \in QueueId
        PROVE  count'[r] <= capacity'[r]
    <3>1. CASE r = q
      <4>1. count'[q] = 0 /\ capacity'[q] \in {0, Capacity}
        BY <2>2, <2>3 DEF Emptied, QueueTypeOK
      <4> QED
        BY <2>1, <3>1, <4>1, QueueAssumption
    <3>2. CASE r # q
      BY <2>2, <3>2 DEF Emptied, QueueTypeOK
    <3> QED
      BY <3>1, <3>2
  <2> QED
    BY <2>2, <2>3, <2>4, <2>5 DEF Emptied, QueueTypeOK
<1>5. ASSUME NEW t \in Task, NEW q \in QueueId, NEW x \in Item,
             SendOk(t, q, x) \/ SendDisplacing(t, q, x)
      PROVE  QueueTypeOK'
  BY <1>5, RingType DEF SendOk, SendDisplacing
<1>6. ASSUME NEW t \in Task, NEW q \in QueueId, ReceiveOk(t, q)
      PROVE  QueueTypeOK'
  BY <1>6, RingType DEF ReceiveOk
<1>7. CASE UNCHANGED queueVars
  BY <1>7 DEF queueVars, ringVars, QueueTypeOK
<1> QED
  BY <1>1, <1>2, <1>3, <1>4, <1>5, <1>6, <1>7
  DEF Next, ObjectStep, CallStep, QueueStep, SendReceiveStep, SendFail, SendBlock,
      SendLastTry, ReceiveFail, ReceiveBlock, ReceiveTimedOut, vars, objectVars

-----------------------------------------------------------------------------
(* How the stocks change.                                                  *)

\* A step on semaphore r changes the stock of r alone.
LEMMA TokensMove ==
    ASSUME SemTypeOK, NEW r \in Semaphore, NEW n,
           semCount' = [semCount EXCEPT ![r] = n], UNCHANGED queueVars
    PROVE  /\ Stock(r)' = n
           /\ \A s \in WaitList : s # r => Stock(s)' = Stock(s)
<1>1. Stock(r)' = n
  BY DEF Stock, SemTypeOK
<1>2. ASSUME NEW s \in WaitList, s # r
      PROVE  Stock(s)' = Stock(s)
  BY <1>2 DEF Stock, SemTypeOK, queueVars, ringVars
<1> QED
  BY <1>1, <1>2

\* What enters or leaves a queue is in stock for one side, and not for the
\* other.
LEMMA ItemsMove ==
    ASSUME QueueTypeOK, NEW q \in QueueId, NEW n \in Int,
           count' = [count EXCEPT ![q] = n], UNCHANGED <<capacity, semCount>>
    PROVE  /\ Stock(ReceiveList(q))' = n
           /\ Stock(SendList(q))' = capacity[q] - n
           /\ \A s \in WaitList \ {SendList(q), ReceiveList(q)} : Stock(s)' = Stock(s)
<1>1. Stock(ReceiveList(q))' = n /\ Stock(SendList(q))' = capacity[q] - n
  BY ListsApart DEF Stock, SendList, ReceiveList, QueueTypeOK
<1>2. ASSUME NEW s \in WaitList \ {SendList(q), ReceiveList(q)}
      PROVE  Stock(s)' = Stock(s)
  <2>1. CASE s \in Semaphore
    BY <2>1 DEF Stock
  <2>2. CASE s \notin Semaphore
    <3>1. PICK r \in QueueId : s = SendList(r) \/ s = ReceiveList(r)
      BY <2>2, ListsApart
    <3>2. r # q
      BY <1>2, <3>1
    <3> QED
      BY <2>2, <3>1, <3>2 DEF Stock, SendList, ReceiveList, QueueTypeOK
  <2> QED
    BY <2>1, <2>2
<1> QED
  BY <1>1, <1>2

\* An insertion moves one unit from the senders' stock to the receivers'.
LEMMA InsertMoves ==
    ASSUME QueueTypeOK, NEW q \in QueueId, NEW x, Insert(q, x),
           UNCHANGED <<capacity, semCount>>, NEW s \in WaitList
    PROVE  Stock(s)' = IF s = ReceiveList(q) THEN Stock(s) + 1
                       ELSE IF s = SendList(q) THEN Stock(s) - 1 ELSE Stock(s)
<1>1. count[q] \in Int /\ capacity[q] \in Int
  BY QueueAssumption DEF QueueTypeOK
<1>2. count' = [count EXCEPT ![q] = count[q] + 1] /\ count[q] + 1 \in Int
  BY <1>1 DEF Insert
<1>3. /\ Stock(ReceiveList(q))' = count[q] + 1
      /\ Stock(SendList(q))' = capacity[q] - (count[q] + 1)
      /\ \A r \in WaitList \ {SendList(q), ReceiveList(q)} : Stock(r)' = Stock(r)
  BY <1>2, ItemsMove
<1>4. Stock(ReceiveList(q)) = count[q] /\ Stock(SendList(q)) = capacity[q] - count[q]
  BY Stocks
<1>5. capacity[q] - (count[q] + 1) = (capacity[q] - count[q]) - 1
  BY <1>1
<1> QED
  BY <1>3, <1>4, <1>5

\* An extraction moves it back.
LEMMA ExtractMoves ==
    ASSUME QueueTypeOK, NEW q \in QueueId, Extract(q),
           UNCHANGED <<capacity, semCount>>, NEW s \in WaitList
    PROVE  Stock(s)' = IF s = SendList(q) THEN Stock(s) + 1
                       ELSE IF s = ReceiveList(q) THEN Stock(s) - 1 ELSE Stock(s)
<1>1. count[q] \in Int /\ capacity[q] \in Int
  BY QueueAssumption DEF QueueTypeOK
<1>2. count' = [count EXCEPT ![q] = count[q] - 1] /\ count[q] - 1 \in Int
  BY <1>1 DEF Extract
<1>3. /\ Stock(ReceiveList(q))' = count[q] - 1
      /\ Stock(SendList(q))' = capacity[q] - (count[q] - 1)
      /\ \A r \in WaitList \ {SendList(q), ReceiveList(q)} : Stock(r)' = Stock(r)
  BY <1>2, ItemsMove
<1>4. Stock(ReceiveList(q)) = count[q] /\ Stock(SendList(q)) = capacity[q] - count[q]
  BY Stocks
<1>5. capacity[q] - (count[q] - 1) = (capacity[q] - count[q]) + 1
  BY <1>1
<1> QED
  BY <1>3, <1>4, <1>5

\* A full queue has nothing for a sender.
LEMMA FullStock ==
    ASSUME QueueTypeOK, NEW q \in QueueId, Full(q)
    PROVE  Stock(SendList(q)) <= 0
<1>1. count[q] \in Int /\ capacity[q] \in Int
  BY QueueAssumption DEF QueueTypeOK
<1> QED
  BY <1>1, Stocks DEF Full

\* Nothing else moves stock.
LEMMA StocksStay ==
    ASSUME UNCHANGED <<semCount, count, capacity>>, NEW s
    PROVE  Stock(s)' = Stock(s)
BY DEF Stock

-----------------------------------------------------------------------------
(* The balances.                                                           *)

\* Every step keeps every stock matched; one step of the proof per action.
LEMMA MatchedStep ==
    ASSUME IInv, WInv', SemTypeOK', QueueTypeOK', [Next]_vars
    PROVE  StockMatched'
<1> SUFFICES ASSUME NEW s \in WaitList
             PROVE  waiters'[s] # << >> => Stock(s)' <= Cardinality(Woken(s)')
  BY DEF StockMatched, Covered
<1> DEFINE c == Stock(s)
           d == Stock(s)'
           Goal == waiters'[s] # << >> => d <= Cardinality(Woken(s)')
<1>a. WInv /\ SemTypeOK /\ QueueTypeOK /\ c \in Int /\ Covered(s, c)
  BY StockType DEF IInv, StockMatched
<1>b. d \in Int
  BY StockTypeNext
<1>c. c <= c /\ c - 1 <= c /\ c <= c + 1
  BY <1>a
<1>d. ASSUME UNCHANGED <<semCount, count, capacity>>
      PROVE  d = c
  BY <1>d, StocksStay
<1> HIDE DEF c, d
<1>1. ASSUME NEW r \in Semaphore, NEW n \in 0 .. MaxCount, SemInit(r, n), UNCHANGED queueVars
      PROVE  Goal
  <2>1. waiters[s] # << >> => d = c
    BY <1>a, <1>1, TokensMove DEF SemInit, c, d
  <2>2. UNCHANGED <<wokenFrom, waiters>>
    BY <1>1 DEF SemInit, waitingVars, tcbVars
  <2> QED
    BY <1>a, <1>b, <1>c, <2>1, <2>2, CreditQuiet
<1>2. ASSUME NEW r \in Semaphore, Give(r), UNCHANGED queueVars
      PROVE  Goal
  <2>1. d = IF s = r THEN c + 1 ELSE c
    BY <1>a, <1>2, TokensMove, Stocks DEF Give, c, d
  <2>2. r \in WaitList /\ WakeOne(r)
    BY <1>2, ListsApart DEF Give
  <2> QED
    BY <1>a, <1>b, <1>c, <2>1, <2>2, CreditWoken
<1>3. ASSUME NEW r \in Semaphore, IsrTake(r), UNCHANGED queueVars
      PROVE  Goal
  <2>1. d = IF s = r THEN c - 1 ELSE c
    BY <1>a, <1>3, TokensMove, Stocks DEF IsrTake, c, d
  <2>2. UNCHANGED <<wokenFrom, waiters>>
    BY <1>3 DEF IsrTake, waitingVars, tcbVars
  <2> QED
    BY <1>a, <1>b, <1>c, <2>1, <2>2, CreditQuiet
<1>4. ASSUME NEW t \in Task, NEW r \in Semaphore,
             TakeOk(t, r) \/ TakeFail(t, r) \/ TakeBlock(t, r), UNCHANGED queueVars
      PROVE  Goal
  <2>1. /\ Trying(t) /\ target[t] = r
        /\ Finish(t) \/ WaitBegin(t)
    BY <1>4 DEF TakeOk, TakeFail, TakeBlock, Taking
  <2>2. /\ s = r => d <= 0 \/ (Finish(t) /\ d <= c - 1)
        /\ s # r => d <= c
    <3>1. CASE TakeOk(t, r)
      <4>1. d = IF s = r THEN c - 1 ELSE c
        BY <1>a, <1>4, <3>1, TokensMove, Stocks DEF TakeOk, c, d
      <4>2. Finish(t)
        BY <3>1 DEF TakeOk
      <4> QED
        BY <1>b, <1>c, <4>1, <4>2
    <3>2. CASE TakeFail(t, r) \/ TakeBlock(t, r)
      <4>1. d = c /\ (s = r => c = 0)
        BY <1>4, <1>d, <3>2, Stocks DEF TakeFail, TakeBlock, c, queueVars, ringVars
      <4> QED
        BY <1>c, <4>1
    <3> QED
      BY <1>4, <3>1, <3>2
  <2> QED
    BY <1>a, <1>b, <2>1, <2>2, CreditCall
<1>5. ASSUME NEW q \in QueueId, NEW x \in Item, IsrSend(q, x), UNCHANGED semCount
      PROVE  Goal
  <2>1. /\ s = ReceiveList(q) => d <= c + 1
        /\ s # ReceiveList(q) => d <= c
    <3>1. CASE Insert(q, x)
      <4>1. d = IF s = ReceiveList(q) THEN c + 1 ELSE IF s = SendList(q) THEN c - 1 ELSE c
        BY <1>a, <1>5, <3>1, InsertMoves DEF IsrSend, c, d
      <4> QED
        BY <1>c, <4>1
    <3>2. CASE Displace(q, x)
      BY <1>c, <1>d, <1>5, <3>2 DEF IsrSend, Displace
    <3> QED
      BY <1>5, <3>1, <3>2 DEF IsrSend
  <2>2. ReceiveList(q) \in WaitList /\ WakeOne(ReceiveList(q))
    BY <1>5, ListsApart DEF IsrSend
  <2> QED
    BY <1>a, <1>b, <2>1, <2>2, CreditWoken
<1>6. ASSUME NEW q \in QueueId, IsrReceive(q), UNCHANGED semCount
      PROVE  Goal
  <2>1. d = IF s = SendList(q) THEN c + 1 ELSE IF s = ReceiveList(q) THEN c - 1 ELSE c
    BY <1>a, <1>6, ExtractMoves DEF IsrReceive, c, d
  <2>2. SendList(q) \in WaitList /\ WakeOne(SendList(q))
    BY <1>6, ListsApart DEF IsrReceive
  <2> QED
    BY <1>a, <1>b, <1>c, <2>1, <2>2, CreditWoken
<1>7. ASSUME NEW q \in QueueId, NEW m \in {"normal", "overwrite"}, ModeSet(q, m),
             UNCHANGED semCount
      PROVE  Goal
  <2>1. UNCHANGED <<wokenFrom, waiters, count, capacity>>
    BY <1>7 DEF ModeSet, waitingVars, tcbVars, ringVars
  <2> QED
    BY <1>a, <1>b, <1>c, <1>d, <1>7, <2>1, CreditQuiet
<1>8. ASSUME NEW q \in QueueId, InitDynamic(q) \/ Cleanup(q), UNCHANGED semCount
      PROVE  Goal
  <2>1. /\ UNCHANGED <<wokenFrom, waiters>>
        /\ Unwaited(q)
        /\ \A r \in QueueId : r # q => capacity'[r] = capacity[r] /\ count'[r] = count[r]
    BY <1>a, <1>8
    DEF InitDynamic, Cleanup, Emptied, waitingVars, tcbVars, QueueTypeOK
  <2>2. waiters[s] # << >> => d = c
    <3>1. CASE s \in Semaphore
      BY <1>8, <3>1 DEF c, d, Stock
    <3>2. CASE s \notin Semaphore
      <4>1. PICK r \in QueueId : s = SendList(r) \/ s = ReceiveList(r)
        BY <3>2, ListsApart
      <4>2. waiters[s] # << >> => r # q
        BY <2>1, <4>1 DEF Unwaited
      <4> QED
        BY <2>1, <3>2, <4>1, <4>2 DEF c, d, Stock, SendList, ReceiveList
    <3> QED
      BY <3>1, <3>2
  <2> QED
    BY <1>a, <1>b, <1>c, <2>1, <2>2, CreditQuiet
<1>9. ASSUME NEW t \in Task, NEW q \in QueueId, NEW x \in Item,
             SendOk(t, q, x) \/ SendDisplacing(t, q, x), UNCHANGED semCount
      PROVE  Goal
  <2>1. /\ ReceiveList(q) \in WaitList
        /\ Trying(t) /\ target[t] = SendList(q) /\ target[t] # ReceiveList(q)
        /\ FinishWaking(t, ReceiveList(q))
    BY <1>9, ListsApart DEF SendOk, SendDisplacing, Sending
  <2>2. /\ s = ReceiveList(q) => d <= c + 1
        /\ s = SendList(q) => d <= 0 \/ d <= c - 1
        /\ s # ReceiveList(q) /\ s # SendList(q) => d <= c
    <3>1. CASE SendOk(t, q, x)
      <4>1. d = IF s = ReceiveList(q) THEN c + 1 ELSE IF s = SendList(q) THEN c - 1 ELSE c
        BY <1>a, <1>9, <3>1, InsertMoves DEF SendOk, c, d
      <4>2. s = SendList(q) => s # ReceiveList(q)
        BY ListsApart
      <4> QED
        BY <1>b, <1>c, <4>1, <4>2
    <3>2. CASE SendDisplacing(t, q, x)
      <4>1. d = c
        BY <1>d, <1>9, <3>2 DEF SendDisplacing, Displace
      <4>2. s = SendList(q) => c <= 0
        BY <1>a, <3>2, FullStock DEF SendDisplacing, c
      <4> QED
        BY <1>c, <4>1, <4>2
    <3> QED
      BY <1>9, <3>1, <3>2
  <2> QED
    BY <1>a, <1>b, <2>1, <2>2, CreditExchanged
<1>10. ASSUME NEW t \in Task, NEW q \in QueueId,
              SendFail(t, q) \/ SendBlock(t, q), UNCHANGED semCount
       PROVE  Goal
  <2>1. /\ Trying(t) /\ target[t] = SendList(q)
        /\ Finish(t) \/ WaitBegin(t)
    BY <1>10 DEF SendFail, SendBlock, Sending
  <2>2. d = c /\ (s = SendList(q) => c <= 0)
    BY <1>a, <1>d, <1>10, FullStock DEF SendFail, SendBlock, queueVars, ringVars, c
  <2> QED
    BY <1>a, <1>b, <1>c, <2>1, <2>2, CreditCall
<1>11. ASSUME NEW t \in Task, NEW q \in QueueId, ReceiveOk(t, q), UNCHANGED semCount
       PROVE  Goal
  <2>1. /\ SendList(q) \in WaitList
        /\ Trying(t) /\ target[t] = ReceiveList(q) /\ target[t] # SendList(q)
        /\ FinishWaking(t, SendList(q))
    BY <1>11, ListsApart DEF ReceiveOk, Receiving
  <2>2. d = IF s = SendList(q) THEN c + 1 ELSE IF s = ReceiveList(q) THEN c - 1 ELSE c
    BY <1>a, <1>11, ExtractMoves DEF ReceiveOk, c, d
  <2>3. /\ s = SendList(q) => d <= c + 1
        /\ s = ReceiveList(q) => d <= 0 \/ d <= c - 1
        /\ s # SendList(q) /\ s # ReceiveList(q) => d <= c
    BY <1>b, <1>c, <2>1, <2>2
  <2> QED
    BY <1>a, <1>b, <2>1, <2>3, CreditExchanged
<1>12. ASSUME NEW t \in Task, NEW q \in QueueId,
              ReceiveFail(t, q) \/ ReceiveBlock(t, q), UNCHANGED semCount
       PROVE  Goal
  <2>1. /\ Trying(t) /\ target[t] = ReceiveList(q)
        /\ Finish(t) \/ WaitBegin(t)
    BY <1>12 DEF ReceiveFail, ReceiveBlock, Receiving
  <2>2. d = c /\ (s = ReceiveList(q) => c = 0)
    BY <1>d, <1>12, Stocks DEF ReceiveFail, ReceiveBlock, queueVars, ringVars, c
  <2> QED
    BY <1>a, <1>b, <1>c, <2>1, <2>2, CreditCall
<1>13. ASSUME NEW t \in Task, UNCHANGED objectVars,
              WaitStep(t) \/ Resume(t) \/ TimedOut(t) \/ TryOnce(t)
       PROVE  Goal
  <2>1. d = c
    BY <1>d, <1>13 DEF objectVars, queueVars, ringVars
  <2>2. waiters'[s] # << >> => c <= Cardinality(Woken(s)')
    BY <1>a, <1>13, CreditKept
  <2> QED
    BY <2>1, <2>2
<1>14. CASE UNCHANGED vars
  <2>1. UNCHANGED <<wokenFrom, waiters, semCount, count, capacity>>
    BY <1>14 DEF vars, waitingVars, tcbVars, objectVars, queueVars, ringVars
  <2>2. waiters[s] # << >> => d <= c
    BY <1>c, <1>d, <2>1
  <2>3. UNCHANGED <<wokenFrom, waiters>>
    BY <2>1
  <2>4. Goal
    BY <1>a, <1>b, <2>2, <2>3, CreditQuiet
  <2> QED
    BY <2>4 DEF d
<1>15. ASSUME NEW t \in Task, CallStep(t)
       PROVE  Goal
  <2>1. ASSUME TakeStep(t), UNCHANGED queueVars
        PROVE  Goal
    <3>1. ASSUME NEW r \in Semaphore, TakeTimedOut(t, r)
          PROVE  Goal
      BY <1>13, <2>1, <3>1 DEF TakeTimedOut, objectVars
    <3> QED
      BY <1>4, <2>1, <3>1 DEF TakeStep
  <2>2. ASSUME SendReceiveStep(t), UNCHANGED semCount
        PROVE  Goal
    <3>1. ASSUME NEW q \in QueueId, SendLastTry(t, q) \/ ReceiveTimedOut(t, q)
          PROVE  Goal
      BY <1>13, <2>2, <3>1 DEF SendLastTry, ReceiveTimedOut, objectVars
    <3> QED
      BY <1>9, <1>10, <1>11, <1>12, <2>2, <3>1 DEF SendReceiveStep
  <2> QED
    BY <1>13, <1>15, <2>1, <2>2 DEF CallStep
<1>16. CASE ObjectStep
  <2>1. ASSUME NEW r \in Semaphore, SemStep(r), UNCHANGED queueVars
        PROVE  Goal
    BY <1>1, <1>2, <1>3, <2>1 DEF SemStep
  <2>2. ASSUME NEW q \in QueueId, QueueStep(q), UNCHANGED semCount
        PROVE  Goal
    BY <1>5, <1>6, <1>7, <1>8, <2>2 DEF QueueStep
  <2> QED
    BY <1>16, <2>1, <2>2 DEF ObjectStep, d
<1> QED
  BY <1>13, <1>14, <1>15, <1>16 DEF Next, d

-----------------------------------------------------------------------------
(* The theorems.                                                           *)

\* A system that starts has nobody waiting, so that nothing need be matched.
LEMMA InitIInv == Init => IInv
<1> SUFFICES ASSUME Init
             PROVE  IInv
  OBVIOUS
<1>1. WInv
  BY WaitingStarts DEF Init
<1>2. SemTypeOK
  BY DEF Init, SemaphoresInit, SemTypeOK
<1>3. QueueTypeOK
  <2>1. 0 \in 0 .. Capacity - 1 /\ 0 \in 0 .. Capacity /\ Capacity >= 0
    BY QueueAssumption
  <2>2. /\ buffer \in [QueueId -> [0 .. Capacity - 1 -> Item]]
        /\ head \in [QueueId -> 0 .. Capacity - 1]
        /\ tail \in [QueueId -> 0 .. Capacity - 1]
        /\ count \in [QueueId -> 0 .. Capacity]
        /\ capacity \in [QueueId -> {0, Capacity}]
        /\ owned \in [QueueId -> BOOLEAN]
        /\ mode \in [QueueId -> {"normal", "overwrite"}]
        /\ copied \in [QueueId -> Item]
    BY <2>1 DEF Init, QueuesInit
  <2>3. \A q \in QueueId : count[q] <= capacity[q]
    BY <2>1 DEF Init, QueuesInit
  <2> QED
    BY <2>2, <2>3 DEF QueueTypeOK
<1>4. StockMatched
  BY DEF Init, WaitingInit, StockMatched, Covered
<1> QED
  BY <1>1, <1>2, <1>3, <1>4 DEF IInv

\* IInv holds in every reachable state of os_sem.c and os_queue.c, in any mix of their calls.
THEOREM Invariance == Spec => []IInv
<1>1. Init => IInv
  BY InitIInv
<1>2. IInv /\ [Next]_vars => IInv'
  <2> SUFFICES ASSUME IInv, [Next]_vars
               PROVE  IInv'
    OBVIOUS
  <2>1. WInv'
    BY StepIsWaiting, WaitingKept DEF IInv
  <2>2. SemTypeOK' /\ QueueTypeOK'
    BY SemTypeStep, QueueTypeStep DEF IInv
  <2>3. StockMatched'
    BY <2>1, <2>2, MatchedStep
  <2> QED
    BY <2>1, <2>2, <2>3 DEF IInv
<1> QED
  BY <1>1, <1>2, PTL DEF Spec

\* The variables keep their types: a semaphore never holds more than its
\* maximum, a queue never more than its capacity, and the cursors of a ring
\* never leave it.
THEOREM TypeCorrect == Spec => []TypeOK
<1>1. IInv => TypeOK
  BY DEF IInv, WInv, TypeOK
<1> QED
  BY <1>1, Invariance, PTL

\* A task is linked in a waiter list exactly while it blocks there, whatever
\* ends the wait: a give, a timeout, os_task_start, os_task_pause or
\* os_task_delete.
THEOREM WaitersAlwaysExact == Spec => []WaitersExact
<1>1. IInv => WaitersExact
  BY DEF IInv, WInv
<1> QED
  BY <1>1, Invariance, PTL

\* The head of a waiter list always has the highest priority of the waiters,
\* even when priorities change while they wait.
THEOREM WaitersAlwaysSorted == Spec => []WaitersSorted
<1>1. IInv => WaitersSorted
  BY DEF IInv, WInv
<1> QED
  BY <1>1, Invariance, PTL

\* No wakeup is lost, at any object: beside a waiting task every token, item
\* or free slot is spoken for by a task that was woken for it and is able to
\* run, even when woken tasks are paused or deleted before they look.
THEOREM NeverLostWakeup == Spec => []NoLostWakeup
<1>1. IInv => NoLostWakeup
  BY MatchedByObject DEF IInv, WInv, NoLostWakeup
<1> QED
  BY <1>1, Invariance, PTL

\* A call with OS_WAIT_FOREVER never reports a timeout.
THEOREM ForeverAlwaysWaits == Spec => []ForeverWaits
<1>1. IInv => ForeverWaits
  BY DEF IInv, WInv
<1> QED
  BY <1>1, Invariance, PTL

-----------------------------------------------------------------------------
(* The ring is a queue, first in first out.                                *)

\* tail is where the item after the last one goes.
TailFollows == \A q \in QueueId : tail[q] = SlotOf(q, count[q] + 1)

\* A function on 1 .. n is a sequence.
LEMMA FcnIsSeq ==
    ASSUME NEW S, NEW n \in Nat, NEW f \in [1 .. n -> S]
    PROVE  f \in Seq(S) /\ Len(f) = n
<1>1. f \in Seq(S)
  BY SeqDef
<1> QED
  BY <1>1, LenProperties

\* What a list of items is once one joins it, leaves it, or both.
LEMMA ItemJoins ==
    ASSUME NEW S, NEW l \in Seq(S), NEW x \in S, NEW m \in Seq(S),
           Len(m) = Len(l) + 1, \A i \in 1 .. Len(l) : m[i] = l[i], m[Len(l) + 1] = x
    PROVE  m = Append(l, x)
<1>1. /\ Append(l, x) \in Seq(S) /\ Len(Append(l, x)) = Len(l) + 1
      /\ \A i \in 1 .. Len(l) : Append(l, x)[i] = l[i]
      /\ Append(l, x)[Len(l) + 1] = x
  BY AppendProperties
<1>2. \A i \in 1 .. Len(m) : m[i] = Append(l, x)[i]
  <2> SUFFICES ASSUME NEW i \in 1 .. Len(l) + 1
               PROVE  m[i] = Append(l, x)[i]
    OBVIOUS
  <2>1. Len(l) \in Nat
    BY LenProperties
  <2>2. CASE i = Len(l) + 1
    BY <1>1, <2>2
  <2>3. CASE i # Len(l) + 1
    <3>1. i \in 1 .. Len(l)
      BY <2>1, <2>3
    <3> QED
      BY <1>1, <3>1
  <2> QED
    BY <2>2, <2>3
<1>3. Len(m) = Len(Append(l, x))
  BY <1>1
<1> QED
  BY <1>1, <1>2, <1>3, SeqEqual

\* What is left when the first element leaves is the tail.
LEMMA ItemLeaves ==
    ASSUME NEW S, NEW l \in Seq(S), l # << >>, NEW m \in Seq(S),
           Len(m) = Len(l) - 1, \A i \in 1 .. Len(m) : m[i] = l[i + 1]
    PROVE  m = Tail(l)
<1>1. /\ Tail(l) \in Seq(S) /\ Len(Tail(l)) = Len(l) - 1
      /\ \A i \in 1 .. Len(Tail(l)) : Tail(l)[i] = l[i + 1]
  BY HeadTailProperties
<1> QED
  BY <1>1, SeqEqual

\* The ring's slots.
LEMMA Slots ==
    ASSUME QueueTypeOK, NEW q \in QueueId
    PROVE  /\ \A i \in 1 .. Capacity : SlotOf(q, i) \in 0 .. Capacity - 1
           /\ \A i, j \in 1 .. Capacity : i # j => SlotOf(q, i) # SlotOf(q, j)
           /\ \A i \in 1 .. Capacity : Succ(SlotOf(q, i)) = SlotOf(q, i + 1)
           /\ SlotOf(q, 1) = head[q] /\ SlotOf(q, Capacity + 1) = head[q]
<1>1. head[q] \in 0 .. Capacity - 1 /\ Capacity \in Nat \ {0}
  BY QueueAssumption DEF QueueTypeOK
<1> DEFINE h == head[q]
<1>2. h \in 0 .. Capacity - 1
  BY <1>1
<1>3. \A i : SlotOf(q, i) = IF h + i - 1 < Capacity THEN h + i - 1 ELSE h + i - 1 - Capacity
  BY DEF SlotOf
<1>4. h = head[q]
  OBVIOUS
<1> HIDE DEF h
<1>5. \A i \in 1 .. Capacity : SlotOf(q, i) \in 0 .. Capacity - 1
  BY <1>1, <1>2, <1>3
<1>6. \A i, j \in 1 .. Capacity : i # j => SlotOf(q, i) # SlotOf(q, j)
  BY <1>1, <1>2, <1>3
<1>7. \A i \in 1 .. Capacity : Succ(SlotOf(q, i)) = SlotOf(q, i + 1)
  BY <1>1, <1>2, <1>3 DEF Succ
<1>8. SlotOf(q, 1) = h /\ SlotOf(q, Capacity + 1) = h
  BY <1>1, <1>2, <1>3
<1> QED
  BY <1>4, <1>5, <1>6, <1>7, <1>8

\* One slot on, when the oldest item leaves.
LEMMA SlotsShift ==
    ASSUME QueueTypeOK, NEW q \in QueueId, head' = [head EXCEPT ![q] = Succ(@)]
    PROVE  \A i \in 1 .. Capacity : SlotOf(q, i)' = SlotOf(q, i + 1)
<1>1. /\ head[q] \in 0 .. Capacity - 1 /\ Capacity \in Nat \ {0}
      /\ head'[q] = IF head[q] + 1 = Capacity THEN 0 ELSE head[q] + 1
  BY QueueAssumption DEF QueueTypeOK, Succ
<1> QED
  BY <1>1 DEF SlotOf

\* The items are a sequence, in the slots from head on.
ItemsListed ==
    \A q \in QueueId :
        /\ Items[q] \in Seq(Item) /\ Len(Items[q]) = count[q]
        /\ \A i \in 1 .. count[q] : Items[q][i] = buffer[q][SlotOf(q, i)]

\* The items of a queue are listed from its head.
LEMMA ItemsType == QueueTypeOK => ItemsListed
<1> SUFFICES ASSUME QueueTypeOK, NEW q \in QueueId
             PROVE  /\ Items[q] \in Seq(Item) /\ Len(Items[q]) = count[q]
                    /\ \A i \in 1 .. count[q] : Items[q][i] = buffer[q][SlotOf(q, i)]
  BY DEF ItemsListed
<1>1. count[q] \in 0 .. Capacity /\ Capacity \in Nat /\ count[q] \in Nat
  BY QueueAssumption DEF QueueTypeOK
<1>2. buffer[q] \in [0 .. Capacity - 1 -> Item]
  BY DEF QueueTypeOK
<1>3. \A i \in 1 .. count[q] : SlotOf(q, i) \in 0 .. Capacity - 1
  BY <1>1, Slots
<1>4. Items[q] = [i \in 1 .. count[q] |-> buffer[q][SlotOf(q, i)]]
  BY DEF Items
<1>5. Items[q] \in [1 .. count[q] -> Item]
  BY <1>2, <1>3, <1>4
<1> QED
  BY <1>1, <1>4, <1>5, FcnIsSeq

\* So they are after the step.
LEMMA ItemsTypeNext == QueueTypeOK' => ItemsListed'
BY ItemsType, PTL

\* A step on one queue leaves the other queues' items.
LEMMA ItemsElsewhere ==
    ASSUME NEW q \in QueueId, NEW l, Items'[q] = l,
           \A r \in QueueId : r # q => /\ buffer'[r] = buffer[r] /\ head'[r] = head[r]
                                       /\ count'[r] = count[r]
    PROVE  Items' = [Items EXCEPT ![q] = l]
<1>1. \A r \in QueueId : r # q => Items'[r] = Items[r]
  BY DEF Items, SlotOf
<1>2. Items' = [r \in QueueId |-> Items'[r]] /\ Items = [r \in QueueId |-> Items[r]]
  BY DEF Items
<1> QED
  BY <1>1, <1>2

\* os_queue_insert appends.
LEMMA Entering ==
    ASSUME QueueTypeOK, QueueTypeOK', TailFollows,
           NEW q \in QueueId, NEW x \in Item, Insert(q, x), ~Full(q)
    PROVE  /\ Items' = [Items EXCEPT ![q] = Append(Items[q], x)]
           /\ Len(Items[q]) < Capacity
           /\ TailFollows'
<1>1. /\ count[q] \in 0 .. Capacity /\ Capacity \in Nat \ {0}
      /\ count[q] < Capacity /\ count'[q] = count[q] + 1
  <2>1. /\ count[q] \in 0 .. Capacity /\ Capacity \in Nat \ {0}
        /\ capacity[q] \in {0, Capacity} /\ count'[q] = count[q] + 1
    BY QueueAssumption DEF QueueTypeOK, Insert
  <2> QED
    BY <2>1 DEF Full
<1>2. /\ Items[q] \in Seq(Item) /\ Len(Items[q]) = count[q]
      /\ \A i \in 1 .. count[q] : Items[q][i] = buffer[q][SlotOf(q, i)]
  BY ItemsType DEF ItemsListed
<1>3. /\ Items'[q] \in Seq(Item) /\ Len(Items'[q]) = count'[q]
      /\ \A i \in 1 .. count'[q] : Items'[q][i] = buffer'[q][SlotOf(q, i)']
  BY ItemsTypeNext DEF ItemsListed
<1>4. \A i : SlotOf(q, i)' = SlotOf(q, i)
  BY DEF Insert, SlotOf
<1>5. tail[q] = SlotOf(q, count[q] + 1)
  BY DEF TailFollows
<1>6. /\ buffer[q] \in [0 .. Capacity - 1 -> Item]
      /\ buffer'[q] = [buffer[q] EXCEPT ![tail[q]] = x]
  BY DEF Insert, QueueTypeOK
<1>7. ASSUME NEW i \in 1 .. count[q]
      PROVE  Items'[q][i] = Items[q][i]
  <2>1. /\ i \in 1 .. Capacity /\ count[q] + 1 \in 1 .. Capacity
        /\ i # count[q] + 1 /\ i \in 1 .. count'[q]
    BY <1>1
  <2>2. SlotOf(q, i) # tail[q] /\ SlotOf(q, i) \in 0 .. Capacity - 1
    BY <1>5, <2>1, Slots
  <2> QED
    BY <1>2, <1>3, <1>4, <1>6, <2>1, <2>2
<1>8. Items'[q][count[q] + 1] = x
  <2>1. PICK n \in 1 .. Capacity : n = count[q] + 1 /\ n \in 1 .. count'[q]
    BY <1>1
  <2>2. tail[q] = SlotOf(q, n) /\ tail[q] \in 0 .. Capacity - 1
    BY <1>5, <2>1, Slots
  <2>3. Items'[q][n] = buffer'[q][SlotOf(q, n)']
    BY <1>3, <2>1
  <2>4. buffer'[q][tail[q]] = x
    BY <1>6, <2>2
  <2> QED
    BY <1>4, <2>1, <2>2, <2>3, <2>4
<1>9. Items'[q] = Append(Items[q], x)
  <2>1. Len(Items'[q]) = Len(Items[q]) + 1
    BY <1>1, <1>2, <1>3
  <2> QED
    BY <1>2, <1>3, <1>7, <1>8, <2>1, ItemJoins
<1>10. TailFollows'
  <2>1. count[q] + 1 \in 1 .. Capacity
    BY <1>1
  <2>2. Succ(tail[q]) = SlotOf(q, count'[q] + 1)
    BY <1>1, <1>5, <2>1, Slots
  <2>3. ASSUME NEW r \in QueueId
        PROVE  tail'[r] = SlotOf(r, count[r] + 1)'
    <3>1. CASE r = q
      BY <1>4, <2>2, <3>1 DEF Insert, QueueTypeOK
    <3>2. CASE r # q
      BY <3>2 DEF Insert, QueueTypeOK, TailFollows, SlotOf
    <3> QED
      BY <3>1, <3>2
  <2> QED
    BY <2>3 DEF TailFollows
<1>11. Items' = [Items EXCEPT ![q] = Append(Items[q], x)]
  BY <1>9, ItemsElsewhere DEF Insert, QueueTypeOK
<1> QED
  BY <1>1, <1>2, <1>10, <1>11

\* os_queue_extract takes the first.
LEMMA Leaves ==
    ASSUME QueueTypeOK, QueueTypeOK', TailFollows,
           NEW q \in QueueId, Extract(q), count[q] > 0
    PROVE  /\ Items' = [Items EXCEPT ![q] = Tail(Items[q])]
           /\ Items[q] # << >>
           /\ copied' = [copied EXCEPT ![q] = Head(Items[q])]
           /\ TailFollows'
<1>1. /\ count[q] \in 1 .. Capacity /\ Capacity \in Nat \ {0}
      /\ count'[q] = count[q] - 1 /\ buffer' = buffer
  BY QueueAssumption DEF QueueTypeOK, Extract
<1>2. /\ Items[q] \in Seq(Item) /\ Len(Items[q]) = count[q]
      /\ \A i \in 1 .. count[q] : Items[q][i] = buffer[q][SlotOf(q, i)]
  BY ItemsType DEF ItemsListed
<1>3. /\ Items'[q] \in Seq(Item) /\ Len(Items'[q]) = count'[q]
      /\ \A i \in 1 .. count'[q] : Items'[q][i] = buffer'[q][SlotOf(q, i)']
  BY ItemsTypeNext DEF ItemsListed
<1>4. \A i \in 1 .. Capacity : SlotOf(q, i)' = SlotOf(q, i + 1)
  BY SlotsShift DEF Extract
<1>5. Items[q] # << >>
  BY <1>1, <1>2
<1>6. ASSUME NEW i \in 1 .. Len(Items'[q])
      PROVE  Items'[q][i] = Items[q][i + 1]
  <2>1. i \in 1 .. count'[q] /\ i + 1 \in 1 .. count[q] /\ i \in 1 .. Capacity
    BY <1>1, <1>3
  <2>2. Items'[q][i] = buffer[q][SlotOf(q, i)']
    BY <1>1, <1>3, <2>1
  <2>3. Items[q][i + 1] = buffer[q][SlotOf(q, i + 1)]
    BY <1>2, <2>1
  <2> QED
    BY <1>4, <2>1, <2>2, <2>3
<1>7. Items'[q] = Tail(Items[q])
  <2>1. Len(Items'[q]) = Len(Items[q]) - 1
    BY <1>1, <1>2, <1>3
  <2> QED
    BY <1>2, <1>3, <1>5, <1>6, <2>1, ItemLeaves
<1>8. copied' = [copied EXCEPT ![q] = Head(Items[q])]
  <2>1. 1 \in 1 .. count[q]
    BY <1>1
  <2>2. Items[q][1] = buffer[q][head[q]]
    BY <1>2, <2>1, Slots
  <2>3. Head(Items[q]) = Items[q][1]
    BY <1>2, <1>5
  <2> QED
    BY <2>2, <2>3 DEF Extract
<1>9. TailFollows'
  <2>1. PICK n \in 1 .. Capacity : n = count[q] /\ n = count'[q] + 1
    BY <1>1
  <2>2. tail[q] = SlotOf(q, n)'
    BY <1>4, <2>1 DEF TailFollows
  <2>3. ASSUME NEW r \in QueueId
        PROVE  tail'[r] = SlotOf(r, count[r] + 1)'
    <3>1. CASE r = q
      BY <2>1, <2>2, <3>1 DEF Extract
    <3>2. CASE r # q
      BY <3>2 DEF Extract, QueueTypeOK, TailFollows, SlotOf
    <3> QED
      BY <3>1, <3>2
  <2> QED
    BY <2>3 DEF TailFollows
<1>10. Items' = [Items EXCEPT ![q] = Tail(Items[q])]
  BY <1>7, ItemsElsewhere DEF Extract, QueueTypeOK
<1> QED
  BY <1>5, <1>8, <1>9, <1>10

\* An overwrite of a full queue drops the oldest item.
LEMMA Displacing ==
    ASSUME QueueTypeOK, QueueTypeOK', TailFollows,
           NEW q \in QueueId, NEW x \in Item, Displace(q, x), Full(q), capacity[q] # 0
    PROVE  /\ Items' = [Items EXCEPT ![q] = Append(Tail(Items[q]), x)]
           /\ Len(Items[q]) = Capacity
           /\ TailFollows'
<1>1. /\ Capacity \in Nat \ {0} /\ count[q] = Capacity /\ count' = count
  <2>1. /\ count[q] \in 0 .. Capacity /\ Capacity \in Nat \ {0}
        /\ capacity[q] \in {0, Capacity} /\ count' = count
    BY QueueAssumption DEF QueueTypeOK, Displace
  <2> QED
    BY <2>1 DEF Full
<1>2. /\ Items[q] \in Seq(Item) /\ Len(Items[q]) = count[q]
      /\ \A i \in 1 .. count[q] : Items[q][i] = buffer[q][SlotOf(q, i)]
  BY ItemsType DEF ItemsListed
<1>3. /\ Items'[q] \in Seq(Item) /\ Len(Items'[q]) = count'[q]
      /\ \A i \in 1 .. count'[q] : Items'[q][i] = buffer'[q][SlotOf(q, i)']
  BY ItemsTypeNext DEF ItemsListed
<1>4. \A i \in 1 .. Capacity : SlotOf(q, i)' = SlotOf(q, i + 1)
  BY SlotsShift DEF Displace
<1>5. tail[q] = head[q] /\ tail[q] = SlotOf(q, 1) /\ tail[q] = SlotOf(q, Capacity + 1)
  BY <1>1, Slots DEF TailFollows
<1>6. /\ buffer[q] \in [0 .. Capacity - 1 -> Item]
      /\ buffer'[q] = [buffer[q] EXCEPT ![tail[q]] = x]
  BY DEF Displace, QueueTypeOK
<1>7. Items[q] # << >>
  BY <1>1, <1>2
<1>8. /\ Tail(Items[q]) \in Seq(Item) /\ Len(Tail(Items[q])) = Capacity - 1
      /\ \A i \in 1 .. Capacity - 1 : Tail(Items[q])[i] = Items[q][i + 1]
  BY <1>1, <1>2, <1>7, HeadTailProperties
<1>9. ASSUME NEW i \in 1 .. Len(Tail(Items[q]))
      PROVE  Items'[q][i] = Tail(Items[q])[i]
  <2>1. /\ i \in 1 .. Capacity - 1 /\ i \in 1 .. Capacity /\ i + 1 \in 1 .. Capacity
        /\ 1 \in 1 .. Capacity /\ i + 1 # 1
    BY <1>1, <1>8
  <2>2. Items'[q][i] = buffer'[q][SlotOf(q, i + 1)]
    BY <1>1, <1>3, <1>4, <2>1
  <2>3. SlotOf(q, i + 1) # tail[q] /\ SlotOf(q, i + 1) \in 0 .. Capacity - 1
    BY <1>5, <2>1, Slots
  <2>4. buffer'[q][SlotOf(q, i + 1)] = buffer[q][SlotOf(q, i + 1)]
    BY <1>6, <2>3
  <2>5. Tail(Items[q])[i] = buffer[q][SlotOf(q, i + 1)]
    BY <1>1, <1>2, <1>8, <2>1
  <2> QED
    BY <2>2, <2>4, <2>5
<1>10. Items'[q][Capacity] = x
  <2>1. Capacity \in 1 .. Capacity
    BY <1>1
  <2>2. Items'[q][Capacity] = buffer'[q][tail[q]]
    BY <1>1, <1>3, <1>4, <1>5, <2>1
  <2>3. tail[q] \in 0 .. Capacity - 1
    BY DEF QueueTypeOK
  <2> QED
    BY <1>6, <2>2, <2>3
<1>11. Items'[q] = Append(Tail(Items[q]), x)
  <2>1. Len(Items'[q]) = Len(Tail(Items[q])) + 1 /\ Len(Tail(Items[q])) + 1 = Capacity
    BY <1>1, <1>2, <1>3, <1>8
  <2>2. Items'[q][Len(Tail(Items[q])) + 1] = x
    BY <1>10, <2>1
  <2> QED
    BY <1>3, <1>8, <1>9, <2>1, <2>2, ItemJoins
<1>12. TailFollows'
  <2>1. Capacity \in 1 .. Capacity /\ 1 \in 1 .. Capacity
    BY <1>1
  <2>2. SlotOf(q, Capacity + 1)' = Succ(tail[q])
    <3>1. SlotOf(q, Capacity + 1)' = head'[q]
      <4>1. head'[q] \in 0 .. Capacity - 1
        BY DEF QueueTypeOK
      <4> QED
        BY <1>1, <4>1 DEF SlotOf
    <3> QED
      BY <1>5, <3>1 DEF Displace, QueueTypeOK
  <2>3. ASSUME NEW r \in QueueId
        PROVE  tail'[r] = SlotOf(r, count[r] + 1)'
    <3>1. CASE r = q
      BY <1>1, <2>2, <3>1 DEF Displace, QueueTypeOK
    <3>2. CASE r # q
      BY <3>2 DEF Displace, QueueTypeOK, TailFollows, SlotOf
    <3> QED
      BY <3>1, <3>2
  <2> QED
    BY <2>3 DEF TailFollows
<1>13. Items' = [Items EXCEPT ![q] = Append(Tail(Items[q]), x)]
  BY <1>11, ItemsElsewhere DEF Displace, QueueTypeOK
<1> QED
  BY <1>1, <1>2, <1>12, <1>13

\* init_dynamic and cleanup empty the queue.
LEMMA Emptying ==
    ASSUME QueueTypeOK, QueueTypeOK', TailFollows, NEW q \in QueueId, Emptied(q)
    PROVE  /\ Items' = [Items EXCEPT ![q] = << >>]
           /\ TailFollows'
<1>1. head'[q] = 0 /\ tail'[q] = 0 /\ count'[q] = 0 /\ Capacity \in Nat \ {0}
  BY QueueAssumption DEF Emptied, QueueTypeOK
<1>2. Items'[q] = << >>
  <2>1. Items'[q] \in Seq(Item) /\ Len(Items'[q]) = 0
    BY <1>1, ItemsTypeNext DEF ItemsListed
  <2> QED
    BY <2>1
<1>3. TailFollows'
  <2> SUFFICES ASSUME NEW r \in QueueId
               PROVE  tail'[r] = SlotOf(r, count[r] + 1)'
    BY DEF TailFollows
  <2>1. CASE r = q
    BY <1>1, <2>1 DEF SlotOf
  <2>2. CASE r # q
    BY <2>2 DEF Emptied, QueueTypeOK, TailFollows, SlotOf
  <2> QED
    BY <2>1, <2>2
<1>4. Items' = [Items EXCEPT ![q] = << >>]
  BY <1>2, ItemsElsewhere DEF Emptied, QueueTypeOK
<1> QED
  BY <1>3, <1>4

\* Nothing else changes the items.
LEMMA ItemsStay ==
    ASSUME TailFollows, UNCHANGED ringVars
    PROVE  UNCHANGED <<Items, copied>> /\ TailFollows'
BY DEF ringVars, Items, SlotOf, TailFollows

\* Every step is a step of the queue it implements.
LEMMA FifoStep ==
    ASSUME QueueTypeOK, QueueTypeOK', TailFollows, [Next]_vars
    PROVE  TailFollows' /\ [Promise!Next]_<<Items, copied>>
<1> DEFINE Step == TailFollows' /\ [Promise!Next]_<<Items, copied>>
<1>1. ASSUME NEW q \in QueueId, NEW x \in Item, Insert(q, x), ~Full(q)
      PROVE  Step
  <2>1. Promise!Put(q, x)
    BY <1>1, Entering DEF Promise!Put, Insert
  <2> QED
    BY <1>1, <2>1, Entering DEF Promise!Next
<1>2. ASSUME NEW q \in QueueId, NEW x \in Item, Displace(q, x), Full(q), capacity[q] # 0
      PROVE  Step
  <2>1. Promise!Displace(q, x)
    BY <1>2, Displacing DEF Promise!Displace, Displace
  <2> QED
    BY <1>2, <2>1, Displacing DEF Promise!Next
<1>3. ASSUME NEW q \in QueueId, Extract(q), count[q] > 0
      PROVE  Step
  <2>1. Promise!Take(q)
    BY <1>3, Leaves DEF Promise!Take
  <2> QED
    BY <1>3, <2>1, Leaves DEF Promise!Next
<1>4. ASSUME NEW q \in QueueId, Emptied(q)
      PROVE  Step
  <2>1. Promise!Clear(q)
    BY <1>4, Emptying DEF Promise!Clear, Emptied
  <2> QED
    BY <1>4, <2>1, Emptying DEF Promise!Next
<1>5. ASSUME UNCHANGED ringVars
      PROVE  Step
  BY <1>5, ItemsStay
<1> HIDE DEF Step
<1>6. ASSUME NEW q \in QueueId, QueueStep(q)
      PROVE  Step
  BY <1>1, <1>2, <1>3, <1>4, <1>5, <1>6
  DEF QueueStep, IsrSend, IsrReceive, ModeSet, InitDynamic, Cleanup
<1>7. ASSUME NEW t \in Task, SendReceiveStep(t)
      PROVE  Step
  BY <1>1, <1>2, <1>3, <1>5, <1>7
  DEF SendReceiveStep, SendOk, SendDisplacing, SendFail, SendBlock, SendLastTry,
      ReceiveOk, ReceiveFail, ReceiveBlock, ReceiveTimedOut, queueVars
<1>8. ASSUME UNCHANGED queueVars
      PROVE  Step
  BY <1>5, <1>8 DEF queueVars
<1>9. Step
  BY <1>6, <1>7, <1>8 DEF Next, ObjectStep, CallStep, vars, objectVars
<1> QED
  BY <1>9 DEF Step

\* The ring implements the queue: items leave it in the order they entered,
\* each once, from tasks and interrupt handlers, on any number of cores,
\* across overwriting, cleanup and a new buffer.
THEOREM FifoImplemented == Spec => ImplementsFifo
<1>1. Init => QueueTypeOK /\ TailFollows /\ Promise!Init
  <2> SUFFICES ASSUME Init
               PROVE  QueueTypeOK /\ TailFollows /\ Promise!Init
    OBVIOUS
  <2>1. QueueTypeOK
    BY InitIInv DEF IInv
  <2>2. TailFollows
    BY QueueAssumption DEF Init, QueuesInit, TailFollows, SlotOf
  <2>3. Promise!Init
    <3>1. \A q \in QueueId : Items[q] = << >>
      <4>1. \A q \in QueueId : Items[q] \in Seq(Item) /\ Len(Items[q]) = 0
        BY <2>1, ItemsType DEF ItemsListed, Init, QueuesInit
      <4> QED
        BY <4>1
    <3>2. Items = [q \in QueueId |-> << >>]
      BY <3>1 DEF Items
    <3> QED
      BY <3>2 DEF Init, QueuesInit, Promise!Init
  <2> QED
    BY <2>1, <2>2, <2>3
<1>2. QueueTypeOK /\ TailFollows /\ [Next]_vars
         => (QueueTypeOK /\ TailFollows)' /\ [Promise!Next]_<<Items, copied>>
  BY QueueTypeStep, FifoStep
<1> QED
  BY <1>1, <1>2, PTL DEF Spec, ImplementsFifo, Promise!Spec
=============================================================================
