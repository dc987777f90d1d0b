---------------------------- MODULE WaitingProofs ----------------------------
(***************************************************************************)
(* What the waiting machinery keeps for every object built on it, for any  *)
(* number of tasks, lists, priorities and cores: the waiter lists are      *)
(* exact, a woken task is able to look at what it was woken for, and a     *)
(* wait for ever is never reported as a timeout.                           *)
(*                                                                         *)
(* The module of an object cites WaitingKept: it shows only that its steps *)
(* are WaitingStep as far as the waiting machinery is concerned.           *)
(***************************************************************************)
EXTENDS Waiting, OsListProofs, FiniteSetTheorems

-----------------------------------------------------------------------------
(* The inductive invariant.                                                *)

\* A RUNNING task is on a core.
RunningOnCore == \A t \in Task : state[t] = "RUNNING" => t \in onCore

\* A wait for ever that is over was ended by a signal.
ForeverSignaled ==
    \A t \in Task :
        timeout[t] = "forever" /\ pc[t] = "wait" /\ state[t] # "BLOCKED" => signaled[t]

\* A task outside of a blocking call has no spent budget.
IdleCall == \A t \in Task : pc[t] = "out" => ~spent[t]

WInv ==
    /\ WaitingTypeOK
    /\ WaitersExact
    /\ WaitersSorted
    /\ WokenAlive
    /\ RunningOnCore
    /\ ForeverSignaled
    /\ ForeverWaits
    /\ IdleCall

-----------------------------------------------------------------------------
(* What the helpers do.                                                    *)

\* The facts about the variables that most steps below start from.
LEMMA Basics ==
    ASSUME WInv
    PROVE  /\ state \in [Task -> {"INACTIVE", "SUSPENDED", "READY", "RUNNING", "BLOCKED"}]
           /\ signaled \in [Task -> BOOLEAN]
           /\ wokenFrom \in [Task -> WaitList \cup {NoList}]
           /\ waiters \in [WaitList -> Seq(Task)]
           /\ pc \in [Task -> {"out", "try", "wait", "expired", "ask", "asleep"}]
           /\ target \in [Task -> WaitList]
           /\ timeout \in [Task -> Timeout] /\ spent \in [Task -> BOOLEAN]
           /\ delayed \subseteq Task /\ onCore \subseteq Task
           /\ \A s \in WaitList : /\ NoRepeat(waiters[s])
                                   /\ Members(waiters[s]) \subseteq Task
           /\ \A s \in WaitList, t \in Task :
                 t \in Members(waiters[s])
                    <=> state[t] = "BLOCKED" /\ pc[t] = "wait" /\ target[t] = s
BY MembersOfSeq DEF WInv, WaitingTypeOK, WaitersExact

\* Taking one task out of each list, if it is there.
LEMMA Leaving ==
    ASSUME WInv, NEW gone \in SUBSET Task,
           \A s \in WaitList : \A t, u \in gone \cap Members(waiters[s]) : t = u
    PROVE  /\ WaitersWithout(gone) \in [WaitList -> Seq(Task)]
           /\ \A s \in WaitList :
                 /\ NoRepeat(WaitersWithout(gone)[s])
                 /\ Members(WaitersWithout(gone)[s]) = Members(waiters[s]) \ gone
<1>1. \A s \in WaitList : waiters[s] \in Seq(Task) /\ NoRepeat(waiters[s])
  BY Basics
<1>2. ASSUME NEW s \in WaitList
      PROVE  /\ WaitersWithout(gone)[s] \in Seq(Task)
             /\ NoRepeat(WaitersWithout(gone)[s])
             /\ Members(WaitersWithout(gone)[s]) = Members(waiters[s]) \ gone
  <2>1. CASE gone \cap Members(waiters[s]) = {}
    BY <1>1, <2>1 DEF WaitersWithout
  <2>2. CASE gone \cap Members(waiters[s]) # {}
    <3> DEFINE t == CHOOSE u \in gone \cap Members(waiters[s]) : TRUE
    <3>1. t \in gone \cap Members(waiters[s])
      BY <2>2
    <3>2. WaitersWithout(gone)[s] = ListRemove(waiters[s], t)
      BY <2>2 DEF WaitersWithout
    <3> HIDE DEF t
    <3>3. gone \cap Members(waiters[s]) = {t}
      BY <3>1
    <3>4. /\ ListRemove(waiters[s], t) \in Seq(Task)
          /\ NoRepeat(ListRemove(waiters[s], t))
          /\ Members(ListRemove(waiters[s], t)) = Members(waiters[s]) \ {t}
      BY <1>1, RemoveMembers
    <3> QED
      BY <3>2, <3>3, <3>4
  <2> QED
    BY <2>1, <2>2
<1> QED
  BY <1>2 DEF WaitersWithout

\* A single task can always leave.
LEMMA LeavingOne ==
    ASSUME WInv, NEW t \in Task
    PROVE  /\ WaitersWithout({t}) \in [WaitList -> Seq(Task)]
           /\ \A s \in WaitList :
                 /\ NoRepeat(WaitersWithout({t})[s])
                 /\ Members(WaitersWithout({t})[s]) = Members(waiters[s]) \ {t}
<1>1. \A s \in WaitList : \A u, v \in {t} \cap Members(waiters[s]) : u = v
  OBVIOUS
<1> QED
  BY <1>1, Leaving

\* The task at the head of a list is one of its waiters.
LEMMA WakingMember ==
    ASSUME WInv, NEW s \in WaitList
    PROVE  /\ Waking(s) \subseteq Members(waiters[s])
           /\ waiters[s] # << >> => \E t \in Task : Waking(s) = {t}
           /\ waiters[s] = << >> => Waking(s) = {}
<1>1. waiters[s] \in Seq(Task)
  BY Basics
<1>2. CASE waiters[s] = << >>
  BY <1>2 DEF Waking
<1>3. CASE waiters[s] # << >>
  <2>1. 1 \in DOMAIN waiters[s] /\ Head(waiters[s]) = waiters[s][1]
        /\ Head(waiters[s]) \in Task
    BY <1>1, <1>3
  <2> QED
    BY <1>3, <2>1 DEF Waking, Members
<1> QED
  BY <1>2, <1>3

\* Where a wakeup that t does not consume goes: to the head of the list it
\* came from, a waiter there and nowhere else.
LEMMA CompensatingMember ==
    ASSUME WInv, NEW t \in Task
    PROVE  /\ Compensating(t) \subseteq Task
           /\ \A u \in Compensating(t) :
                 /\ Unconsumed(t) /\ wokenFrom[t] \in WaitList
                 /\ u \in Members(waiters[wokenFrom[t]])
                 /\ Compensating(t) = {u}
                 /\ u # t /\ state[u] = "BLOCKED"
           /\ Unconsumed(t) /\ waiters[wokenFrom[t]] # << >> => Compensating(t) # {}
           /\ \A s \in WaitList :
                 \A u, v \in ({t} \cup Compensating(t)) \cap Members(waiters[s]) : u = v
<1>1. CASE ~Unconsumed(t)
  BY <1>1 DEF Compensating
<1>2. CASE Unconsumed(t)
  <2>1. wokenFrom[t] \in WaitList /\ state[t] = "READY"
    BY <1>2, Basics DEF Unconsumed
  <2>2. Compensating(t) = Waking(wokenFrom[t])
    BY <1>2 DEF Compensating
  <2>3. /\ Waking(wokenFrom[t]) \subseteq Members(waiters[wokenFrom[t]])
        /\ waiters[wokenFrom[t]] # << >> => \E u \in Task : Waking(wokenFrom[t]) = {u}
        /\ waiters[wokenFrom[t]] = << >> => Waking(wokenFrom[t]) = {}
    BY <2>1, WakingMember
  <2>4. \A u \in Compensating(t) : u \in Task /\ state[u] = "BLOCKED" /\ u # t
    BY <2>1, <2>2, <2>3, Basics
  <2>5. \A s \in WaitList : t \notin Members(waiters[s])
    BY <2>1, Basics
  <2> QED
    BY <1>2, <2>1, <2>2, <2>3, <2>4, <2>5
<1> QED
  BY <1>1, <1>2

\* os_task_wait_node_insert adds t to a list it is not in.
LEMMA Joining ==
    ASSUME NEW list \in Seq(Task), NEW t \in Task, NEW i \in 1 .. Len(list) + 1,
           NoRepeat(list), t \notin Members(list)
    PROVE  /\ ListInsertBefore(list, i, t) \in Seq(Task)
           /\ NoRepeat(ListInsertBefore(list, i, t))
           /\ Members(ListInsertBefore(list, i, t)) = Members(list) \cup {t}
BY InsertMembers

-----------------------------------------------------------------------------
(* Types.                                                                  *)

\* A wake takes at most one task out of each list, a waiter of list s.
LEMMA WakesFacts ==
    ASSUME WInv, NEW s \in WaitList, NEW enders, Wakes(s, enders)
    PROVE  /\ Waking(s) \in SUBSET Task
           /\ \A u \in Waking(s) : /\ state[u] = "BLOCKED" /\ pc[u] = "wait"
                                   /\ target[u] = s
           /\ \A r \in WaitList :
                 /\ waiters'[r] \in Seq(Task) /\ NoRepeat(waiters'[r])
                 /\ Members(waiters'[r]) = Members(waiters[r]) \ Waking(s)
           /\ waiters' \in [WaitList -> Seq(Task)]
<1>1. /\ Waking(s) \in SUBSET Task
      /\ \A u \in Waking(s) : u \in Members(waiters[s]) /\ u \in Task
      /\ \A r \in WaitList : \A t, u \in Waking(s) \cap Members(waiters[r]) : t = u
  BY WakingMember, Basics
<1>2. \A u \in Waking(s) : state[u] = "BLOCKED" /\ pc[u] = "wait" /\ target[u] = s
  BY <1>1, Basics
<1>3. waiters' = WaitersWithout(Waking(s))
  BY DEF Wakes
<1>4. /\ waiters' \in [WaitList -> Seq(Task)]
      /\ \A r \in WaitList :
            NoRepeat(waiters'[r]) /\ Members(waiters'[r]) = Members(waiters[r]) \ Waking(s)
  <2>1. /\ Waking(s) \in SUBSET Task
        /\ \A r \in WaitList : \A t, u \in Waking(s) \cap Members(waiters[r]) : t = u
    BY <1>1
  <2> QED
    BY <1>3, <2>1, Leaving
<1> QED
  BY <1>1, <1>2, <1>4

\* Every step preserves the types.
LEMMA TypeStep ==
    ASSUME WInv, WaitingStep
    PROVE  WaitingTypeOK'
<1> USE DEF tcbVars, callVars, waitingVars
<1>a. WaitingTypeOK
  BY DEF WInv
<1>1. ASSUME NEW t \in Task, NEW s \in WaitList, NEW limit \in Timeout, Call(t, s, limit)
      PROVE  WaitingTypeOK'
  BY <1>1, <1>a DEF Call, WaitingTypeOK
<1>2. ASSUME NEW t \in Task, Expire(t)
      PROVE  WaitingTypeOK'
  <2>1. waiters' \in [WaitList -> Seq(Task)]
    BY <1>2, LeavingOne DEF Expire
  <2> QED
    BY <1>2, <1>a, <2>1 DEF Expire, WaitingTypeOK
<1>3. ASSUME NEW t \in Task, Start(t)
      PROVE  WaitingTypeOK'
  <2>1. waiters' \in [WaitList -> Seq(Task)]
    BY <1>3, LeavingOne DEF Start
  <2> QED
    BY <1>3, <1>a, <2>1 DEF Start, WaitingTypeOK
<1>4. ASSUME NEW t \in Task, Pause(t)
      PROVE  WaitingTypeOK'
  <2>1. waiters' \in [WaitList -> Seq(Task)]
    <3>1. ({t} \cup Compensating(t)) \in SUBSET Task
      BY CompensatingMember
    <3>2. waiters' = WaitersWithout({t} \cup Compensating(t))
      BY <1>4 DEF Pause
    <3>3. \A s \in WaitList :
             \A u, v \in ({t} \cup Compensating(t)) \cap Members(waiters[s]) : u = v
      BY CompensatingMember
    <3> QED
      BY <3>1, <3>2, <3>3, Leaving
  <2> QED
    BY <1>4, <1>a, <2>1 DEF Pause, WaitingTypeOK
<1>5. ASSUME NEW t \in Task, Delete(t)
      PROVE  WaitingTypeOK'
  <2>1. waiters' \in [WaitList -> Seq(Task)]
    <3>1. ({t} \cup Compensating(t)) \in SUBSET Task
      BY CompensatingMember
    <3>2. waiters' = WaitersWithout({t} \cup Compensating(t))
      BY <1>5 DEF Delete
    <3>3. \A s \in WaitList :
             \A u, v \in ({t} \cup Compensating(t)) \cap Members(waiters[s]) : u = v
      BY CompensatingMember
    <3> QED
      BY <3>1, <3>2, <3>3, Leaving
  <2> QED
    BY <1>5, <1>a, <2>1 DEF Delete, Return, WaitingTypeOK, Timeout
<1>6. ASSUME NEW t \in Task, NEW p \in Prio, Create(t, p)
      PROVE  WaitingTypeOK'
  BY <1>6, <1>a DEF Create, WaitingTypeOK
<1>7. ASSUME NEW t \in Task, NEW p \in Prio, Reprioritize(t, p)
      PROVE  WaitingTypeOK'
  <2>1. waiters' \in [WaitList -> Seq(Task)]
    <3>1. /\ target[t] \in WaitList
          /\ WaitersWithout({t}) \in [WaitList -> Seq(Task)]
      BY Basics, LeavingOne
    <3>2. CASE t \in Members(waiters[target[t]]) /\ p # prio[t]
      <4> DEFINE rest == WaitersWithout({t})
      <4>1. PICK i \in 1 .. Len(rest[target[t]]) + 1 :
               waiters' = [rest EXCEPT ![target[t]] = ListInsertBefore(@, i, t)]
        BY <1>7, <3>2 DEF Reprioritize
      <4> HIDE DEF rest
      <4>2. rest \in [WaitList -> Seq(Task)] /\ rest[target[t]] \in Seq(Task)
        BY <3>1 DEF rest
      <4>3. ListInsertBefore(rest[target[t]], i, t) \in Seq(Task)
        BY <4>2, InsertMembers
      <4> QED
        BY <4>1, <4>2, <4>3
    <3>3. CASE ~(t \in Members(waiters[target[t]]) /\ p # prio[t])
      BY <1>7, <1>a, <3>3 DEF Reprioritize, WaitingTypeOK
    <3> QED
      BY <3>2, <3>3
  <2> QED
    BY <1>7, <1>a, <2>1 DEF Reprioritize, WaitingTypeOK
<1>8. ASSUME NEW t \in Task, Dispatch(t)
      PROVE  WaitingTypeOK'
  BY <1>8, <1>a DEF Dispatch, WaitingTypeOK
<1>9. ASSUME NEW t \in Task, SwitchOut(t)
      PROVE  WaitingTypeOK'
  BY <1>9, <1>a DEF SwitchOut, WaitingTypeOK
<1>10. ASSUME NEW t \in Task, Resume(t)
       PROVE  WaitingTypeOK'
  BY <1>10, <1>a DEF Resume, WaitingTypeOK
<1>11. ASSUME NEW t \in Task, Finish(t)
       PROVE  WaitingTypeOK'
  BY <1>11, <1>a DEF Finish, WaitEnd, Return, WaitingTypeOK, Timeout
<1>12. ASSUME NEW t \in Task, TryOnce(t)
       PROVE  WaitingTypeOK'
  BY <1>12, <1>a DEF TryOnce, WaitEnd, WaitingTypeOK
<1>13. ASSUME NEW t \in Task, WaitBegin(t)
       PROVE  WaitingTypeOK'
  <2>1. target[t] \in WaitList /\ waiters[target[t]] \in Seq(Task)
    BY Basics
  <2>2. waiters' \in [WaitList -> Seq(Task)]
    BY <1>13, <1>a, <2>1, InsertMembers DEF WaitBegin, WaitingTypeOK
  <2> QED
    BY <1>13, <1>a, <2>2 DEF WaitBegin, WaitingTypeOK
<1>14. ASSUME NEW s \in WaitList, NEW t \in Task, FinishWaking(t, s)
       PROVE  WaitingTypeOK'
  <2>1. Waking(s) \in SUBSET Task /\ waiters' \in [WaitList -> Seq(Task)]
    BY <1>14, WakesFacts DEF FinishWaking
  <2> QED
    BY <1>14, <1>a, <2>1 DEF FinishWaking, Wakes, Return, WaitingTypeOK, Timeout
<1>15. ASSUME NEW s \in WaitList, WakeOne(s)
       PROVE  WaitingTypeOK'
  <2>1. Waking(s) \in SUBSET Task /\ waiters' \in [WaitList -> Seq(Task)]
    BY <1>15, WakesFacts DEF WakeOne
  <2> QED
    BY <1>15, <1>a, <2>1 DEF WakeOne, Wakes, WaitingTypeOK
<1>16. CASE UNCHANGED waitingVars
  BY <1>16, <1>a DEF WaitingTypeOK
<1> QED
  BY <1>1, <1>2, <1>3, <1>4, <1>5, <1>6, <1>7, <1>8, <1>9, <1>10, <1>11, <1>12, <1>13,
     <1>14, <1>15, <1>16
  DEF WaitingStep, WaitStep, ControlStep, TimedOut

-----------------------------------------------------------------------------
(* The waiter lists.                                                       *)

\* os_task_effective_priority_set moves t within its list and changes no
\* membership.
LEMMA ReprioritizeStays ==
    ASSUME WInv, NEW t \in Task, NEW p \in Prio, Reprioritize(t, p)
    PROVE  \A r \in WaitList : /\ NoRepeat(waiters'[r])
                               /\ Members(waiters'[r]) = Members(waiters[r]) \ {}
<1> DEFINE s == target[t]
           rest == WaitersWithout({t})
<1>1. CASE ~(t \in Members(waiters[s]) /\ p # prio[t])
  BY <1>1, Basics DEF Reprioritize
<1>2. CASE t \in Members(waiters[s]) /\ p # prio[t]
  <2>1. PICK i \in 1 .. Len(rest[s]) + 1 :
           waiters' = [rest EXCEPT ![s] = ListInsertBefore(@, i, t)]
    BY <1>2 DEF Reprioritize
  <2>2. /\ rest \in [WaitList -> Seq(Task)]
        /\ \A r \in WaitList : /\ NoRepeat(rest[r])
                               /\ Members(rest[r]) = Members(waiters[r]) \ {t}
    BY LeavingOne
  <2>3. s \in WaitList /\ \A r \in WaitList : r # s => t \notin Members(waiters[r])
    BY <1>2, Basics
  <2> HIDE DEF rest, s
  <2>4. /\ NoRepeat(ListInsertBefore(rest[s], i, t))
        /\ Members(ListInsertBefore(rest[s], i, t)) = Members(rest[s]) \cup {t}
    BY <2>2, <2>3, Joining
  <2>5. \A r \in WaitList :
           waiters'[r] = IF r = s THEN ListInsertBefore(rest[s], i, t) ELSE rest[r]
    BY <2>1, <2>2, <2>3
  <2> QED
    BY <1>2, <2>2, <2>3, <2>4, <2>5
<1> QED
  BY <1>1, <1>2

\* os_task_wait_signaled concerns the task itself.
LEMMA ResumeOther ==
    ASSUME WInv, NEW t \in Task, Resume(t)
    PROVE  /\ \A u \in Task : u # t => pc'[u] = pc[u] /\ spent'[u] = spent[u]
           /\ signaled[t] => /\ pc'[t] = "try"
                             /\ timeout[t] # "finite" => spent'[t] = FALSE
           /\ ~signaled[t] => pc'[t] = "expired" /\ spent'[t] = spent[t]
<1>1. CASE signaled[t]
  <2>1. PICK zero \in IF timeout[t] = "finite" THEN BOOLEAN ELSE {FALSE} :
           spent' = [spent EXCEPT ![t] = zero]
    BY <1>1 DEF Resume
  <2>2. pc' = [pc EXCEPT ![t] = "try"]
    BY <1>1 DEF Resume
  <2>3. zero \in BOOLEAN /\ (timeout[t] # "finite" => zero = FALSE)
    BY <2>1
  <2>4. \A u \in Task : /\ u # t => pc'[u] = pc[u] /\ spent'[u] = spent[u]
                        /\ u = t => pc'[u] = "try" /\ spent'[u] = zero
    BY <2>1, <2>2, Basics
  <2> QED
    BY <1>1, <2>3, <2>4
<1>2. CASE ~signaled[t]
  BY <1>2, Basics DEF Resume
<1> QED
  BY <1>1, <1>2

\* A step by which the tasks of gone, and no others, stop being BLOCKED and
\* leave their lists.
LEMMA WaitersFrame ==
    ASSUME WInv, NEW gone \in SUBSET Task,
           \A s \in WaitList :
              NoRepeat(waiters'[s]) /\ Members(waiters'[s]) = Members(waiters[s]) \ gone,
           \A t \in Task : state'[t] = "BLOCKED" <=> state[t] = "BLOCKED" /\ t \notin gone,
           \A t \in Task : state'[t] = "BLOCKED" =>
              pc'[t] = pc[t] /\ target'[t] = target[t] /\ timeout'[t] = timeout[t],
           delayed' \subseteq delayed \ gone
    PROVE  WaitersExact'
<1>1. ASSUME NEW s \in WaitList, NEW t \in Task
      PROVE  t \in Members(waiters'[s])
                <=> state'[t] = "BLOCKED" /\ pc'[t] = "wait" /\ target'[t] = s
  <2>1. t \in Members(waiters[s])
           <=> state[t] = "BLOCKED" /\ pc[t] = "wait" /\ target[t] = s
    BY Basics
  <2> QED
    BY <2>1
<1>2. \A t \in delayed' : state'[t] = "BLOCKED" /\ timeout'[t] = "finite"
  <2>1. \A t \in delayed : t \in Task /\ state[t] = "BLOCKED" /\ timeout[t] = "finite"
    BY Basics DEF WInv, WaitersExact
  <2> QED
    BY <2>1
<1> QED
  BY <1>1, <1>2 DEF WaitersExact

\* A step by which nobody stops being BLOCKED.
LEMMA WaitersStay ==
    ASSUME WInv, UNCHANGED <<waiters, delayed>>,
           \A t \in Task : state'[t] = "BLOCKED" <=> state[t] = "BLOCKED",
           \A t \in Task : state'[t] = "BLOCKED" =>
              pc'[t] = pc[t] /\ target'[t] = target[t] /\ timeout'[t] = timeout[t]
    PROVE  WaitersExact'
<1>1. \A s \in WaitList :
         NoRepeat(waiters'[s]) /\ Members(waiters'[s]) = Members(waiters[s]) \ {}
  BY Basics
<1>2. {} \in SUBSET Task /\ delayed' \subseteq delayed \ {}
  OBVIOUS
<1>3. \A t \in Task : state'[t] = "BLOCKED" <=> state[t] = "BLOCKED" /\ t \notin {}
  OBVIOUS
<1> QED
  BY <1>1, <1>2, <1>3, WaitersFrame

\* Every step keeps the waiter lists exact.
LEMMA WaitersStep ==
    ASSUME WInv, WaitingStep
    PROVE  WaitersExact'
<1> USE DEF tcbVars, callVars, waitingVars
<1>1. ASSUME NEW t \in Task, NEW s \in WaitList, NEW limit \in Timeout, Call(t, s, limit)
      PROVE  WaitersExact'
  BY <1>1, Basics, WaitersStay DEF Call, Executing
<1>2. ASSUME NEW t \in Task, Expire(t)
      PROVE  WaitersExact'
  <2>1. \A s \in WaitList :
           NoRepeat(waiters'[s]) /\ Members(waiters'[s]) = Members(waiters[s]) \ {t}
    BY <1>2, LeavingOne DEF Expire
  <2>2. /\ \A u \in Task : state'[u] = IF u = t THEN "READY" ELSE state[u]
        /\ UNCHANGED <<pc, target, timeout>> /\ delayed' = delayed \ {t}
    BY <1>2, Basics DEF Expire
  <2> QED
    BY <2>1, <2>2, WaitersFrame
<1>3. ASSUME NEW t \in Task, Start(t)
      PROVE  WaitersExact'
  <2>1. \A s \in WaitList :
           NoRepeat(waiters'[s]) /\ Members(waiters'[s]) = Members(waiters[s]) \ {t}
    BY <1>3, LeavingOne DEF Start
  <2>2. /\ \A u \in Task : u # t => state'[u] = state[u]
        /\ state'[t] # "BLOCKED"
        /\ UNCHANGED <<pc, target, timeout>> /\ delayed' = delayed \ {t}
    BY <1>3, Basics DEF Start
  <2> QED
    BY <2>1, <2>2, WaitersFrame
<1>4. ASSUME NEW t \in Task, Pause(t)
      PROVE  WaitersExact'
  <2> DEFINE gone == {t} \cup Compensating(t)
  <2>1. gone \in SUBSET Task
    BY CompensatingMember
  <2>2. \A s \in WaitList :
           NoRepeat(waiters'[s]) /\ Members(waiters'[s]) = Members(waiters[s]) \ gone
    BY <1>4, <2>1, Leaving, CompensatingMember DEF Pause
  <2>3. /\ \A u \in Task : state'[u] = IF u = t THEN "SUSPENDED"
                                       ELSE IF u \in gone THEN "READY" ELSE state[u]
        /\ UNCHANGED <<pc, target, timeout>> /\ delayed' = delayed \ gone
    BY <1>4 DEF Pause
  <2> HIDE DEF gone
  <2>4. t \in gone
    BY DEF gone
  <2> QED
    BY <2>1, <2>2, <2>3, <2>4, WaitersFrame
<1>5. ASSUME NEW t \in Task, Delete(t)
      PROVE  WaitersExact'
  <2> DEFINE gone == {t} \cup Compensating(t)
  <2>1. gone \in SUBSET Task
    BY CompensatingMember
  <2>2. \A s \in WaitList :
           NoRepeat(waiters'[s]) /\ Members(waiters'[s]) = Members(waiters[s]) \ gone
    BY <1>5, <2>1, Leaving, CompensatingMember DEF Delete
  <2>3. /\ \A u \in Task : state'[u] = IF u = t THEN "INACTIVE"
                                       ELSE IF u \in gone THEN "READY" ELSE state[u]
        /\ \A u \in Task : u # t => /\ pc'[u] = pc[u] /\ timeout'[u] = timeout[u]
        /\ UNCHANGED target /\ delayed' = delayed \ gone
    BY <1>5, Basics DEF Delete, Return
  <2> HIDE DEF gone
  <2>4. t \in gone
    BY DEF gone
  <2> QED
    BY <2>1, <2>2, <2>3, <2>4, WaitersFrame
<1>6. ASSUME NEW t \in Task, NEW p \in Prio, Create(t, p)
      PROVE  WaitersExact'
  BY <1>6, Basics, WaitersStay DEF Create
<1>7. ASSUME NEW t \in Task, NEW p \in Prio, Reprioritize(t, p)
      PROVE  WaitersExact'
  <2>1. UNCHANGED <<state, pc, target, timeout, delayed>>
    BY <1>7 DEF Reprioritize
  <2>2. \A r \in WaitList :
           NoRepeat(waiters'[r]) /\ Members(waiters'[r]) = Members(waiters[r]) \ {}
    BY <1>7, ReprioritizeStays
  <2>3. /\ {} \in SUBSET Task /\ delayed' \subseteq delayed \ {}
        /\ \A u \in Task : state'[u] = "BLOCKED" <=> state[u] = "BLOCKED" /\ u \notin {}
    BY <2>1
  <2> QED
    BY <2>1, <2>2, <2>3, WaitersFrame
<1>8. ASSUME NEW t \in Task, Dispatch(t)
      PROVE  WaitersExact'
  BY <1>8, Basics, WaitersStay DEF Dispatch
<1>9. ASSUME NEW t \in Task, SwitchOut(t)
      PROVE  WaitersExact'
  BY <1>9, Basics, WaitersStay DEF SwitchOut
<1>10. ASSUME NEW t \in Task, Resume(t)
       PROVE  WaitersExact'
  <2>1. /\ UNCHANGED <<waiters, delayed, state, target, timeout>>
        /\ state[t] # "BLOCKED"
    BY <1>10 DEF Resume, Executing
  <2>2. \A u \in Task : u # t => pc'[u] = pc[u]
    BY <1>10, ResumeOther
  <2> QED
    BY <2>1, <2>2, WaitersStay
<1>11. ASSUME NEW t \in Task, Executing(t), Finish(t)
       PROVE  WaitersExact'
  <2>1. /\ UNCHANGED <<waiters, delayed, state, target>>
        /\ state[t] # "BLOCKED"
    BY <1>11 DEF Finish, Return, Executing
  <2>2. \A u \in Task : u # t => pc'[u] = pc[u] /\ timeout'[u] = timeout[u]
    BY <1>11, Basics DEF Finish, Return
  <2> QED
    BY <2>1, <2>2, WaitersStay
<1>12. ASSUME NEW t \in Task, TryOnce(t)
       PROVE  WaitersExact'
  <2>1. /\ UNCHANGED <<waiters, delayed, state, target, timeout>>
        /\ state[t] # "BLOCKED"
    BY <1>12 DEF TryOnce, Executing
  <2>2. \A u \in Task : u # t => pc'[u] = pc[u]
    BY <1>12, Basics DEF TryOnce
  <2> QED
    BY <2>1, <2>2, WaitersStay
<1>13. ASSUME NEW t \in Task, Executing(t), WaitBegin(t)
       PROVE  WaitersExact'
  <2> DEFINE s == target[t]
  <2>1. /\ s \in WaitList /\ waiters[s] \in Seq(Task) /\ NoRepeat(waiters[s])
        /\ state[t] = "RUNNING" /\ \A r \in WaitList : t \notin Members(waiters[r])
    BY <1>13, Basics DEF Executing
  <2>2. PICK i \in 1 .. Len(waiters[s]) + 1 :
           waiters' = [waiters EXCEPT ![s] = ListInsertBefore(@, i, t)]
    BY <1>13 DEF WaitBegin
  <2>3. /\ \A u \in Task : state'[u] = IF u = t THEN "BLOCKED" ELSE state[u]
        /\ \A u \in Task : pc'[u] = IF u = t THEN "wait" ELSE pc[u]
        /\ UNCHANGED <<target, timeout>>
        /\ delayed' = IF timeout[t] = "finite" THEN delayed \cup {t} ELSE delayed
    BY <1>13, Basics DEF WaitBegin
  <2> HIDE DEF s
  <2>4. \A r \in WaitList :
           /\ NoRepeat(waiters'[r])
           /\ Members(waiters'[r]) =
                 IF r = s THEN Members(waiters[s]) \cup {t} ELSE Members(waiters[r])
    <3>1. /\ NoRepeat(ListInsertBefore(waiters[s], i, t))
          /\ Members(ListInsertBefore(waiters[s], i, t)) = Members(waiters[s]) \cup {t}
      BY <2>1, Joining
    <3>2. \A r \in WaitList :
             waiters'[r] = IF r = s THEN ListInsertBefore(waiters[s], i, t) ELSE waiters[r]
      BY <2>1, <2>2, Basics
    <3> QED
      BY <3>1, <3>2, Basics
  <2>5. ASSUME NEW r \in WaitList, NEW u \in Task
        PROVE  u \in Members(waiters'[r])
                  <=> state'[u] = "BLOCKED" /\ pc'[u] = "wait" /\ target'[u] = r
    <3>1. u \in Members(waiters[r])
             <=> state[u] = "BLOCKED" /\ pc[u] = "wait" /\ target[u] = r
      BY Basics
    <3> QED
      BY <2>1, <2>3, <2>4, <3>1 DEF s
  <2>6. \A u \in delayed' : state'[u] = "BLOCKED" /\ timeout'[u] = "finite"
    <3>1. \A u \in delayed : u \in Task /\ state[u] = "BLOCKED" /\ timeout[u] = "finite"
      BY Basics DEF WInv, WaitersExact
    <3> QED
      BY <2>1, <2>3, <3>1
  <2> QED
    BY <2>4, <2>5, <2>6 DEF WaitersExact
<1>14. ASSUME NEW s \in WaitList, NEW t \in Task, Executing(t), FinishWaking(t, s)
       PROVE  WaitersExact'
  <2>1. /\ Waking(s) \in SUBSET Task
        /\ \A r \in WaitList :
              NoRepeat(waiters'[r]) /\ Members(waiters'[r]) = Members(waiters[r]) \ Waking(s)
    BY <1>14, WakesFacts DEF FinishWaking
  <2>2. /\ \A u \in Task : state'[u] = IF u \in Waking(s) THEN "READY" ELSE state[u]
        /\ UNCHANGED target /\ delayed' = delayed \ Waking(s)
        /\ state[t] # "BLOCKED"
    BY <1>14 DEF FinishWaking, Wakes, Return, Executing
  <2>3. \A u \in Task : u # t => pc'[u] = pc[u] /\ timeout'[u] = timeout[u]
    BY <1>14, Basics DEF FinishWaking, Return
  <2>4. /\ \A u \in Task : state'[u] = "BLOCKED" <=> state[u] = "BLOCKED" /\ u \notin Waking(s)
        /\ \A u \in Task : state'[u] = "BLOCKED" =>
              pc'[u] = pc[u] /\ target'[u] = target[u] /\ timeout'[u] = timeout[u]
    BY <2>2, <2>3
  <2> QED
    BY <2>1, <2>2, <2>4, WaitersFrame
<1>15. ASSUME NEW s \in WaitList, WakeOne(s)
       PROVE  WaitersExact'
  <2>1. /\ Waking(s) \in SUBSET Task
        /\ \A r \in WaitList :
              NoRepeat(waiters'[r]) /\ Members(waiters'[r]) = Members(waiters[r]) \ Waking(s)
    BY <1>15, WakesFacts DEF WakeOne
  <2>2. /\ \A u \in Task : state'[u] = IF u \in Waking(s) THEN "READY" ELSE state[u]
        /\ UNCHANGED <<pc, target, timeout>> /\ delayed' = delayed \ Waking(s)
    BY <1>15 DEF WakeOne, Wakes
  <2>3. /\ \A u \in Task : state'[u] = "BLOCKED" <=> state[u] = "BLOCKED" /\ u \notin Waking(s)
        /\ delayed' \subseteq delayed \ Waking(s)
    BY <2>2
  <2> QED
    BY <2>1, <2>2, <2>3, WaitersFrame
<1>16. CASE UNCHANGED waitingVars
  BY <1>16, WaitersStay
<1> QED
  BY <1>1, <1>2, <1>3, <1>4, <1>5, <1>6, <1>7, <1>8, <1>9, <1>10, <1>11, <1>12, <1>13,
     <1>14, <1>15, <1>16
  DEF WaitingStep, WaitStep, ControlStep, TimedOut, Trying

-----------------------------------------------------------------------------
(* The wakeups.                                                            *)

\* Woken tasks, one by one.
LEMMA WokenFacts ==
    ASSUME WInv, NEW t \in Task, wokenFrom[t] \in WaitList
    PROVE  /\ state[t] \in {"READY", "RUNNING"} /\ signaled[t]
           /\ pc[t] \in {"wait", "try"} /\ target[t] = wokenFrom[t]
BY DEF WInv, WokenAlive, Woken

\* A task that is paused or deleted is in none of its own attempts: a wakeup
\* it holds is unconsumed, and goes to nobody but a waiter.
LEMMA TornDown ==
    ASSUME WInv, NEW t \in Task, MayTearDown(t)
    PROVE  ~Unconsumed(t) => wokenFrom[t] = NoList
<1>1. wokenFrom[t] \in WaitList => state[t] = "READY" /\ signaled[t]
  <2>1. ASSUME wokenFrom[t] \in WaitList
        PROVE  state[t] = "READY" /\ signaled[t]
    <3>1. state[t] \in {"READY", "RUNNING"} /\ signaled[t] /\ pc[t] \in {"wait", "try"}
      BY <2>1, WokenFacts
    <3>2. state[t] # "RUNNING"
      BY <3>1 DEF MayTearDown, Executing, WInv, RunningOnCore
    <3> QED
      BY <3>1, <3>2
  <2> QED
    BY <2>1
<1>2. wokenFrom[t] \in WaitList \cup {NoList}
  BY Basics
<1> QED
  BY <1>1, <1>2 DEF Unconsumed

\* Every step keeps the woken tasks able to look.
LEMMA WokenStep ==
    ASSUME WInv, WaitingStep
    PROVE  WokenAlive'
<1> USE DEF tcbVars, callVars, waitingVars
<1> DEFINE Alive(t) ==
              /\ state'[t] \in {"READY", "RUNNING"} /\ signaled'[t]
              /\ pc'[t] \in {"wait", "try"} /\ target'[t] = wokenFrom'[t]
<1>a. SUFFICES ASSUME NEW t \in Task, wokenFrom'[t] \in WaitList
               PROVE  Alive(t)
  BY DEF WokenAlive, Woken
<1>b. wokenFrom[t] \in WaitList =>
         /\ state[t] \in {"READY", "RUNNING"} /\ signaled[t]
         /\ pc[t] \in {"wait", "try"} /\ target[t] = wokenFrom[t]
  BY WokenFacts
<1>c. ASSUME wokenFrom'[t] = wokenFrom[t],
             state'[t] \in {state[t], "READY", "RUNNING"},
             signaled[t] => signaled'[t],
             target'[t] = target[t],
             pc'[t] = pc[t] \/ pc'[t] = "try"
      PROVE  Alive(t)
  BY <1>a, <1>b, <1>c
<1>1. ASSUME NEW u \in Task, NEW s \in WaitList, NEW limit \in Timeout, Call(u, s, limit)
      PROVE  Alive(t)
  <2>1. wokenFrom'[t] = wokenFrom[t] /\ state'[t] = state[t] /\ signaled'[t] = signaled[t]
    BY <1>1 DEF Call
  <2>2. u # t
    BY <1>1, <1>a, <1>b, <2>1 DEF Call
  <2>3. target'[t] = target[t] /\ pc'[t] = pc[t]
    BY <1>1, <2>2, Basics DEF Call
  <2> QED
    BY <1>c, <2>1, <2>3
<1>2. ASSUME NEW u \in Task, Expire(u)
      PROVE  Alive(t)
  <2>1. /\ wokenFrom'[t] = wokenFrom[t] /\ signaled'[t] = signaled[t]
        /\ target'[t] = target[t] /\ pc'[t] = pc[t]
        /\ state'[t] \in {state[t], "READY"}
    BY <1>2, Basics DEF Expire
  <2> QED
    BY <1>c, <2>1
<1>3. ASSUME NEW u \in Task, Start(u)
      PROVE  Alive(t)
  <2>1. /\ wokenFrom'[t] = wokenFrom[t]
        /\ target'[t] = target[t] /\ pc'[t] = pc[t]
        /\ state'[t] \in {state[t], "READY", "RUNNING"}
    BY <1>3, Basics DEF Start
  <2>2. signaled[t] => signaled'[t]
    BY <1>3, Basics DEF Start
  <2> QED
    BY <1>c, <2>1, <2>2
<1>4. ASSUME NEW u \in Task, Pause(u)
      PROVE  Alive(t)
  <2>1. UNCHANGED <<pc, target>>
    BY <1>4 DEF Pause
  <2>2. CASE t \in Compensating(u)
    <3>1. /\ t # u /\ pc[t] = "wait" /\ target[t] = wokenFrom[u]
      BY <2>2, CompensatingMember, Basics
    <3>2. /\ state'[t] = "READY" /\ signaled'[t] /\ wokenFrom'[t] = wokenFrom[u]
      BY <1>4, <2>2, <3>1 DEF Pause
    <3> QED
      BY <2>1, <3>1, <3>2
  <2>3. CASE t \notin Compensating(u)
    <3>1. t # u
      <4>1. ASSUME t = u
            PROVE  wokenFrom'[t] = NoList
        <5>1. ~Unconsumed(t) => wokenFrom[t] = NoList
          BY <1>4, <4>1, TornDown DEF Pause
        <5> QED
          BY <1>4, <2>3, <4>1, <5>1 DEF Pause
      <4> QED
        BY <1>a, <4>1, WaitingAssumption
    <3>2. wokenFrom'[t] = wokenFrom[t] /\ state'[t] = state[t]
      BY <1>4, <2>3, <3>1 DEF Pause
    <3>3. signaled[t] => signaled'[t]
      BY <1>4, <2>3, <3>1 DEF Pause
    <3> QED
      BY <1>c, <2>1, <3>2, <3>3
  <2> QED
    BY <2>2, <2>3
<1>5. ASSUME NEW u \in Task, Delete(u)
      PROVE  Alive(t)
  <2>1. t # u => pc'[t] = pc[t] /\ target'[t] = target[t]
    BY <1>5, Basics DEF Delete, Return
  <2>2. CASE t \in Compensating(u)
    <3>1. /\ t # u /\ pc[t] = "wait" /\ target[t] = wokenFrom[u]
      BY <2>2, CompensatingMember, Basics
    <3>2. /\ state'[t] = "READY" /\ wokenFrom'[t] = wokenFrom[u]
      BY <1>5, <2>2, <3>1 DEF Delete
    <3>3. signaled'[t]
      BY <1>5, <2>2, <3>1 DEF Delete
    <3> QED
      BY <2>1, <3>1, <3>2, <3>3
  <2>3. CASE t \notin Compensating(u)
    <3>1. t # u
      BY <1>5, <1>a, <2>3, WaitingAssumption DEF Delete
    <3>2. wokenFrom'[t] = wokenFrom[t] /\ state'[t] = state[t]
      BY <1>5, <2>3, <3>1 DEF Delete
    <3>3. signaled[t] => signaled'[t]
      BY <1>5, <2>3, <3>1 DEF Delete
    <3> QED
      BY <1>c, <2>1, <3>1, <3>2, <3>3
  <2> QED
    BY <2>2, <2>3
<1>6. ASSUME NEW u \in Task, NEW p \in Prio, Create(u, p)
      PROVE  Alive(t)
  <2>1. /\ wokenFrom'[t] = wokenFrom[t] /\ signaled'[t] = signaled[t]
        /\ target'[t] = target[t] /\ pc'[t] = pc[t]
    BY <1>6 DEF Create
  <2>2. u # t
    BY <1>6, <1>a, <1>b, <2>1 DEF Create
  <2>3. state'[t] = state[t]
    BY <1>6, <2>2, Basics DEF Create
  <2> QED
    BY <1>c, <2>1, <2>3
<1>7. ASSUME NEW u \in Task, NEW p \in Prio, Reprioritize(u, p)
      PROVE  Alive(t)
  <2>1. UNCHANGED <<state, signaled, wokenFrom, pc, target>>
    BY <1>7 DEF Reprioritize
  <2> QED
    BY <1>c, <2>1
<1>8. ASSUME NEW u \in Task, Dispatch(u) \/ SwitchOut(u)
      PROVE  Alive(t)
  <2>1. UNCHANGED <<signaled, wokenFrom, pc, target>>
    BY <1>8 DEF Dispatch, SwitchOut
  <2>2. state'[t] \in {state[t], "READY", "RUNNING"}
    BY <1>8, Basics DEF Dispatch, SwitchOut
  <2> QED
    BY <1>c, <2>1, <2>2
<1>9. ASSUME NEW u \in Task, Resume(u)
      PROVE  Alive(t)
  <2>1. UNCHANGED <<state, signaled, wokenFrom, target>>
    BY <1>9 DEF Resume
  <2>2. signaled[t] => pc'[t] = pc[t] \/ pc'[t] = "try"
    BY <1>9, ResumeOther
  <2> QED
    BY <1>a, <1>b, <1>c, <2>1, <2>2
<1>10. ASSUME NEW u \in Task, Finish(u) \/ TryOnce(u)
       PROVE  Alive(t)
  <2>1. wokenFrom' = [wokenFrom EXCEPT ![u] = NoList]
    BY <1>10 DEF Finish, TryOnce, WaitEnd
  <2>2. u # t /\ wokenFrom'[t] = wokenFrom[t]
    BY <1>a, <2>1, Basics, WaitingAssumption
  <2>3. state'[t] = state[t] /\ target'[t] = target[t]
    BY <1>10 DEF Finish, TryOnce, Return
  <2>4. pc'[t] = pc[t]
    BY <1>10, <2>2, Basics DEF Finish, TryOnce, Return
  <2>5. signaled'[t] = signaled[t]
    BY <1>10, <2>2, Basics DEF Finish, TryOnce, WaitEnd
  <2> QED
    BY <1>c, <2>2, <2>3, <2>4, <2>5
<1>11. ASSUME NEW u \in Task, WaitBegin(u)
       PROVE  Alive(t)
  <2>1. wokenFrom' = [wokenFrom EXCEPT ![u] = NoList] /\ target'[t] = target[t]
    BY <1>11 DEF WaitBegin
  <2>2. u # t /\ wokenFrom'[t] = wokenFrom[t]
    BY <1>a, <2>1, Basics, WaitingAssumption
  <2>3. state'[t] = state[t] /\ signaled'[t] = signaled[t] /\ pc'[t] = pc[t]
    BY <1>11, <2>2, Basics DEF WaitBegin
  <2> QED
    BY <1>c, <2>1, <2>2, <2>3
<1>12. ASSUME NEW s \in WaitList, NEW enders, Wakes(s, enders),
              target'[t] = target[t], t \notin enders => pc'[t] = pc[t],
              t \in enders => state[t] = "RUNNING"
       PROVE  Alive(t)
  <2>1. CASE t \in Waking(s)
    <3>1. state[t] = "BLOCKED" /\ pc[t] = "wait" /\ target[t] = s
      BY <1>12, <2>1, WakesFacts
    <3>2. state'[t] = "READY" /\ wokenFrom'[t] = s
      BY <1>12, <2>1 DEF Wakes
    <3>3. signaled'[t]
      BY <1>12, <2>1 DEF Wakes
    <3>4. t \notin enders
      BY <1>12, <3>1
    <3> QED
      BY <1>12, <3>1, <3>2, <3>3, <3>4
  <2>2. CASE t \notin Waking(s)
    <3>1. t \notin enders
      BY <1>12, <1>a, <2>2, WaitingAssumption DEF Wakes
    <3>2. wokenFrom'[t] = wokenFrom[t] /\ state'[t] = state[t]
      BY <1>12, <2>2, <3>1 DEF Wakes
    <3>3. signaled[t] => signaled'[t]
      BY <1>12, <2>2, <3>1 DEF Wakes
    <3> QED
      BY <1>12, <1>c, <3>1, <3>2, <3>3
  <2> QED
    BY <2>1, <2>2
<1>13. ASSUME NEW u \in Task, NEW s \in WaitList, Executing(u), FinishWaking(u, s)
       PROVE  Alive(t)
  <2>1. Wakes(s, {u}) /\ target'[t] = target[t]
    BY <1>13 DEF FinishWaking, Return
  <2>2. t # u => pc'[t] = pc[t]
    BY <1>13, Basics DEF FinishWaking, Return
  <2>3. state[u] = "RUNNING"
    BY <1>13 DEF Executing
  <2> QED
    BY <1>12, <2>1, <2>2, <2>3
<1>14. ASSUME NEW s \in WaitList, WakeOne(s)
       PROVE  Alive(t)
  <2>1. Wakes(s, {}) /\ target'[t] = target[t] /\ pc'[t] = pc[t]
    BY <1>14 DEF WakeOne
  <2> QED
    BY <1>12, <2>1
<1>15. CASE UNCHANGED waitingVars
  BY <1>15, <1>c
<1> QED
  BY <1>1, <1>2, <1>3, <1>4, <1>5, <1>6, <1>7, <1>8, <1>9, <1>10, <1>11, <1>13, <1>14, <1>15
  DEF WaitingStep, WaitStep, ControlStep, TimedOut, Trying

-----------------------------------------------------------------------------
(* RUNNING tasks and waits for ever.                                       *)

\* Every step keeps the RUNNING tasks on their cores.
LEMMA RunningStep ==
    ASSUME WInv, WaitingStep
    PROVE  RunningOnCore'
<1> USE DEF tcbVars, callVars, waitingVars
<1>a. ASSUME \A t \in Task : state'[t] = "RUNNING" => t \in onCore' \/ state[t] = "RUNNING",
             \A t \in Task : state'[t] = "RUNNING" /\ t \in onCore => t \in onCore'
      PROVE  RunningOnCore'
  BY <1>a DEF WInv, RunningOnCore
<1>1. ASSUME NEW t \in Task, WaitBegin(t)
      PROVE  RunningOnCore'
  <2>1. \A u \in Task : state'[u] = IF u = t THEN "BLOCKED" ELSE state[u]
    BY <1>1, Basics DEF WaitBegin
  <2>2. UNCHANGED onCore
    BY <1>1 DEF WaitBegin
  <2> QED
    BY <1>a, <2>1, <2>2
<1>2. ASSUME UNCHANGED <<state, onCore>>
      PROVE  RunningOnCore'
  BY <1>2, <1>a
<1>3. ASSUME NEW t \in Task, Expire(t)
      PROVE  RunningOnCore'
  BY <1>3, <1>a, Basics DEF Expire
<1>4. ASSUME NEW t \in Task, Start(t)
      PROVE  RunningOnCore'
  BY <1>4, <1>a, Basics DEF Start
<1>5. ASSUME NEW t \in Task, Pause(t)
      PROVE  RunningOnCore'
  BY <1>5, <1>a, Basics DEF Pause
<1>6. ASSUME NEW t \in Task, Delete(t)
      PROVE  RunningOnCore'
  BY <1>6, <1>a, Basics DEF Delete
<1>7. ASSUME NEW t \in Task, NEW p \in Prio, Create(t, p)
      PROVE  RunningOnCore'
  BY <1>7, <1>a, Basics DEF Create
<1>8. ASSUME NEW t \in Task, Dispatch(t) \/ SwitchOut(t)
      PROVE  RunningOnCore'
  BY <1>8, <1>a, Basics DEF Dispatch, SwitchOut
<1>9. ASSUME NEW s \in WaitList, NEW enders, Wakes(s, enders)
      PROVE  RunningOnCore'
  BY <1>9, <1>a DEF Wakes
<1> QED
  BY <1>1, <1>2, <1>3, <1>4, <1>5, <1>6, <1>7, <1>8, <1>9
  DEF WaitingStep, WaitStep, ControlStep, Call, Reprioritize, Resume, TimedOut, TryOnce, Finish,
      FinishWaking, WakeOne

\* Every step keeps the waits for ever: only a signal ends them.
LEMMA ForeverStep ==
    ASSUME WInv, WaitingStep
    PROVE  ForeverSignaled' /\ ForeverWaits' /\ IdleCall'
<1> USE DEF tcbVars, callVars, waitingVars
<1> DEFINE Waits(t) ==
              /\ timeout'[t] = "forever" /\ pc'[t] = "wait" /\ state'[t] # "BLOCKED"
                    => signaled'[t]
              /\ timeout'[t] = "forever" => pc'[t] # "expired" /\ ~spent'[t]
              /\ pc'[t] = "out" => ~spent'[t]
<1>a. /\ \A t \in Task :
            /\ timeout[t] = "forever" /\ pc[t] = "wait" /\ state[t] # "BLOCKED" => signaled[t]
            /\ timeout[t] = "forever" => pc[t] # "expired" /\ ~spent[t]
            /\ pc[t] = "out" => ~spent[t]
      /\ \A t \in delayed : t \in Task /\ state[t] = "BLOCKED" /\ timeout[t] = "finite"
  BY Basics DEF WInv, ForeverSignaled, ForeverWaits, IdleCall, WaitersExact
<1>b. ASSUME NEW t \in Task,
             pc'[t] = pc[t], timeout'[t] = timeout[t], spent'[t] = spent[t],
             signaled[t] => signaled'[t],
             \/ state'[t] = "BLOCKED"
             \/ state[t] # "BLOCKED"
             \/ signaled'[t]
             \/ timeout[t] # "forever"
      PROVE  Waits(t)
  BY <1>a, <1>b
<1>c. SUFFICES ASSUME NEW t \in Task
               PROVE  Waits(t)
  BY DEF ForeverSignaled, ForeverWaits, IdleCall
<1>d. ASSUME timeout'[t] = "nothing", spent'[t] = FALSE
      PROVE  Waits(t)
  BY <1>d
<1>1. ASSUME NEW u \in Task, NEW s \in WaitList, NEW limit \in Timeout, Call(u, s, limit)
      PROVE  Waits(t)
  <2>1. CASE t # u
    <3>1. /\ pc'[t] = pc[t] /\ timeout'[t] = timeout[t] /\ spent'[t] = spent[t]
          /\ signaled'[t] = signaled[t] /\ state'[t] = state[t]
      BY <1>1, <2>1, Basics DEF Call
    <3> QED
      BY <1>b, <3>1
  <2>2. CASE t = u
    <3>1. pc'[t] = "try" /\ spent'[t] = spent[t] /\ ~spent[t]
      BY <1>1, <1>a, <2>2, Basics DEF Call
    <3> QED
      BY <3>1
  <2> QED
    BY <2>1, <2>2
<1>2. ASSUME NEW u \in Task, Expire(u)
      PROVE  Waits(t)
  <2>1. /\ pc'[t] = pc[t] /\ timeout'[t] = timeout[t] /\ spent'[t] = spent[t]
        /\ signaled'[t] = signaled[t]
        /\ state'[t] = state[t] \/ timeout[t] # "forever"
    BY <1>2, <1>a, Basics DEF Expire
  <2> QED
    BY <1>b, <2>1
<1>3. ASSUME NEW u \in Task, Start(u)
      PROVE  Waits(t)
  <2>1. pc'[t] = pc[t] /\ timeout'[t] = timeout[t] /\ spent'[t] = spent[t]
    BY <1>3 DEF Start
  <2>2. CASE t = u
    <3>1. signaled'[t] = (signaled[t] \/ state[t] = "BLOCKED")
      BY <1>3, <2>2, Basics DEF Start
    <3> QED
      BY <1>b, <2>1, <3>1
  <2>3. CASE t # u
    <3>1. signaled'[t] = signaled[t] /\ state'[t] = state[t]
      BY <1>3, <2>3, Basics DEF Start
    <3> QED
      BY <1>b, <2>1, <3>1
  <2> QED
    BY <2>2, <2>3
<1>4. ASSUME NEW u \in Task, Pause(u)
      PROVE  Waits(t)
  <2>1. /\ pc'[t] = pc[t] /\ timeout'[t] = timeout[t] /\ spent'[t] = spent[t]
        /\ signaled[t] => signaled'[t]
        /\ state'[t] = state[t] \/ state[t] # "BLOCKED" \/ signaled'[t]
    BY <1>4 DEF Pause
  <2> QED
    BY <1>b, <2>1
<1>5. ASSUME NEW u \in Task, Delete(u)
      PROVE  Waits(t)
  <2>1. CASE t # u
    <3>1. pc'[t] = pc[t] /\ timeout'[t] = timeout[t] /\ spent'[t] = spent[t]
      BY <1>5, <2>1, Basics DEF Delete, Return
    <3>2. /\ signaled[t] => signaled'[t]
          /\ state'[t] = state[t] \/ signaled'[t]
      BY <1>5, <2>1 DEF Delete
    <3> QED
      BY <1>b, <3>1, <3>2
  <2>2. CASE t = u
    BY <1>5, <1>d, <2>2, Basics DEF Delete, Return
  <2> QED
    BY <2>1, <2>2
<1>6. ASSUME NEW u \in Task, NEW p \in Prio, Create(u, p) \/ Reprioritize(u, p)
      PROVE  Waits(t)
  <2>1. /\ pc'[t] = pc[t] /\ timeout'[t] = timeout[t] /\ spent'[t] = spent[t]
        /\ signaled'[t] = signaled[t]
        /\ state'[t] = state[t] \/ state[t] # "BLOCKED"
    BY <1>6, Basics DEF Create, Reprioritize
  <2> QED
    BY <1>b, <2>1
<1>7. ASSUME NEW u \in Task, Dispatch(u) \/ SwitchOut(u)
      PROVE  Waits(t)
  <2>1. /\ pc'[t] = pc[t] /\ timeout'[t] = timeout[t] /\ spent'[t] = spent[t]
        /\ signaled'[t] = signaled[t]
        /\ state'[t] = state[t] \/ state[t] # "BLOCKED"
    BY <1>7, Basics DEF Dispatch, SwitchOut
  <2> QED
    BY <1>b, <2>1
<1>8. ASSUME NEW u \in Task, Resume(u)
      PROVE  Waits(t)
  <2>1. UNCHANGED <<state, signaled, timeout>>
    BY <1>8 DEF Resume
  <2>2. CASE t # u
    BY <1>8, <1>b, <2>1, <2>2, ResumeOther
  <2>3. CASE t = u
    <3>1. pc[t] = "wait" /\ state[t] # "BLOCKED"
      BY <1>8, <2>3 DEF Resume, Executing
    <3>2. CASE timeout[t] # "forever"
      BY <1>8, <2>1, <2>3, <3>2, ResumeOther
    <3>3. CASE timeout[t] = "forever"
      <4>1. signaled[t]
        BY <1>a, <3>1, <3>3
      <4>2. pc'[t] = "try" /\ spent'[t] = FALSE
        BY <1>8, <2>3, <3>3, <4>1, ResumeOther
      <4> QED
        BY <4>2
    <3> QED
      BY <3>2, <3>3
  <2> QED
    BY <2>2, <2>3
<1>9. ASSUME NEW u \in Task, Finish(u)
      PROVE  Waits(t)
  <2>1. CASE t # u
    <3>1. /\ pc'[t] = pc[t] /\ timeout'[t] = timeout[t] /\ spent'[t] = spent[t]
          /\ signaled'[t] = signaled[t] /\ state'[t] = state[t]
      BY <1>9, <2>1, Basics DEF Finish, WaitEnd, Return
    <3> QED
      BY <1>b, <3>1
  <2>2. CASE t = u
    BY <1>9, <1>d, <2>2, Basics DEF Finish, Return
  <2> QED
    BY <2>1, <2>2
<1>10. ASSUME NEW u \in Task, TryOnce(u)
       PROVE  Waits(t)
  <2>1. CASE t # u
    <3>1. /\ pc'[t] = pc[t] /\ timeout'[t] = timeout[t] /\ spent'[t] = spent[t]
          /\ signaled'[t] = signaled[t] /\ state'[t] = state[t]
      BY <1>10, <2>1, Basics DEF TryOnce, WaitEnd
    <3> QED
      BY <1>b, <3>1
  <2>2. CASE t = u
    <3>1. timeout'[t] = timeout[t] /\ pc[t] = "expired" /\ pc'[t] = "try"
      BY <1>10, <2>2, Basics DEF TryOnce
    <3> QED
      BY <1>a, <3>1
  <2> QED
    BY <2>1, <2>2
<1>11. ASSUME NEW u \in Task, WaitBegin(u)
       PROVE  Waits(t)
  <2>1. CASE t # u
    <3>1. /\ pc'[t] = pc[t] /\ timeout'[t] = timeout[t] /\ spent'[t] = spent[t]
          /\ signaled'[t] = signaled[t] /\ state'[t] = state[t]
      BY <1>11, <2>1, Basics DEF WaitBegin
    <3> QED
      BY <1>b, <3>1
  <2>2. CASE t = u
    <3>1. /\ state'[t] = "BLOCKED" /\ pc'[t] = "wait"
          /\ timeout'[t] = timeout[t] /\ spent'[t] = spent[t]
      BY <1>11, <2>2, Basics DEF WaitBegin
    <3> QED
      BY <1>a, <3>1
  <2> QED
    BY <2>1, <2>2
<1>12. ASSUME NEW s \in WaitList, NEW u \in Task, FinishWaking(u, s)
       PROVE  Waits(t)
  <2>1. CASE t # u
    <3>1. pc'[t] = pc[t] /\ timeout'[t] = timeout[t] /\ spent'[t] = spent[t]
      BY <1>12, <2>1, Basics DEF FinishWaking, Return
    <3>2. /\ signaled[t] => signaled'[t]
          /\ state'[t] = state[t] \/ signaled'[t]
      BY <1>12, <2>1 DEF FinishWaking, Wakes
    <3> QED
      BY <1>b, <3>1, <3>2
  <2>2. CASE t = u
    BY <1>12, <1>d, <2>2, Basics DEF FinishWaking, Return
  <2> QED
    BY <2>1, <2>2
<1>13. ASSUME NEW s \in WaitList, WakeOne(s)
       PROVE  Waits(t)
  <2>1. pc'[t] = pc[t] /\ timeout'[t] = timeout[t] /\ spent'[t] = spent[t]
    BY <1>13 DEF WakeOne
  <2>2. /\ signaled[t] => signaled'[t]
        /\ state'[t] = state[t] \/ signaled'[t]
    BY <1>13 DEF WakeOne, Wakes
  <2> QED
    BY <1>b, <2>1, <2>2
<1>14. CASE UNCHANGED waitingVars
  BY <1>14, <1>b
<1> QED
  BY <1>1, <1>2, <1>3, <1>4, <1>5, <1>6, <1>7, <1>8, <1>9, <1>10, <1>11, <1>12, <1>13, <1>14
  DEF WaitingStep, WaitStep, ControlStep, TimedOut

-----------------------------------------------------------------------------
(* The order of the waiters.                                               *)

\* list descends in priority p.
SortedBy(p, list) == \A i, j \in DOMAIN list : i < j => p[list[i]] >= p[list[j]]

\* Only the priorities of the members matter.
LEMMA SortedSame ==
    ASSUME NEW list \in Seq(Task), NEW p, NEW q, SortedBy(p, list),
           \A t \in Members(list) : q[t] = p[t]
    PROVE  SortedBy(q, list)
BY DEF SortedBy, Members

\* Taking a node out keeps the order.
LEMMA SortedRemove ==
    ASSUME NEW list \in Seq(Task), NEW t, NEW p \in [Task -> Int], SortedBy(p, list)
    PROVE  SortedBy(p, ListRemove(list, t))
<1>1. CASE t \notin Members(list)
  BY <1>1 DEF ListRemove
<1>2. CASE t \in Members(list)
  <2> DEFINE at == CHOOSE i \in DOMAIN list : list[i] = t
             shorter == RemoveAt(list, at)
  <2>1. Len(list) \in Nat /\ DOMAIN list = 1 .. Len(list)
    BY LenProperties
  <2>2. at \in 1 .. Len(list)
    BY <1>2, <2>1 DEF Members
  <2>3. ListRemove(list, t) = shorter
    BY <1>2 DEF ListRemove
  <2> HIDE DEF at
  <2>4. /\ shorter \in Seq(Task) /\ Len(shorter) = Len(list) - 1
        /\ \A i \in 1 .. Len(list) - 1 :
              shorter[i] = IF i < at THEN list[i] ELSE list[i + 1]
    BY <2>2, RemoveAtElements
  <2> HIDE DEF shorter
  <2>5. DOMAIN shorter = 1 .. Len(list) - 1
    BY <2>4, LenProperties
  <2>6. ASSUME NEW i \in DOMAIN shorter, NEW j \in DOMAIN shorter, i < j
        PROVE  p[shorter[i]] >= p[shorter[j]]
    <3> DEFINE k == IF i < at THEN i ELSE i + 1
               l == IF j < at THEN j ELSE j + 1
    <3>1. i \in 1 .. Len(list) - 1 /\ j \in 1 .. Len(list) - 1 /\ at \in Nat
      BY <2>2, <2>5
    <3>2. k \in 1 .. Len(list) /\ l \in 1 .. Len(list) /\ k < l
      BY <2>1, <2>6, <3>1
    <3>3. shorter[i] = list[k] /\ shorter[j] = list[l]
      BY <2>4, <3>1
    <3> QED
      BY <2>1, <3>2, <3>3 DEF SortedBy
  <2> QED
    BY <2>3, <2>6 DEF SortedBy
<1> QED
  BY <1>1, <1>2

\* os_task_wait_node_insert keeps the order.
LEMMA SortedInsert ==
    ASSUME NEW list \in Seq(Task), NEW t \in Task, NEW p \in [Task -> Int],
           NEW at \in 1 .. Len(list) + 1, SortedBy(p, list),
           \A j \in 1 .. at - 1 : p[list[j]] >= p[t],
           at <= Len(list) => p[list[at]] < p[t]
    PROVE  SortedBy(p, ListInsertBefore(list, at, t))
<1> DEFINE longer == InsertAt(list, at, t)
<1>1. /\ Len(list) \in Nat /\ DOMAIN list = 1 .. Len(list)
      /\ \A i \in 1 .. Len(list) : list[i] \in Task
  BY LenProperties, ElementOfSeq
<1>2. /\ longer \in Seq(Task) /\ Len(longer) = Len(list) + 1
      /\ \A i \in 1 .. Len(list) + 1 :
            longer[i] = IF i < at THEN list[i] ELSE IF i = at THEN t ELSE list[i - 1]
  BY InsertAtElements
<1> HIDE DEF longer
<1>3. DOMAIN longer = 1 .. Len(list) + 1
  BY <1>2, LenProperties
<1>4. \A j \in 1 .. Len(list) : j >= at => p[list[j]] < p[t]
  <2>1. SUFFICES ASSUME NEW j \in 1 .. Len(list), j >= at
                 PROVE  p[list[j]] < p[t]
    OBVIOUS
  <2>2. at \in 1 .. Len(list) /\ p[list[at]] < p[t]
    BY <1>1, <2>1
  <2>3. p[list[at]] >= p[list[j]]
    <3>1. CASE at = j
      BY <1>1, <3>1
    <3>2. CASE at < j
      BY <1>1, <2>2, <3>2 DEF SortedBy
    <3> QED
      BY <2>1, <2>2, <3>1, <3>2
  <2> QED
    BY <1>1, <2>2, <2>3
<1>5. ASSUME NEW i \in DOMAIN longer, NEW j \in DOMAIN longer, i < j
      PROVE  p[longer[i]] >= p[longer[j]]
  <2>1. CASE j < at
    <3>1. i \in DOMAIN list /\ j \in DOMAIN list
      BY <1>1, <1>3, <1>5, <2>1
    <3>2. longer[i] = list[i] /\ longer[j] = list[j]
      BY <1>2, <1>3, <1>5, <2>1
    <3> QED
      BY <1>5, <3>1, <3>2 DEF SortedBy
  <2>2. CASE j = at
    <3>1. i \in 1 .. at - 1 /\ longer[i] = list[i] /\ longer[j] = t
      BY <1>1, <1>2, <1>3, <1>5, <2>2
    <3> QED
      BY <3>1
  <2>3. CASE i = at
    <3>1. j - 1 \in 1 .. Len(list) /\ j - 1 >= at
      BY <1>1, <1>3, <1>5, <2>3
    <3>2. longer[i] = t /\ longer[j] = list[j - 1]
      BY <1>2, <1>3, <1>5, <2>3
    <3>3. p[list[j - 1]] \in Int /\ p[t] \in Int
      BY <1>1, <3>1
    <3> QED
      BY <1>4, <3>1, <3>2, <3>3
  <2>4. CASE i < at /\ j > at
    <3>1. /\ i \in 1 .. at - 1 /\ j - 1 \in 1 .. Len(list) /\ j - 1 >= at
          /\ i \in 1 .. Len(list)
          /\ i \in 1 .. Len(list) + 1 /\ j \in 1 .. Len(list) + 1
          /\ ~(j < at) /\ j # at
      BY <1>1, <1>3, <1>5, <2>4
    <3>2. longer[i] = list[i] /\ longer[j] = list[j - 1]
      BY <1>2, <2>4, <3>1
    <3>3. p[list[i]] >= p[t] /\ p[list[j - 1]] < p[t]
      BY <1>4, <3>1
    <3>4. p[list[i]] \in Int /\ p[list[j - 1]] \in Int /\ p[t] \in Int
      BY <1>1, <3>1
    <3> QED
      BY <3>2, <3>3, <3>4
  <2>5. CASE i > at
    <3>1. i - 1 \in DOMAIN list /\ j - 1 \in DOMAIN list /\ i - 1 < j - 1
      BY <1>1, <1>3, <1>5, <2>5
    <3>2. /\ i \in 1 .. Len(list) + 1 /\ j \in 1 .. Len(list) + 1
          /\ ~(i < at) /\ i # at /\ ~(j < at) /\ j # at
      BY <1>1, <1>3, <1>5, <2>5
    <3>3. longer[i] = list[i - 1] /\ longer[j] = list[j - 1]
      BY <1>2, <3>2
    <3> QED
      BY <3>1, <3>3 DEF SortedBy
  <2> QED
    BY <1>3, <1>5, <2>1, <2>2, <2>3, <2>4, <2>5
<1> QED
  BY <1>5 DEF SortedBy, ListInsertBefore, longer

\* The tasks that leave their lists leave the others in order.
LEMMA SortedLeaving ==
    ASSUME WInv, NEW gone, NEW s \in WaitList
    PROVE  SortedBy(prio, WaitersWithout(gone)[s])
<1>1. prio \in [Task -> Int] /\ waiters[s] \in Seq(Task) /\ SortedBy(prio, waiters[s])
  BY DEF WInv, WaitingTypeOK, Prio, WaitersSorted, SortedBy
<1>2. WaitersWithout(gone)[s] = waiters[s]
      \/ \E t : WaitersWithout(gone)[s] = ListRemove(waiters[s], t)
  BY DEF WaitersWithout
<1> QED
  BY <1>1, <1>2, SortedRemove

\* A step in which tasks only leave their lists.
LEMMA SortedFrame ==
    ASSUME WInv, UNCHANGED prio,
           UNCHANGED waiters \/ \E gone : waiters' = WaitersWithout(gone)
    PROVE  WaitersSorted'
<1>1. CASE UNCHANGED waiters
  BY <1>1 DEF WInv, WaitersSorted
<1>2. CASE \E gone : waiters' = WaitersWithout(gone)
  BY <1>2, SortedLeaving DEF WaitersSorted, SortedBy
<1> QED
  BY <1>1, <1>2

\* Every step keeps the waiter lists in order of priority: the priority of a
\* waiter changes only together with its place.
LEMMA SortedStep ==
    ASSUME WInv, WaitingTypeOK', WaitingStep
    PROVE  WaitersSorted'
<1> USE DEF tcbVars, callVars, waitingVars
<1>a. /\ prio \in [Task -> Int] /\ prio' \in [Task -> Int]
      /\ prio \in [Task -> Prio] /\ waiters \in [WaitList -> Seq(Task)]
  BY DEF WInv, WaitingTypeOK, Prio
<1>1. ASSUME NEW t \in Task,
             \/ \E s \in WaitList, limit \in Timeout : Call(t, s, limit)
             \/ Expire(t) \/ Start(t) \/ Pause(t) \/ Delete(t)
             \/ Dispatch(t) \/ SwitchOut(t) \/ Resume(t) \/ TryOnce(t) \/ Finish(t)
      PROVE  WaitersSorted'
  <2>1. UNCHANGED prio /\ (UNCHANGED waiters \/ \E gone : waiters' = WaitersWithout(gone))
    BY <1>1 DEF Call, Expire, Start, Pause, Delete, Dispatch, SwitchOut, Resume, TryOnce,
       Finish
  <2> QED
    BY <2>1, SortedFrame
<1>2. ASSUME NEW s \in WaitList, NEW enders, Wakes(s, enders)
      PROVE  WaitersSorted'
  <2>1. UNCHANGED prio /\ \E gone : waiters' = WaitersWithout(gone)
    BY <1>2 DEF Wakes
  <2> QED
    BY <2>1, SortedFrame
<1>3. ASSUME NEW t \in Task, NEW p \in Prio, Create(t, p)
      PROVE  WaitersSorted'
  <2>1. UNCHANGED waiters /\ prio' = [prio EXCEPT ![t] = p]
        /\ \A s \in WaitList : t \notin Members(waiters[s])
    BY <1>3, Basics DEF Create
  <2>2. ASSUME NEW s \in WaitList
        PROVE  SortedBy(prio', waiters[s])
    <3>1. /\ waiters[s] \in Seq(Task) /\ SortedBy(prio, waiters[s])
          /\ Members(waiters[s]) \subseteq Task
      BY Basics DEF WInv, WaitersSorted, SortedBy
    <3>2. \A u \in Members(waiters[s]) : prio'[u] = prio[u]
      BY <1>a, <2>1, <3>1
    <3> QED
      BY <3>1, <3>2, SortedSame
  <2> QED
    BY <2>1, <2>2 DEF WaitersSorted, SortedBy
<1>4. ASSUME NEW t \in Task, NEW p \in Prio, Reprioritize(t, p)
      PROVE  WaitersSorted'
  <2> DEFINE s == target[t]
             rest == WaitersWithout({t})
  <2>1. prio' = [prio EXCEPT ![t] = p] /\ s \in WaitList
    BY <1>4, Basics DEF Reprioritize
  <2>2. CASE ~(t \in Members(waiters[s]) /\ p # prio[t])
    <3>1. UNCHANGED waiters
      BY <1>4, <2>2 DEF Reprioritize
    <3>2. ASSUME NEW r \in WaitList
          PROVE  SortedBy(prio', waiters[r])
      <4>1. /\ waiters[r] \in Seq(Task) /\ SortedBy(prio, waiters[r])
            /\ Members(waiters[r]) \subseteq Task
        BY Basics DEF WInv, WaitersSorted, SortedBy
      <4>2. t \in Members(waiters[r]) => p = prio[t]
        BY <2>2, Basics
      <4>3. \A u \in Members(waiters[r]) : prio'[u] = prio[u]
        BY <1>a, <2>1, <4>1, <4>2
      <4> QED
        BY <4>1, <4>3, SortedSame
    <3> QED
      BY <3>1, <3>2 DEF WaitersSorted, SortedBy
  <2>3. CASE t \in Members(waiters[s]) /\ p # prio[t]
    <3>1. PICK i \in 1 .. Len(rest[s]) + 1 :
             /\ IsWaitPosition(rest[s], i, p)
             /\ waiters' = [rest EXCEPT ![s] = ListInsertBefore(@, i, t)]
      BY <1>4, <2>3 DEF Reprioritize
    <3>2. /\ rest \in [WaitList -> Seq(Task)]
          /\ \A r \in WaitList : t \notin Members(rest[r])
      BY LeavingOne
    <3>3. \A r \in WaitList : SortedBy(prio, rest[r])
      BY SortedLeaving
    <3> HIDE DEF rest, s
    <3>4. ASSUME NEW r \in WaitList
          PROVE  SortedBy(prio', rest[r])
      <4>1. rest[r] \in Seq(Task) /\ Members(rest[r]) \subseteq Task
        BY <3>2, MembersOfSeq
      <4>2. \A u \in Members(rest[r]) : prio'[u] = prio[u]
        BY <1>a, <2>1, <3>2, <4>1
      <4> QED
        BY <3>3, <4>1, <4>2, SortedSame
    <3>5. /\ \A j \in 1 .. i - 1 : prio'[rest[s][j]] >= prio'[t]
          /\ i <= Len(rest[s]) => prio'[rest[s][i]] < prio'[t]
      <4>1. rest[s] \in Seq(Task) /\ t \notin Members(rest[s])
        BY <2>1, <3>2
      <4>2. Len(rest[s]) \in Nat /\ DOMAIN rest[s] = 1 .. Len(rest[s])
            /\ \A j \in 1 .. Len(rest[s]) : rest[s][j] \in Task
        BY <4>1, LenProperties, ElementOfSeq
      <4>3. \A j \in 1 .. Len(rest[s]) : prio'[rest[s][j]] = prio[rest[s][j]]
        <5>1. \A j \in 1 .. Len(rest[s]) : rest[s][j] # t
          BY <4>1, <4>2 DEF Members
        <5> QED
          BY <1>a, <2>1, <4>2, <5>1
      <4>4. prio'[t] = p
        BY <1>a, <2>1
      <4>5. /\ \A j \in 1 .. i - 1 : j \in 1 .. Len(rest[s])
            /\ i <= Len(rest[s]) => i \in 1 .. Len(rest[s])
        BY <4>2
      <4> QED
        BY <3>1, <4>3, <4>4, <4>5 DEF IsWaitPosition
    <3>6. SortedBy(prio', ListInsertBefore(rest[s], i, t))
      <4>1. rest[s] \in Seq(Task) /\ SortedBy(prio', rest[s])
        BY <2>1, <3>2, <3>4
      <4> QED
        BY <1>a, <3>5, <4>1, SortedInsert
    <3>7. \A r \in WaitList :
             waiters'[r] = IF r = s THEN ListInsertBefore(rest[s], i, t) ELSE rest[r]
      BY <2>1, <3>1, <3>2
    <3>8. \A r \in WaitList : SortedBy(prio', waiters'[r])
      BY <3>4, <3>6, <3>7
    <3> QED
      BY <3>8 DEF WaitersSorted, SortedBy
  <2> QED
    BY <2>2, <2>3
<1>5. ASSUME NEW t \in Task, WaitBegin(t)
      PROVE  WaitersSorted'
  <2> DEFINE s == target[t]
  <2>1. /\ s \in WaitList /\ waiters[s] \in Seq(Task)
        /\ \A r \in WaitList : SortedBy(prio, waiters[r])
    BY Basics DEF WInv, WaitersSorted, SortedBy
  <2>2. PICK i \in 1 .. Len(waiters[s]) + 1 :
           /\ IsWaitPosition(waiters[s], i, prio[t])
           /\ waiters' = [waiters EXCEPT ![s] = ListInsertBefore(@, i, t)]
    BY <1>5 DEF WaitBegin
  <2> HIDE DEF s
  <2>3. SortedBy(prio, ListInsertBefore(waiters[s], i, t))
    BY <1>a, <2>1, <2>2, SortedInsert DEF IsWaitPosition
  <2>4. \A r \in WaitList :
           waiters'[r] = IF r = s THEN ListInsertBefore(waiters[s], i, t) ELSE waiters[r]
    BY <1>a, <2>1, <2>2
  <2>5. UNCHANGED prio
    BY <1>5 DEF WaitBegin
  <2>6. \A r \in WaitList : SortedBy(prio, waiters'[r])
    BY <2>1, <2>3, <2>4
  <2> QED
    BY <2>5, <2>6 DEF WaitersSorted, SortedBy
<1>6. CASE UNCHANGED waitingVars
  BY <1>6, SortedFrame
<1> QED
  BY <1>1, <1>2, <1>3, <1>4, <1>5, <1>6
  DEF WaitingStep, WaitStep, ControlStep, TimedOut, Trying, FinishWaking, WakeOne

-----------------------------------------------------------------------------
(* Counting.                                                               *)

\* Sets of woken tasks are finite, and can be counted.
LEMMA WokenFinite ==
    ASSUME NEW s
    PROVE  /\ Woken(s) \subseteq Task /\ IsFiniteSet(Woken(s))
           /\ Cardinality(Woken(s)) \in Nat
BY FS_Subset, FS_CardinalityType, WaitingAssumption DEF Woken

\* One more and one less.
LEMMA Counting ==
    ASSUME NEW W, IsFiniteSet(W), NEW t, NEW u
    PROVE  /\ u \notin W => Cardinality(W \cup {u}) = Cardinality(W) + 1
           /\ Cardinality(W) <= Cardinality(W \ {t}) + 1
           /\ t \notin W => W \ {t} = W
<1>1. Cardinality(W) \in Nat
  BY FS_CardinalityType
<1>2. u \notin W => Cardinality(W \cup {u}) = Cardinality(W) + 1
  BY FS_AddElement
<1>3. /\ t \in W => Cardinality(W \ {t}) = Cardinality(W) - 1
      /\ t \notin W => W \ {t} = W
  BY FS_RemoveElement
<1>4. Cardinality(W) <= Cardinality(W \ {t}) + 1
  <2>1. CASE t \in W
    BY <1>1, <1>3, <2>1
  <2>2. CASE t \notin W
    <3>1. Cardinality(W \ {t}) = Cardinality(W)
      BY <1>3, <2>2, Zenon
    <3> QED
      BY <1>1, <3>1
  <2> QED
    BY <2>1, <2>2
<1> QED
  BY <1>2, <1>3, <1>4

\* One for another.
LEMMA Swapping ==
    ASSUME NEW W, IsFiniteSet(W), NEW t \in W, NEW u, u \notin W
    PROVE  Cardinality((W \ {t}) \cup {u}) = Cardinality(W)
<1> DEFINE V == W \ {t}
<1>1. IsFiniteSet(V) /\ Cardinality(V) = Cardinality(W) - 1
  BY FS_RemoveElement
<1>2. u \notin V /\ Cardinality(W) \in Nat
  BY FS_CardinalityType
<1> HIDE DEF V
<1>3. Cardinality(V \cup {u}) = Cardinality(V) + 1
  BY <1>1, <1>2, FS_AddElement
<1> QED
  BY <1>1, <1>2, <1>3 DEF V

-----------------------------------------------------------------------------
(* Credits.  An object that holds c units of what the tasks of list s wait *)
(* for must have c of them woken, or nobody waiting.  The lemmas say how   *)
(* the steps of the machinery move this balance; c is the stock before the *)
(* step and d the stock after it.                                          *)

Covered(s, c) == waiters[s] # << >> => c <= Cardinality(Woken(s))

\* A list nobody joins stays empty: a step by which no task comes to block.
LEMMA NobodyJoins ==
    ASSUME WInv, WInv', NEW s \in WaitList,
           \A t \in Task : state'[t] = "BLOCKED" =>
              /\ state[t] = "BLOCKED"
              /\ pc'[t] = pc[t] /\ target'[t] = target[t]
    PROVE  waiters'[s] # << >> => waiters[s] # << >>
<1>1. \A t \in Task :
         t \in Members(waiters[s])
            <=> state[t] = "BLOCKED" /\ pc[t] = "wait" /\ target[t] = s
  BY DEF WInv, WaitersExact
<1>2. \A t \in Task :
         t \in Members(waiters'[s])
            <=> state'[t] = "BLOCKED" /\ pc'[t] = "wait" /\ target'[t] = s
  BY DEF WInv, WaitersExact
<1>3. waiters[s] \in Seq(Task) /\ waiters'[s] \in Seq(Task)
  BY DEF WInv, WaitingTypeOK
<1>4. Members(waiters'[s]) \subseteq Task
  BY <1>3, MembersOfSeq
<1>5. /\ waiters'[s] = << >> <=> Members(waiters'[s]) = {}
      /\ waiters[s] = << >> <=> Members(waiters[s]) = {}
  BY <1>3, MembersOfSeq
<1> QED
  BY <1>1, <1>2, <1>4, <1>5

\* A step by which the tasks woken from s stay the same, or one takes the
\* place of another, and the stock does not grow.
LEMMA CreditStays ==
    ASSUME WInv, NEW s \in WaitList, NEW c \in Int, NEW d \in Int, Covered(s, c), d <= c,
           waiters'[s] # << >> => /\ waiters[s] # << >>
                                  /\ Cardinality(Woken(s)') = Cardinality(Woken(s))
    PROVE  waiters'[s] # << >> => d <= Cardinality(Woken(s)')
<1>1. Cardinality(Woken(s)) \in Int
  BY WokenFinite
<1> QED
  BY <1>1 DEF Covered

\* A task that takes a unit of what it waited for, or finds none, forgets its
\* wakeup.
LEMMA CreditSpent ==
    ASSUME WInv, NEW t \in Task, NEW s \in WaitList, NEW c \in Int, NEW d \in Int, Covered(s, c),
           \A u \in Task : wokenFrom'[u] = s <=> u # t /\ wokenFrom[u] = s,
           \/ d <= 0
           \/ (waiters'[s] # << >> => waiters[s] # << >>) /\ d <= c - 1
           \/ (waiters'[s] # << >> => waiters[s] # << >>) /\ d <= c /\ s # target[t]
    PROVE  waiters'[s] # << >> => d <= Cardinality(Woken(s)')
<1>1. Woken(s)' = Woken(s) \ {t}
  BY DEF Woken
<1>2. t \in Woken(s) => target[t] = s
  BY DEF WInv, WokenAlive
<1> DEFINE W == Woken(s)
<1>3. IsFiniteSet(W)
  BY WokenFinite
<1> HIDE DEF W
<1>4. IsFiniteSet(W \ {t})
  BY <1>3, FS_RemoveElement
<1>5. Cardinality(W) \in Nat /\ Cardinality(W \ {t}) \in Nat
  BY <1>3, <1>4, FS_CardinalityType
<1>6. /\ Cardinality(W) <= Cardinality(W \ {t}) + 1
      /\ t \notin W => W \ {t} = W
  BY <1>3, Counting
<1>7. waiters[s] # << >> => c <= Cardinality(W)
  BY DEF Covered, W
<1>8. waiters'[s] # << >> => d <= Cardinality(W \ {t})
  <2>1. CASE d <= 0
    BY <1>5, <2>1
  <2>2. CASE (waiters'[s] # << >> => waiters[s] # << >>) /\ d <= c - 1
    BY <1>5, <1>6, <1>7, <2>2
  <2>3. CASE (waiters'[s] # << >> => waiters[s] # << >>) /\ d <= c /\ s # target[t]
    <3>1. t \notin W
      BY <1>2, <2>3 DEF W
    <3>2. Cardinality(W \ {t}) = Cardinality(W)
      BY <1>6, <3>1, Zenon
    <3> QED
      BY <1>5, <1>7, <2>3, <3>2
  <2> QED
    BY <2>1, <2>2, <2>3
<1> QED
  BY <1>1, <1>8 DEF W

\* A wake of s adds a woken task, if any task waits there; enders are not
\* among those who wait there.
LEMMA CreditGiven ==
    ASSUME WInv, WInv', NEW s \in WaitList, NEW enders, NEW c \in Int, NEW d \in Int,
           Covered(s, c), d <= c + 1, Wakes(s, enders),
           \A t \in enders : wokenFrom[t] # s
    PROVE  waiters'[s] # << >> => d <= Cardinality(Woken(s)')
<1>1. /\ \A u \in Task : wokenFrom'[u] = s <=> u \in Waking(s) \/ wokenFrom[u] = s
      /\ \A u \in Waking(s) : state[u] = "BLOCKED"
      /\ waiters[s] # << >> => \E t \in Task : Waking(s) = {t}
      /\ waiters'[s] # << >> => waiters[s] # << >>
  <2>1. \A u \in Task : wokenFrom'[u] = s <=> u \in Waking(s) \/ wokenFrom[u] = s
    BY WaitingAssumption DEF Wakes
  <2>2. \A u \in Waking(s) : state[u] = "BLOCKED"
    BY WakesFacts
  <2>3. /\ waiters'[s] \in Seq(Task) /\ waiters[s] \in Seq(Task)
        /\ Members(waiters'[s]) = Members(waiters[s]) \ Waking(s)
    BY WakesFacts, Basics
  <2>4. waiters'[s] # << >> => waiters[s] # << >>
    <3>1. /\ waiters'[s] = << >> <=> Members(waiters'[s]) = {}
          /\ waiters[s] = << >> <=> Members(waiters[s]) = {}
      BY <2>3, MembersOfSeq
    <3> QED
      BY <2>3, <3>1
  <2> QED
    BY <2>1, <2>2, <2>4, WakingMember
<1>2. SUFFICES ASSUME waiters'[s] # << >>
               PROVE  d <= Cardinality(Woken(s)')
  OBVIOUS
<1>3. PICK t \in Task : Waking(s) = {t}
  BY <1>1, <1>2
<1>4. t \notin Woken(s) /\ Woken(s)' = Woken(s) \cup {t}
  <2>1. \A u \in Woken(s) : state[u] \in {"READY", "RUNNING"}
    BY DEF WInv, WokenAlive
  <2> QED
    BY <1>1, <1>3, <2>1 DEF Woken
<1> DEFINE W == Woken(s)
<1>5. IsFiniteSet(W) /\ Cardinality(W) \in Nat /\ t \notin W
  BY <1>4, WokenFinite
<1> HIDE DEF W
<1>6. Cardinality(W \cup {t}) = Cardinality(W) + 1
  BY <1>5, FS_AddElement
<1>7. Cardinality(Woken(s)') = Cardinality(Woken(s)) + 1 /\ Cardinality(Woken(s)) \in Nat
  BY <1>4, <1>5, <1>6 DEF W
<1>8. c <= Cardinality(Woken(s))
  BY <1>1, <1>2 DEF Covered
<1> QED
  BY <1>7, <1>8

\* os_task_wake_compensate: when t is paused or deleted, the wakeup it has
\* not consumed passes to the next waiter of the same list.
LEMMA CreditPasses ==
    ASSUME WInv, NEW t \in Task, NEW s \in WaitList, MayTearDown(t),
           \A u \in Task : wokenFrom'[u] = IF u \in Compensating(t) THEN wokenFrom[t]
                                           ELSE IF u = t THEN NoList ELSE wokenFrom[u]
    PROVE  waiters[s] # << >> => Cardinality(Woken(s)') = Cardinality(Woken(s))
<1>1. /\ \A u \in Compensating(t) :
            /\ u \in Task /\ u # t /\ wokenFrom[t] \in WaitList
            /\ state[u] = "BLOCKED" /\ Compensating(t) = {u}
      /\ Unconsumed(t) /\ waiters[wokenFrom[t]] # << >> => Compensating(t) # {}
  BY CompensatingMember, Basics
<1>2. \A u \in Woken(s) : state[u] \in {"READY", "RUNNING"}
  BY DEF WInv, WokenAlive
<1>3. t \in Woken(s) => wokenFrom[t] = s /\ Unconsumed(t)
  BY TornDown, WaitingAssumption DEF Woken
<1>4. CASE t \notin Woken(s)
  <2>1. \A u \in Compensating(t) : wokenFrom[t] # s /\ wokenFrom[u] # s
    BY <1>1, <1>2, <1>4 DEF Woken
  <2>2. \A u \in Task : wokenFrom'[u] = s <=> wokenFrom[u] = s
    BY <1>4, <2>1, WaitingAssumption DEF Woken
  <2> QED
    BY <2>2 DEF Woken
<1>5. CASE t \in Woken(s) /\ waiters[s] # << >>
  <2>1. wokenFrom[t] = s
    BY <1>3, <1>5
  <2>2. PICK u \in Compensating(t) : TRUE
    BY <1>1, <1>3, <1>5, <2>1
  <2>3. u \in Task /\ u # t /\ Compensating(t) = {u} /\ u \notin Woken(s)
    BY <1>1, <1>2, <2>2
  <2>4. Woken(s)' = (Woken(s) \ {t}) \cup {u}
    BY <2>1, <2>3, WaitingAssumption DEF Woken
  <2> DEFINE W == Woken(s)
  <2>5. IsFiniteSet(W) /\ t \in W /\ u \notin W
    BY <1>5, <2>3, WokenFinite
  <2> HIDE DEF W
  <2>6. Cardinality((W \ {t}) \cup {u}) = Cardinality(W)
    BY <2>5, Swapping
  <2> QED
    BY <2>4, <2>6 DEF W
<1> QED
  BY <1>4, <1>5

\* The steps of the machinery that concern no object leave every balance.
LEMMA CreditKept ==
    ASSUME WInv, WInv', NEW s \in WaitList, NEW c \in Int, Covered(s, c), NEW t \in Task,
           WaitStep(t) \/ Resume(t) \/ TimedOut(t) \/ TryOnce(t)
    PROVE  waiters'[s] # << >> => c <= Cardinality(Woken(s)')
<1> USE DEF tcbVars, callVars, waitingVars
<1> DEFINE Goal == waiters'[s] # << >> => c <= Cardinality(Woken(s)')
<1>a. ASSUME UNCHANGED wokenFrom, waiters'[s] # << >> => waiters[s] # << >>
      PROVE  Goal
  <2>1. Woken(s)' = Woken(s) /\ c <= c
    BY <1>a DEF Woken
  <2> QED
    BY <1>a, <2>1, CreditStays
<1>b. ASSUME UNCHANGED wokenFrom,
             \A u \in Task : state'[u] = "BLOCKED" =>
                /\ state[u] = "BLOCKED" /\ pc'[u] = pc[u] /\ target'[u] = target[u]
      PROVE  Goal
  BY <1>a, <1>b, NobodyJoins
<1>1. ASSUME NEW r \in WaitList, NEW limit \in Timeout, Call(t, r, limit)
      PROVE  Goal
  BY <1>1, <1>a DEF Call
<1>2. CASE Resume(t)
  BY <1>2, <1>a DEF Resume
<1>3. CASE Executing(t) /\ pc[t] = "expired" /\ WaitEnd(t) /\ UNCHANGED waiters
  <2>1. wokenFrom[t] # s
    BY <1>3 DEF WInv, WokenAlive, Woken
  <2>2. \A u \in Task : wokenFrom'[u] = s <=> wokenFrom[u] = s
    BY <1>3, <2>1, Basics, WaitingAssumption DEF WaitEnd
  <2>3. Woken(s)' = Woken(s)
    BY <2>2 DEF Woken
  <2> QED
    BY <1>3, <2>3, CreditStays
<1>4. CASE Expire(t)
  BY <1>b, <1>4, Basics DEF Expire
<1>5. CASE Start(t)
  BY <1>b, <1>5, Basics DEF Start
<1>6. CASE Pause(t)
  <2>1. ~Unconsumed(t) => wokenFrom[t] = NoList
    BY <1>6, TornDown DEF Pause
  <2>2. \A u \in Task : wokenFrom'[u] = IF u \in Compensating(t) THEN wokenFrom[t]
                                        ELSE IF u = t THEN NoList ELSE wokenFrom[u]
    BY <1>6, <2>1 DEF Pause
  <2>3. \A u \in Task : state'[u] = "BLOCKED" =>
           state[u] = "BLOCKED" /\ pc'[u] = pc[u] /\ target'[u] = target[u]
    BY <1>6 DEF Pause
  <2>4. MayTearDown(t)
    BY <1>6 DEF Pause
  <2>5. waiters'[s] # << >> => waiters[s] # << >>
    BY <2>3, NobodyJoins
  <2>6. waiters[s] # << >> => Cardinality(Woken(s)') = Cardinality(Woken(s))
    BY <2>2, <2>4, CreditPasses
  <2> QED
    BY <2>5, <2>6, CreditStays
<1>7. CASE Delete(t)
  <2>1. \A u \in Task : wokenFrom'[u] = IF u \in Compensating(t) THEN wokenFrom[t]
                                        ELSE IF u = t THEN NoList ELSE wokenFrom[u]
    BY <1>7 DEF Delete
  <2>2. \A u \in Task : state'[u] = "BLOCKED" => u # t /\ state[u] = "BLOCKED"
    BY <1>7 DEF Delete
  <2>3. \A u \in Task : u # t => pc'[u] = pc[u] /\ target'[u] = target[u]
    BY <1>7, Basics DEF Delete, Return
  <2>4. MayTearDown(t)
    BY <1>7 DEF Delete
  <2>5. waiters'[s] # << >> => waiters[s] # << >>
    BY <2>2, <2>3, NobodyJoins
  <2>6. waiters[s] # << >> => Cardinality(Woken(s)') = Cardinality(Woken(s))
    BY <2>1, <2>4, CreditPasses
  <2> QED
    BY <2>5, <2>6, CreditStays
<1>8. ASSUME NEW p \in Prio, Create(t, p)
      PROVE  Goal
  BY <1>a, <1>8 DEF Create
<1>9. ASSUME NEW p \in Prio, Reprioritize(t, p)
      PROVE  Goal
  BY <1>b, <1>9 DEF Reprioritize
<1>10. CASE Dispatch(t) \/ SwitchOut(t)
  BY <1>a, <1>10 DEF Dispatch, SwitchOut
<1> QED
  BY <1>1, <1>2, <1>3, <1>4, <1>5, <1>6, <1>7, <1>8, <1>9, <1>10
  DEF WaitStep, ControlStep, TimedOut, TryOnce, Finish

\* A call that takes what it waited for, finds nothing and gives up, or
\* blocks, moves the balance of its own list only.
LEMMA CreditCall ==
    ASSUME WInv, WInv', NEW s \in WaitList, NEW c \in Int, NEW d \in Int, Covered(s, c),
           NEW t \in Task, Trying(t), Finish(t) \/ WaitBegin(t),
           s = target[t] => d <= 0 \/ (Finish(t) /\ d <= c - 1),
           s # target[t] => d <= c
    PROVE  waiters'[s] # << >> => d <= Cardinality(Woken(s)')
<1>1. \A u \in Task : wokenFrom'[u] = s <=> u # t /\ wokenFrom[u] = s
  <2>1. wokenFrom' = [wokenFrom EXCEPT ![t] = NoList]
    BY DEF Finish, WaitEnd, WaitBegin
  <2> QED
    BY <2>1, Basics, WaitingAssumption
<1>2. CASE Finish(t)
  <2>1. waiters'[s] # << >> => waiters[s] # << >>
    BY <1>2 DEF Finish
  <2> QED
    BY <1>1, <1>2, <2>1, CreditSpent
<1>3. CASE WaitBegin(t)
  <2>1. s # target[t] => waiters'[s] = waiters[s]
    BY <1>3, Basics DEF WaitBegin
  <2>2. s = target[t] => d <= 0
    <3>1. ~Finish(t)
      BY <1>3, Basics DEF WaitBegin, Finish, Trying, Executing
    <3> QED
      BY <3>1
  <2> QED
    BY <1>1, <2>1, <2>2, CreditSpent
<1> QED
  BY <1>2, <1>3

\* A wake of r takes nobody into a list.
LEMMA WakeJoinsNobody ==
    ASSUME WInv, NEW s \in WaitList, NEW r \in WaitList, NEW enders, Wakes(r, enders)
    PROVE  /\ waiters'[s] # << >> => waiters[s] # << >>
           /\ \A u \in Waking(r) : wokenFrom[u] \notin WaitList /\ state[u] = "BLOCKED"
<1>1. /\ waiters'[s] \in Seq(Task) /\ waiters[s] \in Seq(Task)
      /\ Members(waiters'[s]) = Members(waiters[s]) \ Waking(r)
      /\ \A u \in Waking(r) : u \in Task /\ state[u] = "BLOCKED"
  BY WakesFacts, Basics
<1>2. /\ waiters'[s] = << >> <=> Members(waiters'[s]) = {}
      /\ waiters[s] = << >> <=> Members(waiters[s]) = {}
  BY <1>1, MembersOfSeq
<1>3. \A u \in Task : wokenFrom[u] \in WaitList => state[u] # "BLOCKED"
  BY WokenFacts
<1> QED
  BY <1>1, <1>2, <1>3

\* A wake of r, by a task or an interrupt handler, moves the balance of r.
LEMMA CreditWoken ==
    ASSUME WInv, WInv', NEW s \in WaitList, NEW c \in Int, NEW d \in Int, Covered(s, c),
           NEW r \in WaitList, WakeOne(r),
           s = r => d <= c + 1,
           s # r => d <= c
    PROVE  waiters'[s] # << >> => d <= Cardinality(Woken(s)')
<1>1. Wakes(r, {})
  BY DEF WakeOne
<1>2. CASE s = r
  <2>1. \A u \in {} : wokenFrom[u] # s
    OBVIOUS
  <2>2. Wakes(s, {}) /\ d <= c + 1
    BY <1>1, <1>2
  <2> QED
    BY <2>1, <2>2, CreditGiven
<1>3. CASE s # r
  <2>1. /\ waiters'[s] # << >> => waiters[s] # << >>
        /\ \A u \in Waking(r) : wokenFrom[u] \notin WaitList
    BY <1>1, WakeJoinsNobody
  <2>2. Woken(s)' = Woken(s)
    BY <1>1, <1>3, <2>1 DEF Wakes, Woken
  <2> QED
    BY <1>3, <2>1, <2>2, CreditStays
<1> QED
  BY <1>2, <1>3

\* A call that gives to r what it took from its own list, or found missing
\* there.
LEMMA CreditExchanged ==
    ASSUME WInv, WInv', NEW s \in WaitList, NEW c \in Int, NEW d \in Int, Covered(s, c),
           NEW r \in WaitList, NEW t \in Task,
           Trying(t), target[t] # r, FinishWaking(t, r),
           s = r => d <= c + 1,
           s = target[t] => d <= 0 \/ d <= c - 1,
           s # r /\ s # target[t] => d <= c
    PROVE  waiters'[s] # << >> => d <= Cardinality(Woken(s)')
<1>1. Wakes(r, {t})
  BY DEF FinishWaking
<1>2. CASE s = r
  <2>1. \A u \in {t} : wokenFrom[u] # s
    BY <1>2 DEF WInv, WokenAlive, Woken
  <2> QED
    BY <1>1, <1>2, <2>1, CreditGiven
<1>3. CASE s # r
  <2>1. /\ waiters'[s] # << >> => waiters[s] # << >>
        /\ \A u \in Waking(r) : wokenFrom[u] \notin WaitList /\ state[u] = "BLOCKED"
    BY <1>1, WakeJoinsNobody
  <2>2. t \notin Waking(r)
    BY <2>1 DEF Trying, Executing
  <2>3. \A u \in Task : wokenFrom'[u] = s <=> u # t /\ wokenFrom[u] = s
    BY <1>1, <1>3, <2>1, <2>2, WaitingAssumption DEF Wakes
  <2>4. \/ d <= 0
        \/ (waiters'[s] # << >> => waiters[s] # << >>) /\ d <= c - 1
        \/ (waiters'[s] # << >> => waiters[s] # << >>) /\ d <= c /\ s # target[t]
    BY <1>3, <2>1
  <2> QED
    BY <2>3, <2>4, CreditSpent
<1> QED
  BY <1>2, <1>3

\* A step of the object alone.
LEMMA CreditQuiet ==
    ASSUME WInv, NEW s \in WaitList, NEW c \in Int, NEW d \in Int, Covered(s, c),
           UNCHANGED <<wokenFrom, waiters>>, waiters[s] # << >> => d <= c
    PROVE  waiters'[s] # << >> => d <= Cardinality(Woken(s)')
<1>1. Woken(s)' = Woken(s)
  BY DEF Woken
<1>2. Cardinality(Woken(s)) \in Int
  BY WokenFinite
<1> QED
  BY <1>1, <1>2 DEF Covered

-----------------------------------------------------------------------------
(* Waking several tasks at once.                                           *)

\* Several nodes that leave a list leave the others in order.
LEMMA SortedWithout ==
    ASSUME NEW list \in Seq(Task), NEW gone, NEW p \in [Task -> Int], SortedBy(p, list)
    PROVE  SortedBy(p, ListWithout(list, gone))
<1> DEFINE rest == ListWithout(list, gone)
<1>1. /\ rest \in Seq(Task)
      /\ \A a, b \in 1 .. Len(rest) :
            a < b => \E c, d \in 1 .. Len(list) :
                        c < d /\ rest[a] = list[c] /\ rest[b] = list[d]
  BY WithoutElements
<1> HIDE DEF rest
<1>2. DOMAIN rest = 1 .. Len(rest) /\ DOMAIN list = 1 .. Len(list)
  BY <1>1, LenProperties
<1>3. ASSUME NEW a \in DOMAIN rest, NEW b \in DOMAIN rest, a < b
      PROVE  p[rest[a]] >= p[rest[b]]
  <2>1. a \in 1 .. Len(rest) /\ b \in 1 .. Len(rest)
    BY <1>2
  <2>2. \E c, d \in 1 .. Len(list) : c < d /\ rest[a] = list[c] /\ rest[b] = list[d]
    BY <1>1, <1>3, <2>1
  <2>3. PICK c \in DOMAIN list, d \in DOMAIN list :
           c < d /\ rest[a] = list[c] /\ rest[b] = list[d]
    BY <1>2, <2>2
  <2> QED
    BY <2>3 DEF SortedBy
<1> QED
  BY <1>3 DEF SortedBy, rest

\* The tasks of hits leave their lists, and no others.
LEMMA WakeAllLeaves ==
    ASSUME WInv, NEW hits, NEW enders, WakeAll(hits, enders)
    PROVE  /\ waiters' \in [WaitList -> Seq(Task)]
           /\ \A s \in WaitList :
                 NoRepeat(waiters'[s]) /\ Members(waiters'[s]) = Members(waiters[s]) \ hits
<1>1. waiters' = [s \in WaitList |-> ListWithout(waiters[s], hits)]
  BY DEF WakeAll
<1>2. ASSUME NEW s \in WaitList
      PROVE  /\ waiters'[s] \in Seq(Task) /\ NoRepeat(waiters'[s])
             /\ Members(waiters'[s]) = Members(waiters[s]) \ hits
  BY <1>1, Basics, WithoutMembers
<1> QED
  BY <1>1, <1>2

\* What a wake of hits does to the calls: those of enders, if any, return.
LEMMA WakeAllCalls ==
    ASSUME WInv, NEW enders,
           \/ enders = {} /\ UNCHANGED callVars
           \/ \E t \in Task : Executing(t) /\ enders = {t} /\ Return(t)
    PROVE  /\ pc' \in [Task -> {"out", "try", "wait", "expired", "ask", "asleep"}]
           /\ target' = target
           /\ timeout' \in [Task -> Timeout] /\ spent' \in [Task -> BOOLEAN]
           /\ \A t \in Task : t \notin enders =>
                 pc'[t] = pc[t] /\ timeout'[t] = timeout[t] /\ spent'[t] = spent[t]
           /\ \A t \in enders :
                 /\ state[t] = "RUNNING"
                 /\ pc'[t] = "out" /\ timeout'[t] = "nothing" /\ ~spent'[t]
<1>1. CASE enders = {} /\ UNCHANGED callVars
  BY <1>1, Basics DEF callVars
<1>2. ASSUME NEW t \in Task, Executing(t), enders = {t}, Return(t)
      PROVE  /\ pc' \in [Task -> {"out", "try", "wait", "expired", "ask", "asleep"}]
             /\ target' = target
             /\ timeout' \in [Task -> Timeout] /\ spent' \in [Task -> BOOLEAN]
             /\ \A u \in Task : u \notin enders =>
                   pc'[u] = pc[u] /\ timeout'[u] = timeout[u] /\ spent'[u] = spent[u]
             /\ \A u \in enders :
                   /\ state[u] = "RUNNING"
                   /\ pc'[u] = "out" /\ timeout'[u] = "nothing" /\ ~spent'[u]
  BY <1>2, Basics DEF Return, Executing, Timeout
<1> QED
  BY <1>1, <1>2

\* os_task_waiters_wake_match, by a task or an interrupt handler, keeps the
\* waiting machinery.
LEMMA WakeAllKeeps ==
    ASSUME WInv, NEW hits \in SUBSET Task, NEW enders, WakeAll(hits, enders),
           \A t \in hits : state[t] = "BLOCKED" /\ pc[t] = "wait",
           \/ enders = {} /\ UNCHANGED callVars
           \/ \E t \in Task : Executing(t) /\ enders = {t} /\ Return(t)
    PROVE  WInv'
<1>1. /\ waiters' \in [WaitList -> Seq(Task)]
      /\ \A s \in WaitList :
            NoRepeat(waiters'[s]) /\ Members(waiters'[s]) = Members(waiters[s]) \ hits
  BY WakeAllLeaves
<1>2. /\ pc' \in [Task -> {"out", "try", "wait", "expired", "ask", "asleep"}]
      /\ target' = target
      /\ timeout' \in [Task -> Timeout] /\ spent' \in [Task -> BOOLEAN]
      /\ \A t \in Task : t \notin enders =>
            pc'[t] = pc[t] /\ timeout'[t] = timeout[t] /\ spent'[t] = spent[t]
      /\ \A t \in enders :
            /\ state[t] = "RUNNING"
            /\ pc'[t] = "out" /\ timeout'[t] = "nothing" /\ ~spent'[t]
  BY WakeAllCalls
<1>3. WaitingTypeOK'
  BY <1>1, <1>2, Basics DEF WInv, WakeAll, WaitingTypeOK
<1>4. WaitersExact'
  <2>1. \A t \in Task : state'[t] = "BLOCKED" <=> state[t] = "BLOCKED" /\ t \notin hits
    BY DEF WakeAll
  <2>2. \A t \in Task : state'[t] = "BLOCKED" =>
           pc'[t] = pc[t] /\ target'[t] = target[t] /\ timeout'[t] = timeout[t]
    BY <1>2, <2>1
  <2>3. delayed' \subseteq delayed \ hits
    BY DEF WakeAll
  <2> QED
    BY <1>1, <2>1, <2>2, <2>3, WaitersFrame
<1>5. WaitersSorted'
  <2>1. prio \in [Task -> Int] /\ UNCHANGED prio
    BY DEF WInv, WaitingTypeOK, Prio, WakeAll
  <2>2. ASSUME NEW s \in WaitList
        PROVE  SortedBy(prio, ListWithout(waiters[s], hits))
    <3>1. waiters[s] \in Seq(Task) /\ SortedBy(prio, waiters[s])
      BY Basics DEF WInv, WaitersSorted, SortedBy
    <3> QED
      BY <2>1, <3>1, SortedWithout
  <2>3. \A s \in WaitList : waiters'[s] = ListWithout(waiters[s], hits)
    BY DEF WakeAll
  <2> QED
    BY <2>1, <2>2, <2>3 DEF WaitersSorted, SortedBy
<1>6. WokenAlive'
  <2>1. SUFFICES ASSUME NEW t \in Task, wokenFrom'[t] \in WaitList
                 PROVE  /\ state'[t] \in {"READY", "RUNNING"} /\ signaled'[t]
                        /\ pc'[t] \in {"wait", "try"} /\ target'[t] = wokenFrom'[t]
    BY DEF WokenAlive, Woken
  <2>2. CASE t \in hits
    <3>1. t \notin enders
      BY <1>2, <2>2
    <3>2. state'[t] = "READY" /\ wokenFrom'[t] = target[t] /\ pc'[t] = "wait"
      BY <1>2, <2>2, <3>1 DEF WakeAll
    <3>3. signaled'[t]
      BY <2>2 DEF WakeAll
    <3> QED
      BY <1>2, <3>2, <3>3
  <2>3. CASE t \notin hits
    <3>1. t \notin enders
      BY <2>1, <2>3, WaitingAssumption DEF WakeAll
    <3>2. state'[t] = state[t] /\ wokenFrom'[t] = wokenFrom[t] /\ pc'[t] = pc[t]
      BY <1>2, <2>3, <3>1 DEF WakeAll
    <3>3. signaled[t] => signaled'[t]
      BY <3>1 DEF WakeAll
    <3> QED
      BY <1>2, <2>1, <3>2, <3>3, WokenFacts
  <2> QED
    BY <2>2, <2>3
<1>7. RunningOnCore'
  BY DEF WInv, RunningOnCore, WakeAll
<1>8. ForeverSignaled'
  <2>1. SUFFICES ASSUME NEW t \in Task, timeout'[t] = "forever", pc'[t] = "wait",
                        state'[t] # "BLOCKED"
                 PROVE  signaled'[t]
    BY DEF ForeverSignaled
  <2>2. t \notin enders
    BY <1>2, <2>1
  <2>3. t \in hits \/ (state[t] # "BLOCKED" /\ signaled[t])
    BY <1>2, <2>1, <2>2 DEF WInv, ForeverSignaled, WakeAll
  <2> QED
    BY <2>2, <2>3 DEF WakeAll
<1>9. ForeverWaits' /\ IdleCall'
  BY <1>2 DEF WInv, ForeverWaits, IdleCall
<1> QED
  BY <1>3, <1>4, <1>5, <1>6, <1>7, <1>8, <1>9 DEF WInv

-----------------------------------------------------------------------------
(* The theorems.                                                           *)

\* A system that starts has nobody waiting and nobody woken.
THEOREM WaitingStarts == WaitingInit => WInv
<1> SUFFICES ASSUME WaitingInit
             PROVE  WInv
  OBVIOUS
<1>1. WaitingTypeOK
  BY EmptySeq DEF WaitingInit, WaitingTypeOK, Timeout
<1>2. WaitersExact
  BY DEF WaitingInit, WaitersExact, Members, NoRepeat
<1>3. WaitersSorted
  BY DEF WaitingInit, WaitersSorted
<1>4. WokenAlive
  BY WaitingAssumption DEF WaitingInit, WokenAlive, Woken
<1>5. RunningOnCore /\ ForeverSignaled /\ ForeverWaits /\ IdleCall
  BY DEF WaitingInit, RunningOnCore, ForeverSignaled, ForeverWaits, IdleCall
<1> QED
  BY <1>1, <1>2, <1>3, <1>4, <1>5 DEF WInv

\* No step that an object may take breaks the waiting machinery.
THEOREM WaitingKept == WInv /\ WaitingStep => WInv'
<1> SUFFICES ASSUME WInv, WaitingStep
             PROVE  WInv'
  OBVIOUS
<1>1. WaitingTypeOK' /\ WaitersExact'
  BY TypeStep, WaitersStep
<1>2. WaitersSorted'
  BY <1>1, SortedStep
<1>3. WokenAlive' /\ RunningOnCore' /\ ForeverSignaled' /\ ForeverWaits' /\ IdleCall'
  BY WokenStep, RunningStep, ForeverStep
<1> QED
  BY <1>1, <1>2, <1>3 DEF WInv
=============================================================================
