----------------------------- MODULE LocksProofs -----------------------------
(***************************************************************************)
(* The safety of mutexes and semaphores together, for any number of tasks, *)
(* objects, priorities and cores, and any depth of the chain walk.         *)
(*                                                                         *)
(* The waiting machinery keeps WInv (WaitingProofs); what a walk does to   *)
(* it is a change of priority.  Beside it three facts carry each other:    *)
(* who owns what, who waits behind whom, and that a critical section which *)
(* is half way concerns live tasks.  On these rest two more invariants:    *)
(* every task but the one a walk has reached has the priority it is owed   *)
(* (PrioInv), and the tasks that wait for ever never wait for one another  *)
(* (CycleInv).                                                             *)
(***************************************************************************)
EXTENDS Locks, WaitingProofs, FiniteSetTheorems

-----------------------------------------------------------------------------
(* The inductive invariant.                                                *)

\* t waits for list s.
BlockedAt(t, s) == state[t] = "BLOCKED" /\ pc[t] = "wait" /\ target[t] = s

\* A mutex is owned by the task that lists it, and that task is live.
OwnersFollow ==
    /\ \A m \in Mutex, t \in Task : m \in ownedMutexes[t] <=> owner[m] = t
    /\ \A m \in Mutex : owner[m] # Nobody => locked[m]
    /\ \A t \in Task : ownedMutexes[t] # {} => Live(t)

\* The wait edges say who waits for which mutex, and for how long.
EdgesFollow ==
    /\ \A m \in Mutex, t \in Task : blockedOn[t] = m <=> BlockedAt(t, m)
    /\ \A t \in Task : blockedForever[t] <=> blockedOn[t] # NoList /\ timeout[t] = "forever"

\* What is left of a critical section can be carried out.
SectionExact ==
    /\ walk # Nobody => Live(walk)
    /\ joining # Nobody =>
          /\ Trying(joining) /\ ~GivesUp(joining)
          /\ target[joining] \in Mutex /\ locked[target[joining]]
          /\ owner[target[joining]] # joining
          /\ releasing = NoList

\* A free mutex beside which a task waits is offered, or about to be.
Offered ==
    \A m \in Mutex : ~locked[m] /\ waiters[m] # << >> /\ releasing # m => Woken(m) # {}

\* A task does not wait for a mutex it owns.
SelfFree ==
    \A t \in Task, m \in Mutex :
        owner[m] = t /\ target[t] = m => pc[t] \in {"out", "try"} /\ wokenFrom[t] = NoList

IInv ==
    /\ WInv
    /\ SemTypeOK /\ MutexTypeOK
    /\ OwnersFollow
    /\ EdgesFollow
    /\ SectionExact
    /\ SelfFree
    /\ Offered

\* The mutexes and the semaphores are apart, and nobody is a task.
LEMMA ListsApart ==
    /\ Mutex \subseteq WaitList /\ Semaphore \subseteq WaitList
    /\ Semaphore \cap Mutex = {}
    /\ NoList \notin Mutex /\ Nobody \notin Task /\ Gone \notin Task /\ Nobody # Gone
BY MutexAssumption, LocksAssumption, WaitingAssumption

-----------------------------------------------------------------------------
(* A step of a lock is a step of the waiting machinery.                    *)

\* A step of a call on a semaphore is one of module Waiting.
LEMMA PlainIsWaiting ==
    ASSUME NEW t \in Task, PlainStep(t)
    PROVE  WaitingStep
BY DEF PlainStep, TakeStep, TakeOk, TakeFail, TakeBlock, TakeTimedOut, Taking, Trying, WaitStep,
       ControlStep, WaitingStep

\* So is each step of a call on a mutex.
LEMMA CallIsWaiting ==
    ASSUME IInv, NEW t \in Task, NEW m \in Mutex,
           \/ LockOk(t, m) \/ LockFail(t, m) \/ LockBoost(t, m) \/ LockJoin(t, m)
           \/ LockTimedOut(t, m) \/ Unlock(t, m)
    PROVE  WaitingStep
<1>1. CASE LockOk(t, m) \/ LockFail(t, m) \/ LockTimedOut(t, m)
  BY <1>1 DEF LockOk, LockFail, LockTimedOut, Locking, Trying, WaitingStep
<1>2. CASE LockBoost(t, m)
  <2>1. owner[m] \in Task /\ prio[t] \in Prio /\ Reprioritize(owner[m], prio[t])
    BY <1>2 DEF LockBoost, Outranks, IInv, WInv, WaitingTypeOK
  <2>2. Live(owner[m])
    BY <2>1 DEF IInv, OwnersFollow
  <2> QED
    BY <2>1, <2>2 DEF WaitingStep, WaitStep, ControlStep
<1>3. CASE LockJoin(t, m)
  <2>1. Trying(t)
    BY <1>3, ListsApart DEF LockJoin, MustWait, Locking, IInv, SectionExact
  <2>2. WaitBegin(t)
    BY <1>3 DEF LockJoin
  <2> QED
    BY <2>1, <2>2 DEF WaitingStep
<1>4. CASE Unlock(t, m)
  BY <1>4 DEF Unlock, WaitingStep
<1> QED
  BY <1>1, <1>2, <1>3, <1>4

\* So is what the task control does.
LEMMA TaskIsWaiting ==
    ASSUME NEW t \in Task, TaskStep(t)
    PROVE  WaitingStep
BY DEF TaskStep, ExpireWait, StartTask, PauseTask, DeleteTask, CreateTask, PrioritySet,
       WaitStep, ControlStep, WaitingStep

\* So is a step of the inheritance.
LEMMA SectionIsWaiting ==
    ASSUME IInv, SectionStep
    PROVE  WaitingStep
<1>1. CASE WalkStep
  <2>1. walk \in Task /\ Live(walk)
    BY <1>1 DEF WalkStep, IInv, MutexTypeOK, SectionExact
  <2>2. PICK p \in Prio : Reprioritize(walk, p)
    BY <1>1 DEF WalkStep
  <2> QED
    BY <2>1, <2>2 DEF WaitingStep, WaitStep, ControlStep
<1>2. ASSUME NEW m \in Mutex, Release(m)
      PROVE  WaitingStep
  BY <1>2, ListsApart DEF Release, WaitingStep
<1> QED
  BY <1>1, <1>2 DEF SectionStep

\* So is every step of the composition.
LEMMA StepIsWaiting ==
    ASSUME IInv, [Next]_vars
    PROVE  WaitingStep
<1>1. ASSUME NEW s \in Semaphore, SemStep(s)
      PROVE  WaitingStep
  BY <1>1, ListsApart DEF SemStep, SemInit, Give, IsrTake, WaitingStep
<1>2. ASSUME NEW t \in Task, MutexCallStep(t)
      PROVE  WaitingStep
  BY <1>2, CallIsWaiting DEF MutexCallStep
<1>3. CASE UNCHANGED vars
  BY <1>3 DEF vars, WaitingStep
<1> QED
  BY <1>1, <1>2, <1>3, PlainIsWaiting, TaskIsWaiting, SectionIsWaiting DEF Next

-----------------------------------------------------------------------------
(* Types.                                                                  *)

\* The semaphores keep their types.
LEMMA SemTypeStep ==
    ASSUME SemTypeOK, [Next]_vars
    PROVE  SemTypeOK'
<1> USE DEF SemTypeOK
<1>1. ASSUME NEW s \in Semaphore, SemStep(s)
      PROVE  SemTypeOK'
  BY <1>1, SemAssumption DEF SemStep, SemInit, Give, IsrTake
<1>2. ASSUME NEW t \in Task, TakeStep(t)
      PROVE  SemTypeOK'
  BY <1>2, SemAssumption DEF TakeStep, TakeOk, TakeFail, TakeBlock, TakeTimedOut
<1>3. CASE UNCHANGED semCount
  BY <1>3
<1> QED
  BY <1>1, <1>2, <1>3 DEF Next, PlainStep, vars

\* Where a walk starts is a task or nowhere.
LEMMA WalkStarts ==
    ASSUME MutexTypeOK, NEW o \in Task \cup {Nobody}, RecomputeFrom(o)
    PROVE  walk' \in Task \cup {Nobody} /\ depth' \in 0 .. MaxDepth - 1
BY MutexAssumption DEF RecomputeFrom

\* What the chain of owners is walked with is a task or nobody.
LEMMA ChainType ==
    /\ \A id : FindById(id) \in Task \cup {Nobody}
    /\ \A t : NextInChain(t) \in Task \cup {Nobody}
BY DEF FindById, NextInChain

\* A departure clears the edges of those who leave, and walks from the owner
\* one of them waited behind, if any.
LEMMA DepartFacts ==
    ASSUME MutexTypeOK, NEW gone \in SUBSET Task, Depart(gone)
    PROVE  /\ blockedOn' \in [Task -> Mutex \cup {NoList}]
           /\ blockedForever' \in [Task -> BOOLEAN]
           /\ walk' \in Task \cup {Nobody} /\ depth' \in 0 .. MaxDepth - 1
           /\ walk' # Nobody => \E t \in gone : walk' = NextInChain(t)
           /\ \A t \in Task :
                 /\ blockedOn'[t] = IF t \in gone THEN NoList ELSE blockedOn[t]
                 /\ blockedForever'[t] = (t \notin gone /\ blockedForever[t])
<1> DEFINE owners == {NextInChain(t) : t \in gone} \ {Nobody}
           o == IF owners = {} THEN Nobody ELSE CHOOSE x \in owners : TRUE
<1>1. RecomputeFrom(o)
  BY DEF Depart
<1>2. owners # {} => o \in owners
  OBVIOUS
<1>3. o \in Task \cup {Nobody} /\ (o # Nobody => \E t \in gone : o = NextInChain(t))
  BY <1>2, ChainType
<1>4. walk' = o
  BY <1>1 DEF RecomputeFrom
<1> HIDE DEF o
<1>5. walk' \in Task \cup {Nobody} /\ depth' \in 0 .. MaxDepth - 1
  BY <1>1, <1>3, WalkStarts
<1>6. /\ blockedOn' = [t \in Task |-> IF t \in gone THEN NoList ELSE blockedOn[t]]
      /\ blockedForever' = [t \in Task |-> t \notin gone /\ blockedForever[t]]
  BY DEF Depart
<1>7. blockedOn' \in [Task -> Mutex \cup {NoList}]
  BY <1>6 DEF MutexTypeOK
<1>8. blockedForever' \in [Task -> BOOLEAN]
  BY <1>6 DEF MutexTypeOK
<1> QED
  BY <1>3, <1>4, <1>5, <1>6, <1>7, <1>8

\* The mutexes keep their types.
LEMMA MutexTypeStep ==
    ASSUME IInv, [Next]_vars
    PROVE  MutexTypeOK'
<1>a. MutexTypeOK
  BY DEF IInv
<1> USE DEF mutexVars, ownerVars, edgeVars, sectionVars
<1>1. CASE WalkStep
  <2>1. walk' \in Task \cup {Nobody} /\ depth' \in 0 .. MaxDepth - 1
    BY <1>1, <1>a, ChainType, MutexAssumption DEF WalkStep, RecomputeFrom, MutexTypeOK
  <2> QED
    BY <1>1, <1>a, <2>1 DEF WalkStep, MutexTypeOK
<1>2. ASSUME NEW m \in Mutex, Release(m)
      PROVE  MutexTypeOK'
  <2>1. Waking(m) \in SUBSET Task
    BY WakingMember, Basics, ListsApart DEF IInv
  <2> QED
    BY <1>2, <1>a, <2>1, DepartFacts DEF Release, MutexTypeOK
<1>3. ASSUME NEW t \in Task, NEW m \in Mutex, LockOk(t, m)
      PROVE  MutexTypeOK'
  <2>1. walk' \in Task \cup {Nobody} /\ depth' \in 0 .. MaxDepth - 1
    BY <1>3, <1>a, WalkStarts DEF LockOk, LinkOwned
  <2> QED
    BY <1>3, <1>a, <2>1 DEF LockOk, LinkOwned, Publish, MutexTypeOK
<1>4. ASSUME NEW t \in Task, NEW m \in Mutex, LockFail(t, m) \/ LockTimedOut(t, m)
      PROVE  MutexTypeOK'
  <2>1. {t} \in SUBSET Task /\ Depart({t})
    BY <1>4 DEF LockFail, LockTimedOut
  <2> QED
    BY <1>4, <1>a, <2>1, DepartFacts DEF LockFail, LockTimedOut, MutexTypeOK
<1>5. ASSUME NEW t \in Task, NEW m \in Mutex, LockBoost(t, m)
      PROVE  MutexTypeOK'
  <2>1. walk' \in Task \cup {Nobody} /\ depth' \in 0 .. MaxDepth - 1
    BY <1>5, <1>a, ChainType, WalkStarts DEF LockBoost
  <2> QED
    BY <1>5, <1>a, <2>1 DEF LockBoost, MutexTypeOK
<1>6. ASSUME NEW t \in Task, NEW m \in Mutex, LockJoin(t, m)
      PROVE  MutexTypeOK'
  BY <1>6, <1>a DEF LockJoin, Publish, MutexTypeOK
<1>7. ASSUME NEW t \in Task, NEW m \in Mutex, Unlock(t, m)
      PROVE  MutexTypeOK'
  <2>1. walk' \in Task \cup {Nobody} /\ depth' \in 0 .. MaxDepth - 1
    BY <1>7, <1>a, ChainType, WalkStarts DEF Unlock, UnlinkOwned
  <2> QED
    BY <1>7, <1>a, <2>1 DEF Unlock, UnlinkOwned, MutexTypeOK
<1>8. ASSUME NEW t \in Task, ExpireWait(t) \/ StartTask(t)
      PROVE  MutexTypeOK'
  <2>1. {t} \cap Queued \in SUBSET Task /\ Depart({t} \cap Queued)
    BY <1>8 DEF ExpireWait, StartTask
  <2> QED
    BY <1>8, <1>a, <2>1, DepartFacts DEF ExpireWait, StartTask, MutexTypeOK
<1>9. ASSUME NEW t \in Task, PauseTask(t) \/ DeleteTask(t)
      PROVE  MutexTypeOK'
  <2>1. /\ ({t} \cup Compensating(t)) \cap Queued \in SUBSET Task
        /\ Depart(({t} \cup Compensating(t)) \cap Queued)
    BY <1>9, CompensatingMember DEF PauseTask, DeleteTask, IInv
  <2> QED
    BY <1>9, <1>a, <2>1, DepartFacts DEF PauseTask, DeleteTask, MutexTypeOK
<1>10. ASSUME NEW t \in Task, NEW p \in Prio, CreateTask(t, p) \/ PrioritySet(t, p)
       PROVE  MutexTypeOK'
  <2>1. CASE CreateTask(t, p)
    BY <2>1, <1>a DEF CreateTask, MutexTypeOK
  <2>2. CASE PrioritySet(t, p)
    BY <2>2, <1>a, WalkStarts DEF PrioritySet, MutexTypeOK
  <2> QED
    BY <1>10, <2>1, <2>2
<1>11. CASE UNCHANGED mutexVars
  BY <1>11, <1>a DEF MutexTypeOK
<1> QED
  BY <1>1, <1>2, <1>3, <1>4, <1>5, <1>6, <1>7, <1>8, <1>9, <1>10, <1>11
  DEF Next, SectionStep, MutexCallStep, TaskStep, vars

-----------------------------------------------------------------------------
(* Owners.                                                                 *)

\* Only os_task_delete ends a task.
LEMMA LiveStays ==
    ASSUME IInv, [Next]_vars, NEW t \in Task, Live(t), ~DeleteTask(t)
    PROVE  Live(t)'
<1>a. WInv /\ state \in [Task -> {"INACTIVE", "SUSPENDED", "READY", "RUNNING", "BLOCKED"}]
  BY Basics DEF IInv
<1> USE DEF Live, tcbVars, waitingVars
<1>1. ASSUME NEW s \in WaitList, NEW enders, Wakes(s, enders)
      PROVE  Live(t)'
  BY <1>1, <1>a DEF Wakes
<1>2. ASSUME NEW u \in Task, WaitStep(u), ~Delete(u)
      PROVE  Live(t)'
  <2>1. ASSUME NEW p \in Prio, Create(u, p)
        PROVE  Live(t)'
    BY <2>1, <1>a DEF Create
  <2>2. CASE Pause(u)
    BY <2>2, <1>a DEF Pause
  <2>3. CASE Start(u)
    BY <2>3, <1>a DEF Start
  <2>4. CASE Expire(u) \/ Dispatch(u) \/ SwitchOut(u)
    BY <2>4, <1>a DEF Expire, Dispatch, SwitchOut
  <2> QED
    BY <1>2, <2>1, <2>2, <2>3, <2>4, <1>a DEF WaitStep, ControlStep, Call, Reprioritize
<1>3. ASSUME NEW u \in Task, Delete(u), u # t
      PROVE  Live(t)'
  BY <1>3, <1>a DEF Delete
<1>4. ASSUME NEW u \in Task, Finish(u) \/ WaitBegin(u) \/ TimedOut(u) \/ Resume(u)
      PROVE  Live(t)'
  BY <1>4, <1>a DEF Finish, WaitBegin, TimedOut, Resume
<1>5. ASSUME NEW s \in Semaphore, SemStep(s)
      PROVE  Live(t)'
  BY <1>1, <1>5, <1>a, ListsApart DEF SemStep, SemInit, Give, IsrTake, WakeOne
<1>6. CASE SectionStep
  BY <1>1, <1>6, <1>a, ListsApart DEF SectionStep, WalkStep, Release, WakeOne, Reprioritize
<1>7. ASSUME NEW u \in Task, PlainStep(u)
      PROVE  Live(t)'
  BY <1>2, <1>4, <1>7, <1>a
  DEF PlainStep, TakeStep, TakeOk, TakeFail, TakeBlock, TakeTimedOut, Call, Dispatch, SwitchOut
<1>8. ASSUME NEW u \in Task, MutexCallStep(u)
      PROVE  Live(t)'
  BY <1>4, <1>8, <1>a
  DEF MutexCallStep, LockOk, LockFail, LockBoost, LockJoin, LockTimedOut, Unlock, Reprioritize
<1>9. ASSUME NEW u \in Task, TaskStep(u)
      PROVE  Live(t)'
  <2>1. CASE DeleteTask(u)
    BY <2>1, <1>3 DEF DeleteTask
  <2>2. CASE ExpireWait(u) \/ StartTask(u) \/ PauseTask(u)
    BY <2>2, <1>a DEF ExpireWait, StartTask, PauseTask, Expire, Start, Pause
  <2>3. ASSUME NEW p \in Prio, CreateTask(u, p) \/ PrioritySet(u, p)
        PROVE  Live(t)'
    BY <2>3, <1>a DEF CreateTask, Create, PrioritySet
  <2> QED
    BY <1>9, <2>1, <2>2, <2>3 DEF TaskStep
<1> QED
  BY <1>5, <1>6, <1>7, <1>8, <1>9 DEF Next, vars

\* Owners and the mutexes they hold keep naming each other.
LEMMA OwnersStep ==
    ASSUME IInv, [Next]_vars
    PROVE  OwnersFollow'
<1>a. OwnersFollow /\ MutexTypeOK
  BY DEF IInv
<1> USE DEF mutexVars, ownerVars
<1>1. ASSUME NEW t \in Task, NEW m \in Mutex, LockOk(t, m)
      PROVE  OwnersFollow'
  <2>1. Live(t)' /\ \A u \in Task : Live(u) => Live(u)'
    BY <1>1 DEF LockOk, Locking, Trying, Executing, Live, Finish
  <2> QED
    BY <1>1, <1>a, <2>1, ListsApart DEF LockOk, LinkOwned, OwnersFollow, MutexTypeOK
<1>2. ASSUME NEW t \in Task, NEW m \in Mutex, Unlock(t, m)
      PROVE  OwnersFollow'
  BY <1>2, <1>a, ListsApart DEF Unlock, UnlinkOwned, OwnersFollow, MutexTypeOK, waitingVars,
                                tcbVars, Live
<1>3. ASSUME NEW t \in Task, DeleteTask(t)
      PROVE  OwnersFollow'
  <2>1. \A u \in Task : u # t /\ Live(u) => Live(u)'
    BY <1>3 DEF DeleteTask, Delete, Live
  <2> QED
    BY <1>3, <1>a, <2>1, ListsApart DEF DeleteTask, OwnersFollow, MutexTypeOK
<1>4. ASSUME UNCHANGED ownerVars, \A t \in Task : ~DeleteTask(t)
      PROVE  OwnersFollow'
  <2>1. \A t \in Task : Live(t) => Live(t)'
    BY <1>4, LiveStays
  <2> QED
    BY <1>4, <1>a, <2>1 DEF OwnersFollow
<1>5. \/ UNCHANGED ownerVars
      \/ \E t \in Task : DeleteTask(t) \/ \E m \in Mutex : LockOk(t, m) \/ Unlock(t, m)
  <2>1. SectionStep => UNCHANGED ownerVars
    BY DEF SectionStep, WalkStep, Release
  <2>2. ASSUME NEW t \in Task, MutexCallStep(t)
        PROVE  \/ UNCHANGED ownerVars
               \/ \E m \in Mutex : LockOk(t, m) \/ Unlock(t, m)
    BY <2>2 DEF MutexCallStep, LockFail, LockBoost, LockJoin, LockTimedOut
  <2>3. ASSUME NEW t \in Task, TaskStep(t)
        PROVE  UNCHANGED ownerVars \/ DeleteTask(t)
    BY <2>3 DEF TaskStep, ExpireWait, StartTask, PauseTask, CreateTask, PrioritySet
  <2> HIDE DEF ownerVars
  <2>4. UNCHANGED mutexVars => UNCHANGED ownerVars
    BY DEF mutexVars
  <2> QED
    BY <2>1, <2>2, <2>3, <2>4 DEF Next, vars
<1> QED
  BY <1>1, <1>2, <1>3, <1>4, <1>5

-----------------------------------------------------------------------------
(* Wait edges.                                                             *)

\* The tasks that wait are those that are queued.
LEMMA QueuedBlocked ==
    ASSUME WInv, NEW t \in Task
    PROVE  t \in Queued <=> \E s \in WaitList : BlockedAt(t, s)
BY Basics DEF Queued, BlockedAt

\* The edges stay true where nothing of them changes and no task starts or
\* ends a wait for a mutex.
LEMMA EdgesStay ==
    ASSUME EdgesFollow, UNCHANGED edgeVars,
           \A t \in Task : /\ timeout'[t] # timeout[t] => ~\E m \in Mutex : BlockedAt(t, m)
                           /\ \A m \in Mutex : BlockedAt(t, m)' <=> BlockedAt(t, m),
           MutexTypeOK
    PROVE  EdgesFollow'
<1>1. \A t \in Task : blockedOn[t] \in Mutex \cup {NoList}
  BY DEF MutexTypeOK
<1> QED
  BY <1>1 DEF EdgesFollow, edgeVars

\* They stay true where the tasks of gone end their waits.
LEMMA EdgesCut ==
    ASSUME EdgesFollow, MutexTypeOK, NEW gone \in SUBSET Task, Depart(gone),
           UNCHANGED timeout \/ \E t \in gone : timeout' = [timeout EXCEPT ![t] = "nothing"],
           timeout \in [Task -> Timeout],
           \A t \in gone : \A m \in Mutex : ~BlockedAt(t, m)',
           \A t \in Task \ gone : \A m \in Mutex : BlockedAt(t, m)' <=> BlockedAt(t, m)
    PROVE  EdgesFollow'
<1>1. \A t \in Task : blockedOn'[t] = IF t \in gone THEN NoList ELSE blockedOn[t]
  BY DepartFacts
<1>2. \A t \in Task : blockedForever'[t] = (t \notin gone /\ blockedForever[t])
  BY DepartFacts
<1>3. \A t \in Task \ gone : timeout'[t] = timeout[t]
  OBVIOUS
<1>4. \A m \in Mutex, t \in Task : blockedOn'[t] = m <=> BlockedAt(t, m)'
  BY <1>1, ListsApart DEF EdgesFollow
<1>5. \A t \in Task : blockedForever'[t] <=> blockedOn'[t] # NoList /\ timeout'[t] = "forever"
  BY <1>1, <1>2, <1>3 DEF EdgesFollow
<1> QED
  BY <1>4, <1>5 DEF EdgesFollow

\* A task that waits for a mutex keeps its edge to it.
LEMMA EdgesStep ==
    ASSUME IInv, [Next]_vars
    PROVE  EdgesFollow'
<1>a. /\ WInv /\ EdgesFollow /\ MutexTypeOK
      /\ state \in [Task -> {"INACTIVE", "SUSPENDED", "READY", "RUNNING", "BLOCKED"}]
      /\ pc \in [Task -> {"out", "try", "wait", "expired", "ask", "asleep"}]
      /\ target \in [Task -> WaitList] /\ timeout \in [Task -> Timeout]
  BY Basics DEF IInv
<1> USE DEF tcbVars, callVars, waitingVars, mutexVars, BlockedAt
<1>1. ASSUME NEW s \in Semaphore, SemStep(s), UNCHANGED mutexVars
      PROVE  EdgesFollow'
  <2>1. CASE \E n \in 0 .. MaxCount : SemInit(s, n)
    BY <2>1, <1>1, <1>a, EdgesStay DEF SemInit
  <2>2. CASE Give(s)
    <3>1. Wakes(s, {}) /\ UNCHANGED callVars
      BY <2>2 DEF Give, WakeOne
    <3>2. \A u \in Waking(s) : target[u] = s
      BY <3>1, <1>a, WakesFacts, ListsApart
    <3>3. \A u \in Task, m \in Mutex : BlockedAt(u, m)' <=> BlockedAt(u, m)
      BY <3>1, <3>2, <1>a, ListsApart DEF Wakes
    <3> QED
      BY <3>1, <3>3, <1>1, <1>a, EdgesStay
  <2>3. CASE IsrTake(s)
    BY <2>3, <1>1, <1>a, EdgesStay DEF IsrTake
  <2> QED
    BY <1>1, <2>1, <2>2, <2>3 DEF SemStep
<1>2. CASE WalkStep
  BY <1>2, <1>a, EdgesStay DEF WalkStep, Reprioritize
<1>3. ASSUME NEW m \in Mutex, Release(m)
      PROVE  EdgesFollow'
  <2>1. Wakes(m, {}) /\ UNCHANGED callVars /\ Depart(Waking(m))
    BY <1>3 DEF Release, WakeOne
  <2>2. /\ Waking(m) \in SUBSET Task
        /\ \A u \in Waking(m) : state'[u] # "BLOCKED"
        /\ \A u \in Task \ Waking(m) : state'[u] = state[u]
    <3>1. m \in WaitList
      BY ListsApart
    <3>2. Waking(m) \in SUBSET Task
      BY <2>1, <3>1, <1>a, WakesFacts
    <3>3. \A u \in Task : state'[u] = IF u \in Waking(m) THEN "READY" ELSE state[u]
      BY <2>1 DEF Wakes
    <3> QED
      BY <3>2, <3>3
  <2>3. \A u \in Task \ Waking(m) : \A r \in Mutex : BlockedAt(u, r)' <=> BlockedAt(u, r)
    BY <2>1, <2>2
  <2>4. \A u \in Waking(m) : \A r \in Mutex : ~BlockedAt(u, r)'
    BY <2>2
  <2> QED
    BY <2>1, <2>2, <2>3, <2>4, <1>a, EdgesCut
<1>4. ASSUME NEW t \in Task, PlainStep(t), UNCHANGED mutexVars
      PROVE  EdgesFollow'
  <2>1. ASSUME NEW s \in WaitList, NEW limit \in Timeout, Call(t, s, limit)
        PROVE  EdgesFollow'
    BY <2>1, <1>4, <1>a, EdgesStay DEF Call, Executing
  <2>2. CASE Resume(t)
    BY <2>2, <1>4, <1>a, EdgesStay DEF Resume, Executing
  <2>3. CASE Dispatch(t) \/ SwitchOut(t)
    BY <2>3, <1>4, <1>a, EdgesStay DEF Dispatch, SwitchOut
  <2>4. ASSUME (Trying(t) /\ Finish(t)) \/ TimedOut(t)
        PROVE  EdgesFollow'
    BY <2>4, <1>4, <1>a, EdgesStay DEF Trying, TimedOut, Executing, Finish, Return
  <2>5. ASSUME NEW s \in Semaphore, target[t] = s, Trying(t), WaitBegin(t)
        PROVE  EdgesFollow'
    <3>1. \A m \in Mutex : target[t] # m
      BY <2>5, ListsApart
    <3>2. \A u \in Task, m \in Mutex : BlockedAt(u, m)' <=> BlockedAt(u, m)
      BY <2>5, <3>1, <1>a DEF WaitBegin, Trying, Executing
    <3>3. UNCHANGED timeout
      BY <2>5 DEF WaitBegin
    <3> QED
      BY <3>2, <3>3, <1>4, <1>a, EdgesStay
  <2> QED
    BY <1>4, <2>1, <2>2, <2>3, <2>4, <2>5
    DEF PlainStep, TakeStep, TakeOk, TakeFail, TakeBlock, TakeTimedOut, Taking
<1>5. ASSUME NEW t \in Task, NEW m \in Mutex, LockFail(t, m) \/ LockTimedOut(t, m)
      PROVE  EdgesFollow'
  <2>1. Depart({t}) /\ Finish(t) /\ {t} \in SUBSET Task
    BY <1>5 DEF LockFail, LockTimedOut, TimedOut
  <2> QED
    BY <2>1, <1>a, EdgesCut DEF Finish, Return
<1>6. ASSUME NEW t \in Task, NEW m \in Mutex, LockOk(t, m)
      PROVE  EdgesFollow'
  <2>1. /\ Finish(t)
        /\ blockedOn' = [blockedOn EXCEPT ![t] = NoList]
        /\ blockedForever' = [blockedForever EXCEPT ![t] = FALSE]
    BY <1>6 DEF LockOk, Publish
  <2>2. /\ \A u \in Task : blockedOn'[u] = IF u = t THEN NoList ELSE blockedOn[u]
        /\ \A u \in Task : blockedForever'[u] = (u # t /\ blockedForever[u])
    BY <2>1, <1>a DEF MutexTypeOK
  <2>3. \A u \in Task : u # t => timeout'[u] = timeout[u] /\ pc'[u] = pc[u] /\ state'[u] = state[u]
                                 /\ target'[u] = target[u]
    BY <2>1 DEF Finish, Return
  <2>4. pc'[t] = "out"
    BY <2>1, <1>a DEF Finish, Return
  <2>5. \A u \in Task, r \in Mutex : blockedOn'[u] = r <=> BlockedAt(u, r)'
    BY <2>2, <2>3, <2>4, <1>a, ListsApart DEF EdgesFollow
  <2>6. ASSUME NEW u \in Task
        PROVE  blockedForever'[u] <=> blockedOn'[u] # NoList /\ timeout'[u] = "forever"
    <3>1. CASE u = t
      BY <3>1, <2>2
    <3>2. CASE u # t
      <4>1. /\ blockedOn'[u] = blockedOn[u] /\ timeout'[u] = timeout[u]
            /\ blockedForever'[u] <=> blockedForever[u]
        BY <3>2, <2>2, <2>3
      <4> QED
        BY <4>1, <1>a DEF EdgesFollow
    <3> QED
      BY <3>1, <3>2
  <2> QED
    BY <2>5, <2>6 DEF EdgesFollow
<1>7. ASSUME NEW t \in Task, NEW m \in Mutex, LockBoost(t, m)
      PROVE  EdgesFollow'
  BY <1>7, <1>a, EdgesStay DEF LockBoost, Reprioritize
<1>8. ASSUME NEW t \in Task, NEW m \in Mutex, LockJoin(t, m)
      PROVE  EdgesFollow'
  <2>1. /\ WaitBegin(t) /\ target[t] = m
        /\ blockedOn' = [blockedOn EXCEPT ![t] = m]
        /\ blockedForever' = [blockedForever EXCEPT ![t] = timeout[t] = "forever"]
    BY <1>8 DEF LockJoin, Publish, MustWait, Locking
  <2>2. /\ \A u \in Task : blockedOn'[u] = IF u = t THEN m ELSE blockedOn[u]
        /\ \A u \in Task : blockedForever'[u] = IF u = t THEN timeout[t] = "forever"
                                                 ELSE blockedForever[u]
    BY <2>1, <1>a DEF MutexTypeOK
  <2>3. UNCHANGED <<timeout, target>> /\ pc'[t] = "wait" /\ state'[t] = "BLOCKED"
    BY <2>1, <1>a DEF WaitBegin
  <2>4. \A u \in Task : u # t => pc'[u] = pc[u] /\ state'[u] = state[u]
    BY <2>1 DEF WaitBegin
  <2>5. \A u \in Task, r \in Mutex : blockedOn'[u] = r <=> BlockedAt(u, r)'
    BY <2>1, <2>2, <2>3, <2>4, <1>a DEF EdgesFollow
  <2>6. ASSUME NEW u \in Task
        PROVE  blockedForever'[u] <=> blockedOn'[u] # NoList /\ timeout'[u] = "forever"
    <3>1. CASE u = t
      BY <3>1, <2>2, <2>3, ListsApart
    <3>2. CASE u # t
      BY <3>2, <2>2, <2>3, <1>a DEF EdgesFollow
    <3> QED
      BY <3>1, <3>2
  <2> QED
    BY <2>5, <2>6 DEF EdgesFollow
<1>9. ASSUME NEW t \in Task, NEW m \in Mutex, Unlock(t, m)
      PROVE  EdgesFollow'
  BY <1>9, <1>a, EdgesStay DEF Unlock
<1>10. ASSUME NEW t \in Task, ExpireWait(t) \/ StartTask(t)
       PROVE  EdgesFollow'
  <2>1. /\ Depart({t} \cap Queued) /\ UNCHANGED callVars /\ {t} \cap Queued \in SUBSET Task
        /\ state'[t] # "BLOCKED" /\ \A u \in Task : u # t => state'[u] = state[u]
    BY <1>10, <1>a DEF ExpireWait, StartTask, Expire, Start
  <2>2. t \notin Queued => \A m \in Mutex : ~BlockedAt(t, m)
    BY <1>a, QueuedBlocked, ListsApart
  <2>3. \A u \in Task \ ({t} \cap Queued) : \A m \in Mutex : BlockedAt(u, m)' <=> BlockedAt(u, m)
    BY <2>1, <2>2
  <2>4. \A u \in {t} \cap Queued : \A m \in Mutex : ~BlockedAt(u, m)'
    BY <2>1
  <2> QED
    BY <2>1, <2>3, <2>4, <1>a, EdgesCut
<1>11. ASSUME NEW t \in Task, PauseTask(t) \/ DeleteTask(t)
       PROVE  EdgesFollow'
  <2> DEFINE leaving == {t} \cup Compensating(t)
             gone == leaving \cap Queued
  <2>1. /\ Depart(gone) /\ UNCHANGED target
        /\ \A u \in leaving : state'[u] # "BLOCKED"
        /\ \A u \in Task \ leaving : /\ state'[u] = state[u] /\ pc'[u] = pc[u]
                                     /\ timeout'[u] = timeout[u]
    BY <1>11, <1>a, CompensatingMember
    DEF PauseTask, DeleteTask, Pause, Delete, Return
  <2>2. gone \in SUBSET Task
    BY <1>a, CompensatingMember
  <2>3. \A u \in leaving : u \notin Queued => \A m \in Mutex : ~BlockedAt(u, m)
    BY <1>a, QueuedBlocked, CompensatingMember, ListsApart
  <2>4. \A u \in Task \ gone : \A m \in Mutex : BlockedAt(u, m)' <=> BlockedAt(u, m)
    BY <2>1, <2>3
  <2>5. \A u \in gone : \A m \in Mutex : ~BlockedAt(u, m)'
    BY <2>1
  <2>6. /\ \A u \in Task : blockedOn'[u] = IF u \in gone THEN NoList ELSE blockedOn[u]
        /\ \A u \in Task : blockedForever'[u] = (u \notin gone /\ blockedForever[u])
    BY <2>1, <2>2, <1>a, DepartFacts
  <2>7. \A u \in leaving \ gone : blockedOn[u] = NoList
    BY <2>3, <1>a, CompensatingMember DEF EdgesFollow, MutexTypeOK
  <2>8. \A u \in Task, m \in Mutex : blockedOn'[u] = m <=> BlockedAt(u, m)'
    BY <2>4, <2>5, <2>6, <1>a, ListsApart DEF EdgesFollow
  <2>9. ASSUME NEW u \in Task
        PROVE  blockedForever'[u] <=> blockedOn'[u] # NoList /\ timeout'[u] = "forever"
    <3>1. CASE u \in gone
      BY <3>1, <2>6
    <3>2. CASE u \in leaving \ gone
      <4>1. blockedOn[u] = NoList /\ ~blockedForever[u]
        BY <3>2, <2>7, <1>a, CompensatingMember DEF EdgesFollow
      <4>2. blockedOn'[u] = NoList /\ (blockedForever'[u] <=> FALSE)
        <5> HIDE DEF gone, leaving
        <5> QED
          BY <4>1, <3>2, <2>6, <1>a, CompensatingMember
      <4> QED
        BY <4>2
    <3>3. CASE u \notin leaving
      <4>1. u \notin gone /\ timeout'[u] = timeout[u]
        BY <3>3, <2>1
      <4> HIDE DEF gone
      <4>2. blockedOn'[u] = blockedOn[u] /\ (blockedForever'[u] <=> blockedForever[u])
        BY <4>1, <2>6
      <4>3. blockedForever[u] <=> blockedOn[u] # NoList /\ timeout[u] = "forever"
        BY <1>a DEF EdgesFollow
      <4> QED
        BY <4>1, <4>2, <4>3
    <3> QED
      BY <3>1, <3>2, <3>3
  <2> QED
    BY <2>8, <2>9 DEF EdgesFollow
<1>12. ASSUME NEW t \in Task, NEW p \in Prio, CreateTask(t, p) \/ PrioritySet(t, p)
       PROVE  EdgesFollow'
  <2>1. /\ UNCHANGED <<edgeVars, timeout, pc, target>>
        /\ \A u \in Task : state'[u] = "BLOCKED" <=> state[u] = "BLOCKED"
    BY <1>12, <1>a DEF CreateTask, Create, PrioritySet
  <2> QED
    BY <2>1, <1>a, EdgesStay
<1>13. CASE UNCHANGED vars
  BY <1>13, <1>a, EdgesStay DEF vars
<1> QED
  BY <1>1, <1>2, <1>3, <1>4, <1>5, <1>6, <1>7, <1>8, <1>9, <1>10, <1>11, <1>12, <1>13
  DEF Next, SectionStep, MutexCallStep, TaskStep

-----------------------------------------------------------------------------
(* No task waits for itself.                                               *)

\* No task comes to wait for what it owns.
LEMMA SelfStep ==
    ASSUME IInv, [Next]_vars
    PROVE  SelfFree'
<1>a. /\ WInv /\ SelfFree /\ MutexTypeOK
      /\ state \in [Task -> {"INACTIVE", "SUSPENDED", "READY", "RUNNING", "BLOCKED"}]
      /\ pc \in [Task -> {"out", "try", "wait", "expired", "ask", "asleep"}]
      /\ target \in [Task -> WaitList]
      /\ wokenFrom \in [Task -> WaitList \cup {NoList}]
  BY Basics DEF IInv
<1>b. \A t \in Task : wokenFrom[t] # NoList =>
         state[t] # "BLOCKED" /\ pc[t] \in {"wait", "try"} /\ target[t] = wokenFrom[t]
  BY <1>a, WokenFacts
<1> USE DEF tcbVars, callVars, waitingVars, mutexVars, ownerVars
<1>1. ASSUME UNCHANGED <<owner, pc, target, wokenFrom>>
      PROVE  SelfFree'
  BY <1>1, <1>a DEF SelfFree
<1>2. ASSUME NEW s \in WaitList, Wakes(s, {}), UNCHANGED <<owner, callVars>>
      PROVE  SelfFree'
  <2>1. \A u \in Waking(s) : pc[u] = "wait"
    BY <1>2, <1>a, WakesFacts
  <2>2. \A u \in Task : u \notin Waking(s) => wokenFrom'[u] = wokenFrom[u]
    BY <1>2, <1>a DEF Wakes
  <2> QED
    BY <1>2, <2>1, <2>2, <1>a DEF SelfFree
<1>3. ASSUME NEW t \in Task, Finish(t), UNCHANGED owner
      PROVE  SelfFree'
  BY <1>3, <1>a DEF Finish, WaitEnd, Return, SelfFree
<1>4. ASSUME NEW t \in Task, WaitBegin(t), UNCHANGED owner,
             target[t] \in Mutex => owner[target[t]] # t
      PROVE  SelfFree'
  BY <1>4, <1>a DEF WaitBegin, SelfFree
<1>5. ASSUME NEW s \in Semaphore, SemStep(s), UNCHANGED mutexVars
      PROVE  SelfFree'
  BY <1>1, <1>2, <1>5, ListsApart DEF SemStep, SemInit, Give, IsrTake, WakeOne
<1>6. CASE WalkStep
  BY <1>1, <1>6 DEF WalkStep, Reprioritize
<1>7. ASSUME NEW m \in Mutex, Release(m)
      PROVE  SelfFree'
  BY <1>2, <1>7, ListsApart DEF Release, WakeOne
<1>8. ASSUME NEW t \in Task, PlainStep(t), UNCHANGED mutexVars
      PROVE  SelfFree'
  <2>1. ASSUME NEW s \in WaitList, NEW limit \in Timeout, Call(t, s, limit)
        PROVE  SelfFree'
    BY <2>1, <1>8, <1>a, <1>b DEF Call, SelfFree
  <2>2. CASE Resume(t)
    <3>1. \A u \in Task : pc'[u] = pc[u] \/ (u = t /\ pc[t] = "wait")
      BY <2>2, <1>a DEF Resume
    <3> QED
      BY <2>2, <3>1, <1>8, <1>a DEF Resume, SelfFree
  <2>3. CASE Dispatch(t) \/ SwitchOut(t)
    BY <2>3, <1>1, <1>8 DEF Dispatch, SwitchOut
  <2>4. CASE TakeStep(t)
    BY <2>4, <1>3, <1>4, <1>8, ListsApart
    DEF TakeStep, TakeOk, TakeFail, TakeBlock, TakeTimedOut, TimedOut, Taking
  <2> QED
    BY <1>8, <2>1, <2>2, <2>3, <2>4 DEF PlainStep
<1>9. ASSUME NEW t \in Task, NEW m \in Mutex, LockFail(t, m) \/ LockTimedOut(t, m)
      PROVE  SelfFree'
  BY <1>3, <1>9 DEF LockFail, LockTimedOut, TimedOut
<1>10. ASSUME NEW t \in Task, NEW m \in Mutex, LockOk(t, m)
       PROVE  SelfFree'
  <2>1. Finish(t) /\ owner' = [owner EXCEPT ![m] = t]
    BY <1>10 DEF LockOk
  <2> QED
    BY <2>1, <1>a DEF Finish, WaitEnd, Return, SelfFree, MutexTypeOK
<1>11. ASSUME NEW t \in Task, NEW m \in Mutex, LockBoost(t, m)
       PROVE  SelfFree'
  BY <1>1, <1>11 DEF LockBoost, Reprioritize
<1>12. ASSUME NEW t \in Task, NEW m \in Mutex, LockJoin(t, m)
       PROVE  SelfFree'
  <2>1. target[t] = m /\ owner[m] # t
    BY <1>12, ListsApart DEF LockJoin, MustWait, Locking, IInv, SectionExact
  <2> QED
    BY <1>4, <1>12, <2>1 DEF LockJoin
<1>13. ASSUME NEW t \in Task, NEW m \in Mutex, Unlock(t, m)
       PROVE  SelfFree'
  BY <1>13, <1>a, ListsApart DEF Unlock, SelfFree, MutexTypeOK
<1>14. ASSUME NEW t \in Task, ExpireWait(t) \/ StartTask(t)
       PROVE  SelfFree'
  BY <1>1, <1>14 DEF ExpireWait, StartTask, Expire, Start
<1>15. ASSUME NEW t \in Task, PauseTask(t) \/ DeleteTask(t)
       PROVE  SelfFree'
  <2>1. \A u \in Compensating(t) : pc[u] = "wait" /\ u # t
    BY <1>a, CompensatingMember, Basics
  <2>2. \A u \in Task : \/ u \in Compensating(t)
                       \/ wokenFrom'[u] = wokenFrom[u] \/ wokenFrom'[u] = NoList
    BY <1>15, <1>a DEF PauseTask, DeleteTask, Pause, Delete
  <2>3. UNCHANGED target /\ \A u \in Task : pc'[u] = pc[u] \/ pc'[u] = "out"
    BY <1>15, <1>a DEF PauseTask, DeleteTask, Pause, Delete, Return
  <2>4. \A m \in Mutex, u \in Task : owner'[m] = u => owner[m] = u
    BY <1>15, <1>a, ListsApart DEF PauseTask, DeleteTask, MutexTypeOK
  <2>5. \A u \in Task : u # t => pc'[u] = pc[u]
    <3>1. CASE Pause(t)
      BY <3>1 DEF Pause
    <3>2. CASE Delete(t)
      BY <3>2, <1>a DEF Delete, Return
    <3> QED
      BY <1>15, <3>1, <3>2 DEF PauseTask, DeleteTask
  <2> QED
    BY <2>1, <2>2, <2>3, <2>4, <2>5, <1>a DEF SelfFree
<1>16. ASSUME NEW t \in Task, NEW p \in Prio, CreateTask(t, p) \/ PrioritySet(t, p)
       PROVE  SelfFree'
  BY <1>1, <1>16 DEF CreateTask, Create, PrioritySet
<1>17. CASE UNCHANGED vars
  BY <1>1, <1>17 DEF vars
<1> QED
  BY <1>5, <1>6, <1>7, <1>8, <1>9, <1>10, <1>11, <1>12, <1>13, <1>14, <1>15, <1>16, <1>17
  DEF Next, SectionStep, MutexCallStep, TaskStep

-----------------------------------------------------------------------------
(* Critical sections.                                                      *)

\* Who t waits behind is live, and is not t.
LEMMA ChainLive ==
    ASSUME IInv, NEW t \in Task, NextInChain(t) # Nobody
    PROVE  /\ NextInChain(t) \in Task /\ Live(NextInChain(t))
           /\ blockedOn[t] \in Mutex /\ owner[blockedOn[t]] = NextInChain(t)
           /\ NextInChain(t) # t
<1> DEFINE m == blockedOn[t]
           o == NextInChain(t)
<1>1. m \in Mutex /\ o = FindById(owner[m])
  BY DEF NextInChain, IInv, MutexTypeOK
<1>2. o \in Task /\ owner[m] = o
  BY <1>1 DEF FindById
<1>3. m \in ownedMutexes[o] /\ Live(o)
  BY <1>1, <1>2 DEF IInv, OwnersFollow
<1>4. BlockedAt(t, m)
  BY <1>1 DEF IInv, EdgesFollow
<1>5. o # t
  BY <1>1, <1>2, <1>4 DEF IInv, SelfFree, BlockedAt
<1> QED
  BY <1>1, <1>2, <1>3, <1>5

\* What the section under way has done so far stays exact.
LEMMA SectionKept ==
    ASSUME IInv, [Next]_vars
    PROVE  SectionExact'
<1>a. MutexTypeOK /\ SectionExact /\ WInv
  BY DEF IInv
<1> USE DEF mutexVars, ownerVars, sectionVars, waitingVars, tcbVars, callVars
<1> DEFINE Starts == walk' # Nobody => Live(walk)'
<1>1. ASSUME joining' = Nobody, Starts
      PROVE  SectionExact'
  BY <1>1 DEF SectionExact
<1>2. CASE WalkStep
  <2>1. walk \in Task /\ (walk' = Nobody \/ walk' = NextInChain(walk))
    BY <1>2, <1>a DEF WalkStep, RecomputeFrom, MutexTypeOK
  <2>2. UNCHANGED <<state, onCore, callVars, locked, owner, joining, releasing>>
    BY <1>2 DEF WalkStep, Reprioritize
  <2>3. Starts
    BY <2>1, <2>2, ChainLive DEF Live
  <2>4. joining # Nobody => Trying(joining)' /\ ~GivesUp(joining)'
    BY <2>2, <1>a DEF SectionExact, Trying, Executing, GivesUp
  <2> QED
    BY <2>2, <2>3, <2>4, <1>a DEF SectionExact
<1>4. ASSUME NEW m \in Mutex, Release(m)
      PROVE  SectionExact'
  <2>1. /\ Waking(m) \in SUBSET Task /\ Depart(Waking(m)) /\ releasing = m
        /\ UNCHANGED <<owner, joining>>
    BY <1>4, WakingMember, Basics, ListsApart, <1>a DEF Release
  <2>2. joining = Nobody
    BY <2>1, <1>a, ListsApart DEF SectionExact
  <2>3. Starts
    <3>1. ASSUME walk' # Nobody
          PROVE  Live(walk)'
      <4>1. PICK t \in Waking(m) : walk' = NextInChain(t)
        BY <3>1, <2>1, <1>a, DepartFacts
      <4>2. NextInChain(t) \in Task /\ Live(NextInChain(t))
        BY <3>1, <4>1, <2>1, ChainLive
      <4>3. PICK o \in Task : o = walk' /\ Live(o)
        BY <4>1, <4>2
      <4>4. state'[o] = state[o] \/ state'[o] = "READY"
        BY <1>4 DEF Release, WakeOne, Wakes
      <4> QED
        BY <4>3, <4>4 DEF Live
    <3> QED
      BY <3>1
  <2> QED
    BY <2>1, <2>2, <2>3, <1>1
<1>5. ASSUME NEW t \in Task, NEW m \in Mutex, LockOk(t, m)
      PROVE  SectionExact'
  <2>1. joining' = Nobody /\ (walk' = Nobody \/ walk' = t)
    BY <1>5 DEF LockOk, Locking, Quiet, LinkOwned, RecomputeFrom
  <2>2. Live(t)'
    BY <1>5 DEF LockOk, Locking, Trying, Executing, Finish, Live
  <2> QED
    BY <2>1, <2>2, <1>1 DEF Live
<1>6. ASSUME NEW t \in Task, NEW m \in Mutex, LockBoost(t, m)
      PROVE  SectionExact'
  <2>1. /\ owner[m] \in Task /\ walk' = NextInChain(owner[m]) /\ joining' = t
        /\ Trying(t) /\ ~GivesUp(t) /\ target[t] = m /\ locked[m] /\ owner[m] # t
        /\ releasing' = NoList
    BY <1>6 DEF LockBoost, RecomputeFrom, Outranks, MustWait, Locking, Quiet
  <2>2. UNCHANGED <<state, onCore, callVars, locked, owner>>
    BY <1>6 DEF LockBoost, Reprioritize
  <2>3. Starts
    BY <2>1, <2>2, ChainLive DEF Live
  <2>4. Trying(t)' /\ ~GivesUp(t)'
    BY <2>1, <2>2 DEF Trying, Executing, GivesUp
  <2> QED
    BY <2>1, <2>2, <2>3, <2>4 DEF SectionExact
<1>7. ASSUME NEW t \in Task, NEW m \in Mutex, LockJoin(t, m)
      PROVE  SectionExact'
  BY <1>7, <1>1 DEF LockJoin, MustWait, Locking, Quiet
<1>8. ASSUME NEW t \in Task, NEW m \in Mutex, Unlock(t, m)
      PROVE  SectionExact'
  <2>1. /\ joining' = Nobody /\ UNCHANGED state
        /\ walk' = Nobody \/ walk' = FindById(owner[m])
    BY <1>8 DEF Unlock, Quiet, UnlinkOwned, RecomputeFrom
  <2>2. FindById(owner[m]) # Nobody => Live(FindById(owner[m]))
    <3>1. ASSUME owner[m] \in Task
          PROVE  Live(owner[m])
      BY <3>1 DEF IInv, OwnersFollow
    <3> QED
      BY <3>1 DEF FindById
  <2> QED
    BY <2>1, <2>2, <1>1 DEF Live
<1>9. ASSUME NEW t \in Task, DeleteTask(t)
      PROVE  SectionExact'
  <2> DEFINE gone == ({t} \cup Compensating(t)) \cap Queued
  <2>1. gone \in SUBSET Task /\ Depart(gone) /\ joining' = Nobody
    BY <1>9, <1>a, CompensatingMember DEF DeleteTask, Quiet
  <2>2. \A u \in gone : NextInChain(u) # Nobody => NextInChain(u) # t
    <3>1. ASSUME NEW u \in Compensating(t), NextInChain(u) # Nobody
          PROVE  NextInChain(u) # t
      <4>1. /\ u \in Task /\ wokenFrom[t] \in WaitList /\ u \in Members(waiters[wokenFrom[t]])
        BY <1>a, CompensatingMember
      <4>2. BlockedAt(u, wokenFrom[t])
        BY <4>1, <1>a, Basics DEF BlockedAt
      <4>3. blockedOn[u] \in Mutex /\ owner[blockedOn[u]] = NextInChain(u)
        BY <3>1, <4>1, ChainLive
      <4>4. BlockedAt(u, blockedOn[u])
        BY <4>1, <4>3 DEF IInv, EdgesFollow
      <4>5. blockedOn[u] = wokenFrom[t] /\ target[t] = wokenFrom[t]
        BY <4>1, <4>2, <4>4, <1>a, WokenFacts DEF BlockedAt
      <4> QED
        BY <4>1, <4>3, <4>5, ListsApart DEF IInv, SelfFree
    <3> QED
      BY <3>1, ChainLive
  <2>3. \A u \in Task : u # t /\ Live(u) => Live(u)'
    BY <1>9 DEF DeleteTask, Delete, Live
  <2>4. Starts
    <3>1. ASSUME walk' # Nobody
          PROVE  Live(walk)'
      <4>1. PICK u \in gone : walk' = NextInChain(u)
        BY <3>1, <2>1, <1>a, DepartFacts
      <4>2. NextInChain(u) \in Task /\ Live(NextInChain(u)) /\ NextInChain(u) # t
        BY <3>1, <4>1, <2>1, <2>2, ChainLive
      <4>3. PICK o \in Task : o = walk' /\ Live(o) /\ o # t
        BY <4>1, <4>2
      <4> QED
        BY <4>3, <2>3 DEF Live
    <3> QED
      BY <3>1
  <2> QED
    BY <2>1, <2>4, <1>1
<1>10. ASSUME NEW t \in Task, NEW p \in Prio, CreateTask(t, p) \/ PrioritySet(t, p)
       PROVE  SectionExact'
  <2>1. CASE CreateTask(t, p)
    BY <2>1, <1>1 DEF CreateTask, Quiet
  <2>2. CASE PrioritySet(t, p)
    BY <2>2, <1>1 DEF PrioritySet, Quiet, RecomputeFrom, Live
  <2> QED
    BY <1>10, <2>1, <2>2
<1>11. ASSUME NEW t \in Task, NEW m \in Mutex, LockFail(t, m) \/ LockTimedOut(t, m)
       PROVE  SectionExact'
  <2>1. /\ {t} \in SUBSET Task /\ Depart({t}) /\ joining = Nobody /\ joining' = Nobody
        /\ UNCHANGED state
    BY <1>11 DEF LockFail, LockTimedOut, Locking, Quiet, TimedOut, Finish
  <2>2. Starts
    <3>1. walk' # Nobody => walk' = NextInChain(t)
      BY <2>1, <1>a, DepartFacts
    <3> QED
      BY <2>1, <3>1, ChainLive DEF Live
  <2> QED
    BY <2>1, <2>2, <1>1
<1>12. ASSUME NEW t \in Task, ExpireWait(t) \/ StartTask(t) \/ PauseTask(t), ~DeleteTask(t)
       PROVE  SectionExact'
  <2>1. joining = Nobody /\ joining' = Nobody
    BY <1>12 DEF ExpireWait, StartTask, PauseTask, Quiet
  <2>2. PICK gone \in SUBSET Task : Depart(gone)
    <3>1. CASE ExpireWait(t) \/ StartTask(t)
      <4>1. {t} \cap Queued \in SUBSET Task /\ Depart({t} \cap Queued)
        BY <3>1 DEF ExpireWait, StartTask
      <4> QED
        BY <4>1
    <3>2. CASE PauseTask(t)
      <4>1. /\ ({t} \cup Compensating(t)) \cap Queued \in SUBSET Task
            /\ Depart(({t} \cup Compensating(t)) \cap Queued)
        BY <3>2, <1>a, CompensatingMember DEF PauseTask
      <4> QED
        BY <4>1
    <3> QED
      BY <1>12, <3>1, <3>2
  <2>3. \A u \in Task : Live(u) => Live(u)'
    <3>0. state \in [Task -> {"INACTIVE", "SUSPENDED", "READY", "RUNNING", "BLOCKED"}]
      BY <1>a, Basics
    <3>1. CASE ExpireWait(t)
      BY <3>0, <3>1 DEF ExpireWait, Expire, Live
    <3>2. CASE StartTask(t)
      BY <3>0, <3>2 DEF StartTask, Start, Live
    <3>3. CASE PauseTask(t)
      BY <3>0, <3>3 DEF PauseTask, Pause, Live
    <3> QED
      BY <1>12, <3>1, <3>2, <3>3
  <2>4. Starts
    <3>1. ASSUME walk' # Nobody
          PROVE  Live(walk)'
      <4>1. PICK u \in gone : walk' = NextInChain(u)
        BY <3>1, <2>2, <1>a, DepartFacts
      <4>2. PICK o \in Task : o = walk' /\ Live(o)
        BY <3>1, <4>1, <2>2, ChainLive
      <4> QED
        BY <4>2, <2>3 DEF Live
    <3> QED
      BY <3>1
  <2> QED
    BY <2>1, <2>4, <1>1
<1>13. CASE Quiet /\ UNCHANGED mutexVars
  BY <1>13, <1>1 DEF Quiet
<1>14. CASE UNCHANGED vars
  BY <1>14, <1>a DEF vars, SectionExact, Live, Trying, Executing, GivesUp
<1> QED
  BY <1>2, <1>4, <1>5, <1>6, <1>7, <1>8, <1>9, <1>10, <1>11, <1>12, <1>13, <1>14
  DEF Next, SectionStep, MutexCallStep, TaskStep

-----------------------------------------------------------------------------
(* Offers.                                                                 *)

\* An offer stays unless its mutex is taken, or the wakeup moves to nobody.
LEMMA OfferKept ==
    ASSUME Offered,
           \A m \in Mutex : ~locked'[m] /\ releasing' # m /\ waiters'[m] # << >> =>
              /\ ~locked[m] /\ releasing # m /\ waiters[m] # << >>
              /\ \A u \in Task : wokenFrom[u] = m => \E v \in Task : wokenFrom'[v] = m
    PROVE  Offered'
<1>1. ASSUME NEW m \in Mutex, ~locked'[m], waiters'[m] # << >>, releasing' # m
      PROVE  Woken(m)' # {}
  <2>1. PICK u \in Task : wokenFrom[u] = m
    BY <1>1 DEF Offered, Woken
  <2>2. PICK v \in Task : wokenFrom'[v] = m
    BY <1>1, <2>1
  <2> QED
    BY <2>2 DEF Woken
<1> QED
  BY <1>1 DEF Offered

\* A step of the waiting machinery that wakes nobody and queues nobody.
LEMMA OfferIdle ==
    ASSUME WInv, WInv', Offered, UNCHANGED <<locked, wokenFrom, releasing>>,
           \A t \in Task : state'[t] = "BLOCKED" =>
              state[t] = "BLOCKED" /\ pc'[t] = pc[t] /\ target'[t] = target[t]
    PROVE  Offered'
BY NobodyJoins, OfferKept, ListsApart

\* A wake takes its waiters from no other offer.
LEMMA OfferWoken ==
    ASSUME WInv, Offered, NEW r \in WaitList, Wakes(r, {}), UNCHANGED locked,
           \/ UNCHANGED releasing
           \/ releasing = r /\ releasing' = NoList
    PROVE  Offered'
<1>1. ASSUME NEW m \in Mutex, waiters'[m] # << >>
      PROVE  /\ waiters[m] # << >>
             /\ \A u \in Task : wokenFrom[u] = m => wokenFrom'[u] = m
  <2>1. /\ waiters[m] # << >>
        /\ \A u \in Waking(r) : wokenFrom[u] \notin WaitList
    BY <1>1, WakeJoinsNobody, ListsApart
  <2> QED
    BY <2>1, ListsApart DEF Wakes
<1>2. \A m \in Mutex : releasing' # m /\ m # r => releasing # m
  OBVIOUS
<1>3. CASE UNCHANGED releasing
  BY <1>1, <1>3, OfferKept
<1>4. CASE releasing = r /\ releasing' = NoList
  <2>1. waiters[r] # << >> => \E v \in Task : wokenFrom'[v] = r
    <3>1. waiters[r] # << >> => \E v \in Task : Waking(r) = {v}
      BY WakingMember
    <3> QED
      BY <3>1 DEF Wakes
  <2>2. ASSUME NEW m \in Mutex, ~locked'[m], waiters'[m] # << >>
        PROVE  Woken(m)' # {}
    <3>1. CASE m = r
      BY <1>1, <2>1, <2>2, <3>1 DEF Woken
    <3>2. CASE m # r
      <4>1. PICK u \in Task : wokenFrom[u] = m
        BY <1>1, <1>4, <2>2, <3>2 DEF Offered, Woken
      <4> QED
        BY <1>1, <2>2, <4>1 DEF Woken
    <3> QED
      BY <3>1, <3>2
  <2> QED
    BY <2>2 DEF Offered
<1> QED
  BY <1>3, <1>4

\* A task that finishes its attempt at s, or waits there, forgets only an
\* offer of s.
LEMMA OfferTried ==
    ASSUME WInv, WInv', Offered, NEW t \in Task, Executing(t), Finish(t) \/ WaitBegin(t),
           target[t] \in Mutex => locked'[target[t]] \/ (wokenFrom[t] = NoList /\ Finish(t)),
           \A m \in Mutex : ~locked'[m] => ~locked[m],
           UNCHANGED releasing
    PROVE  Offered'
<1>1. \A m \in Mutex : wokenFrom[t] = m => target[t] = m
  BY WokenFacts, ListsApart
<1>2. \A u \in Task : u # t => wokenFrom'[u] = wokenFrom[u]
  BY Basics DEF Finish, WaitEnd, WaitBegin
<1>3. ASSUME NEW m \in Mutex, waiters'[m] # << >>, ~locked'[m]
      PROVE  waiters[m] # << >>
  <2>1. CASE Finish(t)
    BY <1>3, <2>1 DEF Finish
  <2>2. CASE WaitBegin(t) /\ ~Finish(t)
    BY <1>3, <2>2, Basics, ListsApart DEF WaitBegin
  <2> QED
    BY <2>1, <2>2
<1>4. ASSUME NEW m \in Mutex, ~locked'[m], NEW u \in Task, wokenFrom[u] = m
      PROVE  wokenFrom'[u] = m
  BY <1>1, <1>2, <1>4, ListsApart
<1> QED
  BY <1>3, <1>4, OfferKept

\* A task that is paused or deleted passes its offer on to a waiter, if there
\* is one.
LEMMA OfferPassed ==
    ASSUME WInv, WInv', Offered, NEW t \in Task, Pause(t) \/ Delete(t),
           UNCHANGED <<locked, releasing>>
    PROVE  Offered'
<1> USE DEF tcbVars, callVars, waitingVars
<1>1. \A u \in Task : state'[u] = "BLOCKED" =>
         state[u] = "BLOCKED" /\ pc'[u] = pc[u] /\ target'[u] = target[u]
  <2>1. CASE Pause(t)
    BY <2>1 DEF Pause
  <2>2. CASE Delete(t)
    BY <2>2, Basics DEF Delete, Return
  <2> QED
    BY <2>1, <2>2
<1>2. /\ \A u \in Task : wokenFrom[u] \in WaitList => state[u] # "BLOCKED"
      /\ MayTearDown(t)
  BY WokenFacts DEF Pause, Delete
<1>3. /\ \A u \in Task : u # t /\ u \notin Compensating(t) => wokenFrom'[u] = wokenFrom[u]
      /\ \A u \in Task : u \in Compensating(t) => wokenFrom'[u] = wokenFrom[t]
  BY DEF Pause, Delete
<1>4. ASSUME NEW m \in Mutex, waiters[m] # << >>, NEW u \in Task, wokenFrom[u] = m
      PROVE  \E v \in Task : wokenFrom'[v] = m
  <2>1. m \in WaitList /\ u \notin Compensating(t)
    BY <1>2, <1>4, CompensatingMember, ListsApart
  <2>2. CASE u # t
    BY <1>3, <1>4, <2>1, <2>2
  <2>3. CASE u = t
    <3>1. Unconsumed(t)
      BY <1>2, <1>4, <2>1, <2>3, TornDown, ListsApart
    <3>2. PICK v \in Task : v \in Compensating(t)
      BY <1>4, <2>3, <3>1, CompensatingMember
    <3> QED
      BY <1>3, <1>4, <2>3, <3>2
  <2> QED
    BY <2>2, <2>3
<1>5. ASSUME NEW m \in Mutex, waiters'[m] # << >>
      PROVE  waiters[m] # << >>
  BY <1>1, <1>5, NobodyJoins, ListsApart
<1> QED
  BY <1>4, <1>5, OfferKept

\* A freed mutex stays offered to a woken waiter.
LEMMA OfferedStep ==
    ASSUME IInv, WInv', [Next]_vars
    PROVE  Offered'
<1>a. WInv /\ Offered /\ MutexTypeOK /\ SectionExact
  BY DEF IInv
<1>b. state \in [Task -> {"INACTIVE", "SUSPENDED", "READY", "RUNNING", "BLOCKED"}]
  BY <1>a, Basics
<1> USE DEF tcbVars, callVars, waitingVars, mutexVars, ownerVars, sectionVars
<1>1. ASSUME NEW s \in Semaphore, SemStep(s), UNCHANGED mutexVars
      PROVE  Offered'
  <2>1. CASE Give(s)
    BY <1>1, <1>a, <2>1, OfferWoken, ListsApart DEF Give, WakeOne
  <2> QED
    BY <1>1, <1>a, <2>1, OfferIdle DEF SemStep, SemInit, IsrTake
<1>2. CASE WalkStep
  BY <1>2, <1>a, OfferIdle DEF WalkStep, Reprioritize
<1>3. ASSUME NEW m \in Mutex, Release(m)
      PROVE  Offered'
  BY <1>3, <1>a, OfferWoken, ListsApart DEF Release, WakeOne
<1>4. ASSUME NEW t \in Task, PlainStep(t), UNCHANGED mutexVars
      PROVE  Offered'
  <2>1. ASSUME NEW s \in WaitList, NEW limit \in Timeout, Call(t, s, limit)
        PROVE  Offered'
    <3>1. \A u \in Task : state'[u] = "BLOCKED" =>
             state[u] = "BLOCKED" /\ pc'[u] = pc[u] /\ target'[u] = target[u]
      BY <2>1, <1>a, Basics DEF Call, Executing
    <3> QED
      BY <2>1, <3>1, <1>4, <1>a, OfferIdle DEF Call
  <2>2. CASE Resume(t)
    <3>1. \A u \in Task : state'[u] = "BLOCKED" =>
             state[u] = "BLOCKED" /\ pc'[u] = pc[u] /\ target'[u] = target[u]
      BY <2>2, <1>a, ResumeOther DEF Resume, Executing
    <3> QED
      BY <2>2, <3>1, <1>4, <1>a, OfferIdle DEF Resume
  <2>3. CASE Dispatch(t) \/ SwitchOut(t)
    <3>1. \A u \in Task : state'[u] = "BLOCKED" =>
             state[u] = "BLOCKED" /\ pc'[u] = pc[u] /\ target'[u] = target[u]
      BY <2>3, <1>b DEF Dispatch, SwitchOut
    <3> QED
      BY <2>3, <3>1, <1>4, <1>a, OfferIdle DEF Dispatch, SwitchOut
  <2>4. CASE TakeStep(t)
    <3>1. Executing(t) /\ target[t] \notin Mutex /\ (Finish(t) \/ WaitBegin(t))
      BY <2>4, ListsApart
      DEF TakeStep, TakeOk, TakeFail, TakeBlock, TakeTimedOut, Taking, Trying, TimedOut
    <3> QED
      BY <3>1, <1>4, <1>a, OfferTried
  <2> QED
    BY <1>4, <2>1, <2>2, <2>3, <2>4 DEF PlainStep
<1>5. ASSUME NEW t \in Task, NEW m \in Mutex, LockOk(t, m)
      PROVE  Offered'
  <2>1. /\ Executing(t) /\ Finish(t) /\ target[t] = m /\ UNCHANGED releasing
        /\ locked' = [locked EXCEPT ![m] = TRUE]
    BY <1>5 DEF LockOk, Locking, Trying
  <2>2. locked'[m] /\ \A r \in Mutex : ~locked'[r] => ~locked[r]
    BY <2>1, <1>a DEF MutexTypeOK
  <2> QED
    BY <2>1, <2>2, <1>a, OfferTried
<1>6. ASSUME NEW t \in Task, NEW m \in Mutex, LockFail(t, m)
      PROVE  Offered'
  <2>1. /\ Executing(t) /\ Finish(t) /\ target[t] = m /\ locked[m]
        /\ UNCHANGED <<locked, releasing>>
    BY <1>6 DEF LockFail, Locking, Trying
  <2> QED
    BY <2>1, <1>a, OfferTried
<1>7. ASSUME NEW t \in Task, NEW m \in Mutex, LockTimedOut(t, m)
      PROVE  Offered'
  <2>1. /\ Executing(t) /\ Finish(t) /\ pc[t] = "expired"
        /\ UNCHANGED <<locked, releasing>>
    BY <1>7 DEF LockTimedOut, TimedOut
  <2>2. wokenFrom[t] = NoList
    BY <2>1, <1>a, WokenFacts, Basics
  <2> QED
    BY <2>1, <2>2, <1>a, OfferTried
<1>8. ASSUME NEW t \in Task, NEW m \in Mutex, LockBoost(t, m)
      PROVE  Offered'
  BY <1>8, <1>a, OfferIdle DEF LockBoost, Reprioritize
<1>9. ASSUME NEW t \in Task, NEW m \in Mutex, LockJoin(t, m)
      PROVE  Offered'
  <2>1. /\ Executing(t) /\ WaitBegin(t) /\ target[t] = m /\ locked[m]
        /\ UNCHANGED <<locked, releasing>>
    BY <1>9, <1>a, ListsApart DEF LockJoin, MustWait, Locking, SectionExact, Trying
  <2>2. locked'[target[t]] /\ \A r \in Mutex : ~locked'[r] => ~locked[r]
    BY <2>1
  <2> QED
    BY <2>1, <2>2, <1>a, OfferTried
<1>10. ASSUME NEW t \in Task, NEW m \in Mutex, Unlock(t, m)
       PROVE  Offered'
  <2>1. /\ locked' = [locked EXCEPT ![m] = FALSE]
        /\ releasing = NoList /\ UNCHANGED <<waiters, wokenFrom>>
        /\ releasing' = IF waiters[m] = << >> THEN NoList ELSE m
    BY <1>10 DEF Unlock, Quiet
  <2> QED
    BY <2>1, <1>a, OfferKept, ListsApart DEF MutexTypeOK
<1>11. ASSUME NEW t \in Task, ExpireWait(t) \/ StartTask(t)
       PROVE  Offered'
  <2>1. UNCHANGED <<locked, releasing>>
    BY <1>11 DEF ExpireWait, StartTask
  <2>2. /\ UNCHANGED <<wokenFrom, callVars>>
        /\ \A u \in Task : state'[u] = "BLOCKED" => state[u] = "BLOCKED"
    BY <1>11, <1>b DEF ExpireWait, StartTask, Expire, Start
  <2> QED
    BY <2>1, <2>2, <1>a, OfferIdle
<1>12. ASSUME NEW t \in Task, PauseTask(t) \/ DeleteTask(t)
       PROVE  Offered'
  BY <1>12, <1>a, OfferPassed DEF PauseTask, DeleteTask
<1>13. ASSUME NEW t \in Task, NEW p \in Prio, CreateTask(t, p) \/ PrioritySet(t, p)
       PROVE  Offered'
  <2>1. \A u \in Task : state'[u] = "BLOCKED" => state[u] = "BLOCKED"
    BY <1>13, <1>b DEF CreateTask, Create, PrioritySet
  <2> QED
    BY <1>13, <2>1, <1>a, OfferIdle DEF CreateTask, Create, PrioritySet
<1>14. CASE UNCHANGED vars
  BY <1>14, <1>a, OfferIdle DEF vars
<1> QED
  BY <1>1, <1>2, <1>3, <1>4, <1>5, <1>6, <1>7, <1>8, <1>9, <1>10, <1>11, <1>12, <1>13, <1>14
  DEF Next, SectionStep, MutexCallStep, TaskStep

-----------------------------------------------------------------------------
(* The theorems.                                                           *)

\* The invariant holds at first.
LEMMA InitIInv == Init => IInv
<1> SUFFICES ASSUME Init
             PROVE  IInv
  OBVIOUS
<1>1. WInv
  BY WaitingStarts DEF Init
<1>2. SemTypeOK /\ MutexTypeOK
  BY <1>1, MutexAssumption DEF Init, SemaphoresInit, SemTypeOK, MutexesInit, MutexTypeOK,
     WInv, WaitingTypeOK
<1>3. OwnersFollow /\ SectionExact
  BY ListsApart DEF Init, MutexesInit, OwnersFollow, SectionExact
<1>4. EdgesFollow /\ SelfFree /\ Offered
  BY ListsApart DEF Init, MutexesInit, WaitingInit, EdgesFollow, BlockedAt, SelfFree, Offered
<1> QED
  BY <1>1, <1>2, <1>3, <1>4 DEF IInv

\* The strengthened invariant of the semaphores and the mutexes holds.
THEOREM Invariance == Spec => []IInv
<1>1. Init => IInv
  BY InitIInv
<1>2. IInv /\ [Next]_vars => IInv'
  <2> SUFFICES ASSUME IInv, [Next]_vars
               PROVE  IInv'
    OBVIOUS
  <2>1. WInv'
    BY StepIsWaiting, WaitingKept DEF IInv
  <2>2. SemTypeOK' /\ MutexTypeOK'
    BY SemTypeStep, MutexTypeStep DEF IInv
  <2>3. OwnersFollow' /\ EdgesFollow' /\ SelfFree'
    BY OwnersStep, EdgesStep, SelfStep
  <2>4. SectionExact' /\ Offered'
    BY <2>1, SectionKept, OfferedStep
  <2> QED
    BY <2>1, <2>2, <2>3, <2>4 DEF IInv
<1> QED
  BY <1>1, <1>2, PTL DEF Spec

\* The variables keep their types: the depth of a walk stays below
\* OS_TASK_DEADLOCK_MAX_DEPTH, and an owner is a task, a task that was, or
\* nobody.
THEOREM TypeCorrect == Spec => []TypeOK
<1>1. IInv => TypeOK
  BY DEF IInv, WInv, TypeOK
<1> QED
  BY <1>1, Invariance, PTL

\* What os_task_mutex.c follows is what is: tcb->owned_mutexes lists the
\* mutexes that name the task as their owner, and tcb->blocked_on_mutex names
\* the one mutex whose waiter list the task is linked in.
THEOREM ChainsAlwaysExact == Spec => []ChainsExact
<1>1. IInv => ChainsExact
  BY ListsApart DEF IInv, WInv, WaitersExact, OwnersFollow, EdgesFollow, BlockedAt, ChainsExact
<1> QED
  BY <1>1, Invariance, PTL

\* The head of a mutex's waiter list always has the highest priority of its
\* waiters, whatever a walk does to priorities meanwhile: the unlock wakes the
\* right one, and a walk reads what the owner is owed from the head alone.
THEOREM WaitersAlwaysSorted == Spec => []WaitersSorted
<1>1. IInv => WaitersSorted
  BY DEF IInv, WInv
<1> QED
  BY <1>1, Invariance, PTL

\* A mutex that is unlocked beside a waiter has been offered to one, and the
\* offer is never lost: not by a timeout, nor by the pause or the deletion of
\* the task that was woken for it.
THEOREM FreeAlwaysOffered == Spec => []FreeIsOffered
<1>1. IInv => FreeIsOffered
  BY ListsApart DEF IInv, Offered, FreeIsOffered, Quiet
<1> QED
  BY <1>1, Invariance, PTL

-----------------------------------------------------------------------------
(* Inherited priorities.                                                   *)

\* u stands behind t: it waits for a mutex of t, or has boosted t and is about
\* to wait.
Backs(u, t) ==
    \/ NextInChain(u) = t
    \/ u = joining /\ owner[target[u]] = t

\* t has the priority it is owed, and no higher one.
Fair(t) ==
    /\ prio[t] >= base[t]
    /\ \A u \in Task : Backs(u, t) => prio[u] <= prio[t]
    /\ prio[t] > base[t] => \E u \in Task : Backs(u, t) /\ prio[u] = prio[t]

\* So has every task but x.
FairBut(x) == \A t \in Task : Live(t) /\ t # x => Fair(t)

\* The tasks p[0] to p[k] wait in a row, each behind the next.
IsChain(p, k) ==
    /\ p \in [0 .. k -> Task]
    /\ \A i, j \in 0 .. k : p[i] = p[j] => i = j
    /\ \A i \in 0 .. k : i < k => NextInChain(p[i]) = p[i + 1]

\* No chain has more tasks than a walk may visit.
ShortChains == \A k \in Nat : \A p \in [0 .. k -> Task] : IsChain(p, k) => k < MaxDepth

\* The walk has come to p[k] from p[0]: its priority went up the chain with it.
\* Whether this is a raise or the release of one, what it left behind has been
\* settled, and none below the last task but the one it came from can raise it.
Climbs(p, k) ==
    /\ IsChain(p, k) /\ p[k] = walk /\ depth <= k
    /\ joining # Nobody => k > 0 /\ p[0] = owner[target[joining]]
    /\ k > 0 =>
          /\ base[walk] <= prio[walk]
          /\ \A u \in Task : NextInChain(u) = walk /\ u # p[k - 1] => prio[u] <= prio[walk]
    /\ \A i, j \in 0 .. k : i <= j /\ j < k =>
          /\ prio[p[i]] <= prio[p[j]]
          /\ prio[p[j]] <= prio[p[i]] \/ prio[p[j]] <= prio[walk]

Climbing == FairBut(walk) /\ \E k \in Nat : \E p : Climbs(p, k)

\* The tasks of C wait for each other in circles and have one priority.
IsCircle(C) ==
    /\ C \subseteq Task /\ walk \in C
    /\ \A t \in C : NextInChain(t) \in C /\ prio[NextInChain(t)] = prio[t]
    /\ \A t \in C : \E u \in C : NextInChain(u) = t

\* The walk has come round, and changes nothing any more.
Circling == FairBut(Nobody) /\ \E C : IsCircle(C)

\* Who is about to wait has lent its priority to the owner.
BoostHeld ==
    joining # Nobody =>
        owner[target[joining]] \in Task /\ prio[joining] = prio[owner[target[joining]]]

PrioInv ==
    /\ BoostHeld
    /\ walk = Nobody => FairBut(Nobody)
    /\ walk # Nobody => Climbing \/ Circling

\* What the invariant gives for priorities and chains.
LEMMA PrioBasics ==
    ASSUME IInv
    PROVE  /\ prio \in [Task -> Prio] /\ base \in [Task -> Prio]
           /\ Prio \subseteq Int /\ depth \in Nat /\ MaxDepth \in Nat \ {0}
           /\ \A t \in Task : prio[t] \in Int /\ base[t] \in Int
           /\ walk \in Task \cup {Nobody} /\ joining \in Task \cup {Nobody}
           /\ Nobody \notin Task /\ Gone \notin Task
<1>1. prio \in [Task -> Prio] /\ base \in [Task -> Prio]
  BY DEF IInv, WInv, WaitingTypeOK, MutexTypeOK
<1>2. Prio \subseteq Int
  BY WaitingAssumption DEF Prio
<1>3. \A t \in Task : prio[t] \in Prio /\ base[t] \in Prio
  BY <1>1
<1>4. \A t \in Task : prio[t] \in Int /\ base[t] \in Int
  BY <1>2, <1>3
<1>5. depth \in Nat /\ MaxDepth \in Nat \ {0}
  BY MutexAssumption DEF IInv, MutexTypeOK
<1>6. walk \in Task \cup {Nobody} /\ joining \in Task \cup {Nobody}
  BY DEF IInv, MutexTypeOK
<1> QED
  BY <1>1, <1>2, <1>4, <1>5, <1>6, MutexAssumption

\* A task in a chain is blocked at the mutex its edge names.
LEMMA ChainBlocked ==
    ASSUME IInv, NEW t \in Task
    PROVE  /\ NextInChain(t) # Nobody => state[t] = "BLOCKED" /\ Live(t)
           /\ state[t] # "BLOCKED" => blockedOn[t] = NoList /\ NextInChain(t) = Nobody
           /\ \A m \in Mutex : blockedOn[t] = m <=> BlockedAt(t, m)
           /\ blockedOn[t] \in Mutex \cup {NoList}
<1>1. \A m \in Mutex : blockedOn[t] = m <=> BlockedAt(t, m)
  BY DEF IInv, EdgesFollow
<1>2. blockedOn[t] \in Mutex \cup {NoList}
  BY DEF IInv, MutexTypeOK
<1>3. state[t] # "BLOCKED" => blockedOn[t] = NoList
  BY <1>1, <1>2 DEF BlockedAt
<1>4. blockedOn[t] = NoList => NextInChain(t) = Nobody
  BY DEF NextInChain
<1> QED
  BY <1>1, <1>2, <1>3, <1>4 DEF Live

\* u waits behind t exactly if it is queued at a mutex of t.
LEMMA BehindExact ==
    ASSUME IInv, NEW t \in Task, NEW u
    PROVE  u \in BehindOf(t) <=> u \in Task /\ NextInChain(u) = t
<1>1. ASSUME u \in BehindOf(t)
      PROVE  u \in Task /\ NextInChain(u) = t
  <2>1. PICK m \in ownedMutexes[t] : u \in Members(waiters[m])
    BY <1>1 DEF BehindOf
  <2>2. m \in Mutex /\ owner[m] = t
    BY <2>1 DEF IInv, MutexTypeOK, OwnersFollow
  <2>3. u \in Task /\ BlockedAt(u, m)
    BY <2>1, <2>2, Basics, ListsApart DEF IInv, BlockedAt
  <2>4. blockedOn[u] = m
    BY <2>2, <2>3, ChainBlocked
  <2> QED
    BY <2>2, <2>3, <2>4, ListsApart DEF NextInChain, FindById
<1>2. ASSUME u \in Task, NextInChain(u) = t
      PROVE  u \in BehindOf(t)
  <2>1. blockedOn[u] \in Mutex /\ owner[blockedOn[u]] = t
    BY <1>2, ChainLive, ListsApart
  <2>2. blockedOn[u] \in ownedMutexes[t]
    BY <2>1 DEF IInv, OwnersFollow
  <2>3. BlockedAt(u, blockedOn[u])
    BY <1>2, <2>1, ChainBlocked
  <2>4. u \in Members(waiters[blockedOn[u]])
    BY <1>2, <2>1, <2>3, Basics, ListsApart DEF IInv, BlockedAt
  <2> QED
    BY <2>2, <2>4 DEF BehindOf
<1> QED
  BY <1>1, <1>2

\* os_task_mutex_effective_recompute gives a task the highest of its base
\* priority and of those who wait behind it, though it looks at the heads of
\* the waiter lists only.
LEMMA Recomputed ==
    ASSUME IInv, NEW t \in Task, NEW q \in Prio, IsRecomputed(t, q)
    PROVE  /\ q >= base[t]
           /\ \A u \in Task : NextInChain(u) = t => prio[u] <= q
           /\ q # base[t] => \E u \in Task : NextInChain(u) = t /\ prio[u] = q
<1>1. q >= base[t]
  BY PrioBasics DEF IsRecomputed
<1>2. ASSUME NEW m \in ownedMutexes[t], waiters[m] # << >>
      PROVE  /\ m \in WaitList /\ waiters[m] \in Seq(Task) /\ Len(waiters[m]) \in Nat
             /\ Head(waiters[m]) = waiters[m][1] /\ 1 \in DOMAIN waiters[m]
             /\ Head(waiters[m]) \in Members(waiters[m])
  <2>1. m \in Mutex
    BY DEF IInv, MutexTypeOK
  <2>2. waiters[m] \in Seq(Task)
    BY <2>1, Basics, ListsApart DEF IInv
  <2>3. /\ Len(waiters[m]) \in Nat /\ DOMAIN waiters[m] = 1 .. Len(waiters[m])
        /\ Head(waiters[m]) = waiters[m][1] /\ Len(waiters[m]) # 0
    BY <1>2, <2>2
  <2>4. 1 \in DOMAIN waiters[m]
    BY <2>3
  <2> QED
    BY <2>1, <2>2, <2>3, <2>4, ListsApart DEF Members
<1>3. ASSUME NEW u \in Task, NextInChain(u) = t
      PROVE  prio[u] <= q
  <2>1. PICK m \in ownedMutexes[t] : u \in Members(waiters[m])
    BY <1>3, BehindExact DEF BehindOf
  <2>2. waiters[m] # << >>
    BY <2>1 DEF Members
  <2>3. prio[Head(waiters[m])] <= q
    BY <2>1, <2>2 DEF IsRecomputed, Owed
  <2>4. PICK j \in DOMAIN waiters[m] : u = waiters[m][j]
    BY <2>1 DEF Members
  <2>5. prio[waiters[m][1]] >= prio[u]
    <3>1. CASE j = 1
      BY <2>4, <3>1, PrioBasics
    <3>2. CASE j # 1
      <4>1. j \in 1 .. Len(waiters[m]) /\ 1 < j
        BY <1>2, <2>2, <2>4, <3>2
      <4> QED
        BY <1>2, <2>1, <2>2, <2>4, <4>1 DEF IInv, WInv, WaitersSorted
    <3> QED
      BY <3>1, <3>2
  <2>6. Head(waiters[m]) \in Task
    BY <1>2, <2>1, <2>2, Basics DEF IInv
  <2> QED
    BY <1>2, <2>1, <2>2, <2>3, <2>5, <2>6, PrioBasics
<1>4. ASSUME q # base[t]
      PROVE  \E u \in Task : NextInChain(u) = t /\ prio[u] = q
  <2>1. PICK m \in ownedMutexes[t] : waiters[m] # << >> /\ q = prio[Head(waiters[m])]
    BY <1>4 DEF IsRecomputed, Owed
  <2>2. Head(waiters[m]) \in BehindOf(t)
    BY <1>2, <2>1 DEF BehindOf
  <2> QED
    BY <2>1, <2>2, BehindExact
<1> QED
  BY <1>1, <1>3, <1>4

-----------------------------------------------------------------------------
(* Steps that start or end a wait.                                         *)

\* A chain is as long as the edges and the owners make it.
LEMMA ChainSame ==
    ASSUME NEW t, blockedOn'[t] = blockedOn[t], UNCHANGED owner
    PROVE  NextInChain(t)' = NextInChain(t)
BY DEF NextInChain, FindById

\* A task stays fair where nobody new stands behind it and nobody has left.
LEMMA FairStays ==
    ASSUME NEW t \in Task, Fair(t), prio'[t] = prio[t], base'[t] = base[t],
           \A u \in Task : Backs(u, t)' <=> Backs(u, t),
           \A u \in Task : Backs(u, t) => prio'[u] = prio[u]
    PROVE  Fair(t)'
BY DEF Fair

\* A walk that starts where all but its first task are fair.
LEMMA WalkBegins ==
    ASSUME joining' = Nobody, depth' = 0, walk' \in Task \cup {Nobody}, Nobody \notin Task,
           FairBut(walk)'
    PROVE  PrioInv'
<1>1. BoostHeld'
  BY DEF BoostHeld
<1>2. walk' = Nobody => FairBut(Nobody)'
  BY DEF FairBut
<1>3. ASSUME walk' # Nobody
      PROVE  Climbing'
  <2>1. PICK p : p \in [0 .. 0 -> Task] /\ p[0] = walk'
    <3> DEFINE f == [i \in 0 .. 0 |-> walk']
    <3>1. f \in [0 .. 0 -> Task] /\ f[0] = walk'
      BY <1>3
    <3> HIDE DEF f
    <3> QED
      BY <3>1
  <2>2. \A i \in 0 .. 0 : i = 0
    OBVIOUS
  <2>3. IsChain(p, 0)'
    BY <2>1, <2>2 DEF IsChain
  <2>4. Climbs(p, 0)'
    BY <2>1, <2>2, <2>3 DEF Climbs
  <2> QED
    BY <2>4 DEF Climbing
<1> QED
  BY <1>1, <1>2, <1>3 DEF PrioInv

\* Between critical sections every task is fair.
LEMMA QuietFair ==
    ASSUME PrioInv, walk = Nobody
    PROVE  FairBut(Nobody)
BY DEF PrioInv

\* When a wait ends the walk starts at the task that is rid of it, and all
\* others are as they were.
LEMMA DepartFair ==
    ASSUME IInv, PrioInv, walk = Nobody, joining = Nobody, joining' = Nobody,
           NEW gone \in SUBSET Task, Depart(gone), \A t, u \in gone : t = u,
           UNCHANGED <<prio, base>>,
           \A t \in Task : Live(t)' => Live(t),
           \A m \in Mutex : \/ owner'[m] = owner[m]
                            \/ /\ owner'[m] \notin Task
                               /\ \A t \in Task : owner[m] = t => ~Live(t)'
    PROVE  PrioInv'
<1>1. MutexTypeOK
  BY DEF IInv
<1>2. /\ walk' \in Task \cup {Nobody} /\ depth' \in Nat
      /\ \A t \in Task : blockedOn'[t] = IF t \in gone THEN NoList ELSE blockedOn[t]
  BY <1>1, DepartFacts, MutexAssumption
<1>3. depth' = 0
  BY DEF Depart, RecomputeFrom
<1>4. \A t \in gone : NextInChain(t) # Nobody => walk' = NextInChain(t)
  <2>1. ASSUME NEW t \in gone, NextInChain(t) # Nobody
        PROVE  walk' = NextInChain(t)
    <3>1. {NextInChain(u) : u \in gone} \ {Nobody} = {NextInChain(t)}
      BY <2>1
    <3>2. (CHOOSE o \in {NextInChain(t)} : TRUE) = NextInChain(t)
      OBVIOUS
    <3> QED
      BY <3>1, <3>2 DEF Depart, RecomputeFrom
  <2> QED
    BY <2>1
<1>5. ASSUME NEW t \in Task, Live(t)', t # walk'
      PROVE  Fair(t)'
  <2>1. Fair(t)
    BY <1>5, ListsApart, QuietFair DEF FairBut
  <2>2. ASSUME NEW u \in Task
        PROVE  NextInChain(u)' = t <=> NextInChain(u) = t
    <3>1. CASE u \in gone
      <4>1. NextInChain(u)' = Nobody
        BY <1>2, <3>1 DEF NextInChain
      <4> QED
        BY <1>4, <1>5, <3>1, <4>1, ListsApart
    <3>2. CASE u \notin gone
      <4>1. blockedOn'[u] = blockedOn[u] /\ blockedOn[u] \in Mutex \cup {NoList}
        BY <1>1, <1>2, <3>2 DEF MutexTypeOK
      <4>2. CASE blockedOn[u] = NoList
        BY <4>1, <4>2 DEF NextInChain
      <4>3. CASE blockedOn[u] \in Mutex
        BY <1>5, <4>1, <4>3, ListsApart DEF NextInChain, FindById
      <4> QED
        BY <4>1, <4>2, <4>3
    <3> QED
      BY <3>1, <3>2
  <2>3. \A u \in Task : Backs(u, t)' <=> Backs(u, t)
    BY <2>2, ListsApart DEF Backs
  <2> QED
    BY <2>1, <2>3, FairStays
<1>6. FairBut(walk)'
  BY <1>5 DEF FairBut
<1> QED
  BY <1>2, <1>3, <1>6, WalkBegins, ListsApart

\* A call on a semaphore, a switch or the like: no chain, no priority and no
\* life of a task changes.
LEMMA PrioSame ==
    ASSUME PrioInv, Quiet, joining' = Nobody, walk' = Nobody,
           UNCHANGED <<prio, base, owner, blockedOn>>, \A t \in Task : Live(t)' => Live(t),
           Nobody \notin Task
    PROVE  PrioInv'
<1>1. ASSUME NEW t \in Task, Live(t)'
      PROVE  Fair(t)'
  <2>1. Fair(t)
    BY <1>1, QuietFair DEF FairBut, Quiet
  <2>2. \A u \in Task : Backs(u, t)' <=> Backs(u, t)
    BY ChainSame DEF Backs, Quiet
  <2> QED
    BY <2>1, <2>2, FairStays
<1> QED
  BY <1>1 DEF PrioInv, BoostHeld, FairBut

\* os_mutex_lock that gets its mutex: those who wait on are behind the caller
\* now, at whom the walk starts.
LEMMA LockOkFair ==
    ASSUME IInv, PrioInv, NEW t \in Task, NEW m \in Mutex, LockOk(t, m)
    PROVE  PrioInv'
<1> USE DEF LockOk
<1>1. /\ Quiet /\ Executing(t) /\ ~locked[m] /\ UNCHANGED <<prio, base, state, joining>>
      /\ LinkOwned(t, m)
  BY DEF Locking, Trying, Finish
<1>2. \A r \in Mutex : owner'[r] = IF r = m THEN t ELSE owner[r]
  BY DEF IInv, MutexTypeOK
<1>3. owner[m] = Nobody
  BY <1>1 DEF IInv, OwnersFollow
<1>4. blockedOn[t] = NoList
  BY <1>1, ChainBlocked DEF Executing
<1>5. \A u \in Task : blockedOn'[u] = blockedOn[u]
  BY <1>4 DEF Publish, IInv, MutexTypeOK
<1>6. depth' = 0 /\ walk' = IF waiters[m] = << >> THEN Nobody ELSE t
  BY <1>1 DEF LinkOwned, RecomputeFrom
<1>7. ASSUME NEW x \in Task, Live(x)', x # walk'
      PROVE  Fair(x)'
  <2>1. Fair(x)
    BY <1>1, <1>7, QuietFair, ListsApart DEF FairBut, Live, Quiet
  <2>2. ASSUME NEW u \in Task
        PROVE  NextInChain(u)' = x <=> NextInChain(u) = x
    <3>1. CASE blockedOn[u] = m
      <4>1. u \in Members(waiters[m])
        BY <3>1, ChainBlocked, Basics, ListsApart DEF IInv, BlockedAt
      <4>2. waiters[m] # << >>
        BY <4>1 DEF Members
      <4>3. x # t
        BY <1>6, <1>7, <4>2
      <4> QED
        BY <1>2, <1>3, <1>5, <3>1, <4>3, ListsApart DEF NextInChain, FindById
    <3>2. CASE blockedOn[u] # m
      <4>1. blockedOn[u] \in Mutex \cup {NoList}
        BY ChainBlocked
      <4> QED
        BY <1>2, <1>5, <3>2, <4>1 DEF NextInChain, FindById
    <3> QED
      BY <3>1, <3>2
  <2>3. \A u \in Task : Backs(u, x)' <=> Backs(u, x)
    BY <1>1, <2>2, ListsApart DEF Backs, Quiet
  <2> QED
    BY <1>1, <2>1, <2>3, FairStays
<1>8. FairBut(walk)' /\ walk' \in Task \cup {Nobody} /\ joining' = Nobody
  BY <1>1, <1>6, <1>7 DEF FairBut, Quiet
<1> QED
  BY <1>6, <1>8, WalkBegins, ListsApart

\* os_mutex_unlock: nobody is behind the owner through this mutex any more,
\* and the walk starts at the owner.
LEMMA UnlockFair ==
    ASSUME IInv, PrioInv, NEW t \in Task, NEW m \in Mutex, Unlock(t, m)
    PROVE  PrioInv'
<1> USE DEF Unlock
<1>1. Quiet /\ UNCHANGED <<prio, base, state, joining, blockedOn>>
  BY DEF waitingVars, tcbVars, edgeVars
<1>2. \A r \in Mutex : owner'[r] = IF r = m THEN Nobody ELSE owner[r]
  BY DEF IInv, MutexTypeOK
<1>3. depth' = 0 /\ walk' = IF waiters[m] = << >> THEN Nobody ELSE FindById(owner[m])
  BY DEF UnlinkOwned, RecomputeFrom
<1>4. ASSUME NEW x \in Task, Live(x)', x # walk'
      PROVE  Fair(x)'
  <2>1. Fair(x)
    BY <1>1, <1>4, QuietFair, ListsApart DEF FairBut, Live, Quiet
  <2>2. ASSUME NEW u \in Task
        PROVE  NextInChain(u)' = x <=> NextInChain(u) = x
    <3>1. CASE blockedOn[u] = m
      <4>1. u \in Members(waiters[m])
        BY <3>1, ChainBlocked, Basics, ListsApart DEF IInv, BlockedAt
      <4>2. waiters[m] # << >>
        BY <4>1 DEF Members
      <4>3. x # owner[m]
        BY <1>3, <1>4, <4>2 DEF FindById
      <4> QED
        BY <1>1, <1>2, <3>1, <4>3, ListsApart DEF NextInChain, FindById
    <3>2. CASE blockedOn[u] # m
      <4>1. blockedOn[u] \in Mutex \cup {NoList}
        BY ChainBlocked
      <4> QED
        BY <1>1, <1>2, <3>2, <4>1 DEF NextInChain, FindById
    <3> QED
      BY <3>1, <3>2
  <2>3. \A u \in Task : Backs(u, x)' <=> Backs(u, x)
    BY <1>1, <2>2, ListsApart DEF Backs, Quiet
  <2> QED
    BY <1>1, <2>1, <2>3, FairStays
<1>5. FairBut(walk)' /\ walk' \in Task \cup {Nobody} /\ joining' = Nobody
  BY <1>1, <1>3, <1>4, ChainType DEF FairBut, Quiet
<1> QED
  BY <1>3, <1>5, WalkBegins, ListsApart

\* os_task_mutex_priority_inherit: the owner is raised to the caller, and the
\* walk starts behind the owner, where alone somebody may now be too low.
LEMMA BoostFair ==
    ASSUME IInv, PrioInv, NEW t \in Task, NEW m \in Mutex, LockBoost(t, m)
    PROVE  PrioInv'
<1> DEFINE o == owner[m]
<1>1. /\ Quiet /\ Executing(t) /\ target[t] = m /\ o # t /\ o \in Task /\ prio[t] > prio[o]
      /\ UNCHANGED <<base, state, target, owner, blockedOn>> /\ joining' = t
      /\ prio' = [prio EXCEPT ![o] = prio[t]]
  BY DEF LockBoost, MustWait, Locking, Trying, Outranks, Reprioritize, ownerVars, edgeVars, callVars
<1>2. depth' = 0 /\ walk' = NextInChain(o)
  BY DEF LockBoost, RecomputeFrom
<1> HIDE DEF o
<1>3. \A u \in Task : prio'[u] = IF u = o THEN prio[t] ELSE prio[u]
  BY <1>1, PrioBasics
<1>4. \A u : NextInChain(u)' = NextInChain(u)
  BY <1>1, ChainSame
<1>5. \A x \in Task : Live(x) => Fair(x)
  BY <1>1, QuietFair, ListsApart DEF FairBut, Quiet
<1>6. \A u, x \in Task : Backs(u, x)' <=> Backs(u, x) \/ (u = t /\ x = o)
  BY <1>1, <1>4, ListsApart DEF Backs, Quiet, o
<1>7. ASSUME NEW x \in Task, Live(x)', x # walk'
      PROVE  Fair(x)'
  <2>1. Fair(x)
    BY <1>1, <1>5, <1>7 DEF Live
  <2>2. ~Backs(o, x)
    BY <1>1, <1>2, <1>7, ListsApart DEF Backs, Quiet
  <2>3. CASE x # o
    <3>1. /\ \A u \in Task : Backs(u, x)' <=> Backs(u, x)
          /\ \A u \in Task : Backs(u, x) => prio'[u] = prio[u]
          /\ prio'[x] = prio[x] /\ base'[x] = base[x]
      BY <1>1, <1>3, <1>6, <2>2, <2>3
    <3> QED
      BY <2>1, <3>1, FairStays
  <2>4. CASE x = o
    <3>1. prio'[x] = prio[t] /\ base'[x] = base[x] /\ prio'[t] = prio[t]
      BY <1>1, <1>3, <2>4
    <3>2. prio[x] \in Int /\ base[x] \in Int /\ prio[t] \in Int /\ prio[x] < prio[t]
      BY <1>1, <2>4, PrioBasics
    <3>3. ASSUME NEW u \in Task, Backs(u, x)'
          PROVE  prio'[u] <= prio'[x]
      <4>1. CASE u = t
        BY <3>1, <3>2, <4>1
      <4>2. CASE u # t
        <5>1. Backs(u, x) /\ prio[u] <= prio[x] /\ u # o
          BY <1>6, <2>1, <2>2, <3>3, <4>2 DEF Fair
        <5>2. prio'[u] = prio[u] /\ prio[u] \in Int
          BY <1>3, <5>1, PrioBasics
        <5> QED
          BY <3>1, <3>2, <5>1, <5>2
      <4> QED
        BY <4>1, <4>2
    <3>4. Backs(t, x)' /\ prio'[t] = prio'[x]
      BY <1>6, <2>4, <3>1
    <3>5. prio'[x] >= base'[x]
      BY <2>1, <3>1, <3>2 DEF Fair
    <3> QED
      BY <3>3, <3>4, <3>5 DEF Fair
  <2> QED
    BY <2>3, <2>4
<1>8. BoostHeld'
  BY <1>1, <1>3 DEF BoostHeld, o
<1>9. FairBut(walk)'
  BY <1>7 DEF FairBut
<1>10. ASSUME walk' # Nobody
       PROVE  Climbing'
  <2>1. walk' \in Task /\ Live(walk') /\ walk' # o
    BY <1>1, <1>2, <1>10, ChainLive
  <2>2. PICK y \in Task : y = walk' /\ Live(y) /\ y # o
    BY <2>1
  <2>3. Fair(y) /\ prio'[y] = prio[y] /\ base'[y] = base[y]
    BY <1>1, <1>3, <1>5, <2>2
  <2>4. base[y] <= prio[y] /\ prio[o] \in Int
    BY <1>1, <2>2, <2>3, PrioBasics DEF Fair
  <2>5. \A u \in Task : NextInChain(u) = y /\ u # o => prio'[u] <= prio'[y]
    BY <1>3, <2>3 DEF Fair, Backs
  <2>6. PICK p : p \in [0 .. 1 -> Task] /\ p[0] = o /\ p[1] = y
    <3> DEFINE f == [i \in 0 .. 1 |-> IF i = 0 THEN o ELSE y]
    <3>1. f \in [0 .. 1 -> Task] /\ f[0] = o /\ f[1] = y
      BY <1>1, <2>2
    <3> HIDE DEF f
    <3> QED
      BY <3>1
  <2>7. \A i \in 0 .. 1 : i = 0 \/ i = 1
    OBVIOUS
  <2>8. IsChain(p, 1)'
    <3>1. \A i \in 0 .. 1 : i < 1 => i = 0 /\ i + 1 = 1
      OBVIOUS
    <3>2. \A i \in 0 .. 1 : i < 1 => NextInChain(p[i])' = p[i + 1]
      BY <1>2, <1>4, <2>2, <2>6, <3>1
    <3> QED
      BY <2>2, <2>6, <2>7, <3>2 DEF IsChain
  <2>9. prio'[o] \in Int
    BY <1>1, <1>3, PrioBasics
  <2>10. \A i, j \in 0 .. 1 : i <= j /\ j < 1 => i = 0 /\ j = 0
    OBVIOUS
  <2>11. Climbs(p, 1)'
    <3>1. (joining # Nobody => 1 > 0 /\ p[0] = owner[target[joining]])'
      BY <1>1, <2>6 DEF o
    <3>2. /\ base'[walk'] <= prio'[walk']
          /\ \A u \in Task : NextInChain(u)' = walk' /\ u # p[1 - 1] => prio'[u] <= prio'[walk']
      BY <1>4, <2>2, <2>3, <2>4, <2>5, <2>6
    <3>3. \A i, j \in 0 .. 1 : i <= j /\ j < 1 =>
             prio'[p[i]] <= prio'[p[j]] /\ prio'[p[j]] <= prio'[p[i]]
      BY <2>6, <2>9, <2>10
    <3>4. p[1] = walk' /\ depth' <= 1
      BY <1>2, <2>2, <2>6
    <3> QED
      BY <2>8, <3>1, <3>2, <3>3, <3>4 DEF Climbs
  <2> QED
    BY <1>9, <2>11 DEF Climbing
<1> QED
  BY <1>8, <1>9, <1>10 DEF PrioInv, FairBut

\* os_task_wait_begin: the caller now waits behind the owner it has boosted,
\* or did not outrank.
LEMMA JoinFair ==
    ASSUME IInv, PrioInv, NEW t \in Task, NEW m \in Mutex, LockJoin(t, m)
    PROVE  PrioInv'
<1>1. /\ walk = Nobody /\ walk' = Nobody /\ Executing(t) /\ target[t] = m
      /\ UNCHANGED <<prio, base, owner, target>> /\ joining' = Nobody
      /\ joining = t \/ (joining = Nobody /\ ~Outranks(t, m))
      /\ blockedOn' = [blockedOn EXCEPT ![t] = m]
      /\ WaitBegin(t)
  <2>1. /\ walk = Nobody /\ Executing(t) /\ target[t] = m
        /\ joining = t \/ (joining = Nobody /\ ~Outranks(t, m))
    <3>1. CASE joining = t /\ walk = Nobody /\ target[t] = m
      <4>1. joining # Nobody
        BY <3>1, ListsApart
      <4>2. Trying(joining)
        BY <4>1 DEF IInv, SectionExact
      <4>3. Executing(t)
        BY <3>1, <4>2 DEF Trying, Executing
      <4> QED
        BY <3>1, <4>3
    <3>2. CASE MustWait(t, m) /\ ~Outranks(t, m)
      BY <3>2 DEF MustWait, Locking, Trying, Quiet
    <3> QED
      BY <3>1, <3>2 DEF LockJoin
  <2> QED
    BY <2>1 DEF LockJoin, Publish, WaitBegin, ownerVars
<1>2. \A u \in Task : Live(u)' <=> Live(u)
  BY <1>1, Basics DEF IInv, WaitBegin, Live, Executing
<1>3. blockedOn[t] = NoList /\ NextInChain(t) = Nobody
  BY <1>1, ChainBlocked DEF Executing
<1>4. /\ NextInChain(t)' = FindById(owner[m])
      /\ \A u \in Task : u # t => NextInChain(u)' = NextInChain(u)
  BY <1>1, ListsApart DEF NextInChain, FindById, IInv, MutexTypeOK
<1>5. \A u, x \in Task : Backs(u, x)' <=> NextInChain(u) = x \/ (u = t /\ owner[m] = x)
  BY <1>1, <1>3, <1>4, ListsApart DEF Backs, FindById
<1>6. ASSUME NEW x \in Task, Live(x)
      PROVE  Fair(x)'
  <2>1. Fair(x)
    BY <1>1, <1>6, QuietFair, ListsApart DEF FairBut
  <2>2. CASE joining = t \/ x # owner[m]
    <3>1. \A u \in Task : Backs(u, x)' <=> Backs(u, x)
      BY <1>1, <1>5, <2>2, ListsApart DEF Backs
    <3> QED
      BY <1>1, <2>1, <3>1, FairStays
  <2>3. CASE joining = Nobody /\ x = owner[m]
    <3>1. prio[t] <= prio[x]
      BY <1>1, <2>3, PrioBasics, ListsApart DEF Outranks
    <3>2. \A u \in Task : Backs(u, x)' <=> Backs(u, x) \/ u = t
      BY <1>5, <2>3, ListsApart DEF Backs
    <3> QED
      BY <1>1, <2>1, <3>1, <3>2 DEF Fair
  <2> QED
    BY <1>1, <2>2, <2>3
<1> QED
  BY <1>1, <1>2, <1>6, ListsApart DEF PrioInv, BoostHeld, FairBut

\* A task that is created has the priority it asked for, and nobody behind it.
LEMMA CreateFair ==
    ASSUME IInv, PrioInv, NEW t \in Task, NEW p \in Prio, CreateTask(t, p)
    PROVE  PrioInv'
<1>1. /\ Quiet /\ Quiet' /\ ~Live(t) /\ UNCHANGED <<owner, blockedOn>>
      /\ prio' = [prio EXCEPT ![t] = p] /\ base' = [base EXCEPT ![t] = p]
      /\ \A u \in Task : u # t => state'[u] = state[u]
  BY DEF CreateTask, Create, Live, ownerVars, edgeVars, sectionVars, Quiet
<1>2. \A u \in Task : NextInChain(u)' = NextInChain(u)
  BY <1>1, ChainSame
<1>3. \A u, x \in Task : NextInChain(u) = x => u # t /\ x # t
  BY <1>1, ChainLive, ChainBlocked, ListsApart
<1>4. \A u, x \in Task : Backs(u, x)' <=> Backs(u, x)
  BY <1>1, <1>2, ListsApart DEF Backs, Quiet
<1>5. \A u, x \in Task : Backs(u, x) => u # t /\ x # t
  BY <1>1, <1>3, ListsApart DEF Backs, Quiet
<1>6. ASSUME NEW x \in Task, Live(x)'
      PROVE  Fair(x)'
  <2>1. CASE x = t
    <3>1. prio'[x] = p /\ base'[x] = p /\ p \in Int
      BY <1>1, <2>1, PrioBasics
    <3> QED
      BY <1>4, <1>5, <2>1, <3>1 DEF Fair
  <2>2. CASE x # t
    <3>1. Fair(x)
      BY <1>1, <1>6, <2>2, QuietFair, ListsApart DEF FairBut, Live, Quiet
    <3>2. /\ prio'[x] = prio[x] /\ base'[x] = base[x]
          /\ \A u \in Task : Backs(u, x) => prio'[u] = prio[u]
      BY <1>1, <1>5, <2>2, PrioBasics
    <3> QED
      BY <1>4, <3>1, <3>2, FairStays
  <2> QED
    BY <2>1, <2>2
<1> QED
  BY <1>1, <1>6 DEF PrioInv, BoostHeld, FairBut, Quiet

\* os_task_priority_set: the walk starts at the task itself.
LEMMA PrioritySetFair ==
    ASSUME IInv, PrioInv, NEW t \in Task, NEW p \in Prio, PrioritySet(t, p)
    PROVE  PrioInv'
<1>1. /\ Quiet /\ UNCHANGED <<prio, owner, blockedOn, state, joining>> /\ walk' = t /\ depth' = 0
      /\ base' = [base EXCEPT ![t] = p]
  BY DEF PrioritySet, RecomputeFrom, ownerVars, edgeVars, waitingVars, tcbVars
<1>2. ASSUME NEW x \in Task, Live(x)', x # t
      PROVE  Fair(x)'
  <2>1. Fair(x)
    BY <1>1, <1>2, QuietFair, ListsApart DEF FairBut, Live, Quiet
  <2>2. \A u \in Task : Backs(u, x)' <=> Backs(u, x)
    BY <1>1, ChainSame, ListsApart DEF Backs, Quiet
  <2>3. base'[x] = base[x]
    BY <1>1, <1>2
  <2> QED
    BY <1>1, <2>1, <2>2, <2>3, FairStays
<1>3. FairBut(walk)' /\ joining' = Nobody
  BY <1>1, <1>2 DEF FairBut, Quiet
<1> QED
  BY <1>1, <1>3, WalkBegins, ListsApart

-----------------------------------------------------------------------------
(* The walk.                                                               *)

\* One turn of the walk in a circle finds every priority as it should be.
LEMMA CircleFair ==
    ASSUME IInv, PrioInv, Circling, WalkStep
    PROVE  PrioInv'
<1>1. PICK C : IsCircle(C)
  BY DEF Circling
<1>2. walk \in Task /\ Live(walk) /\ walk # Nobody
  BY ListsApart DEF WalkStep, IInv, MutexTypeOK, SectionExact
<1>3. PICK q \in Prio : IsRecomputed(walk, q) /\ Reprioritize(walk, q)
  BY DEF WalkStep
<1>4. PICK v \in Task : NextInChain(v) = walk /\ prio[v] = prio[walk]
  BY <1>1 DEF IsCircle
<1>5. Fair(walk)
  BY <1>2 DEF Circling, FairBut
<1>6. q = prio[walk]
  <2>1. q >= prio[walk]
    BY <1>2, <1>3, <1>4, Recomputed
  <2>2. q = base[walk] \/ \E u \in Task : NextInChain(u) = walk /\ prio[u] = q
    BY <1>2, <1>3, Recomputed
  <2>3. q <= prio[walk]
    BY <1>5, <2>2, PrioBasics, <1>2 DEF Fair, Backs
  <2> QED
    BY <1>2, <1>3, <2>1, <2>3, PrioBasics
<1>7. /\ UNCHANGED <<prio, base, owner, blockedOn, state, joining, target>>
      /\ walk' = Nobody \/ walk' = NextInChain(walk)
  <2>1. prio' = prio
    BY <1>2, <1>3, <1>6, PrioBasics DEF Reprioritize
  <2> QED
    BY <1>3, <2>1 DEF WalkStep, RecomputeFrom, Reprioritize, ownerVars, edgeVars, callVars
<1>8. \A u : NextInChain(u)' = NextInChain(u)
  BY <1>7, ChainSame
<1>9. FairBut(Nobody)'
  <2>1. ASSUME NEW x \in Task, Live(x)'
        PROVE  Fair(x)'
    <3>1. Fair(x)
      BY <1>7, <2>1, ListsApart DEF Circling, FairBut, Live
    <3>2. \A u \in Task : Backs(u, x)' <=> Backs(u, x)
      BY <1>7, <1>8 DEF Backs
    <3> QED
      BY <1>7, <3>1, <3>2, FairStays
  <2> QED
    BY <2>1 DEF FairBut
<1>10. ASSUME walk' # Nobody
       PROVE  IsCircle(C)'
  <2>1. walk' \in C
    BY <1>1, <1>7, <1>10 DEF IsCircle
  <2> QED
    BY <1>1, <1>7, <1>8, <2>1 DEF IsCircle
<1>11. BoostHeld'
  BY <1>7 DEF PrioInv, BoostHeld
<1> QED
  BY <1>9, <1>10, <1>11 DEF PrioInv, Circling

\* The walk gives the task it has come to what it is owed: no less than the
\* task before it in the chain, and more than before only because of that one.
LEMMA ClimbGives ==
    ASSUME IInv, NEW k \in Nat, NEW p, Climbs(p, k), walk \in Task, NEW q \in Prio,
           IsRecomputed(walk, q)
    PROVE  /\ k > 0 => prio[p[k - 1]] <= q /\ (q = prio[p[k - 1]] \/ q <= prio[walk])
           /\ p \in [0 .. k -> Task] /\ p[k] = walk
           /\ q \in Int
<1>1. p \in [0 .. k -> Task] /\ p[k] = walk
  BY DEF Climbs, IsChain
<1>2. ASSUME k > 0
      PROVE  prio[p[k - 1]] <= q /\ (q = prio[p[k - 1]] \/ q <= prio[walk])
  <2>1. k - 1 \in 0 .. k /\ k - 1 < k /\ k - 1 + 1 = k
    BY <1>2
  <2>2. p[k - 1] \in Task /\ NextInChain(p[k - 1]) = walk
    BY <1>1, <2>1 DEF Climbs, IsChain
  <2>3. prio[p[k - 1]] <= q
    BY <2>2, Recomputed
  <2>4. q # base[walk] => \E u \in Task : NextInChain(u) = walk /\ prio[u] = q
    BY Recomputed
  <2> QED
    BY <1>2, <2>3, <2>4 DEF Climbs
<1> QED
  BY <1>1, <1>2, PrioBasics

\* The owner that joining has boosted keeps its priority during the walk, and
\* so does joining, should the walk come to it.
LEMMA ClimbHolds ==
    ASSUME IInv, PrioInv, NEW k \in Nat, NEW p, Climbs(p, k), walk \in Task, NEW q \in Prio,
           IsRecomputed(walk, q), joining # Nobody
    PROVE  /\ owner[target[joining]] # walk
           /\ walk = joining => q = prio[walk]
<1>1. k > 0 /\ p[0] = owner[target[joining]]
  BY DEF Climbs
<1>2. 0 \in 0 .. k /\ k \in 0 .. k /\ k - 1 \in 0 .. k /\ 0 <= k - 1 /\ k - 1 < k
  BY <1>1
<1>3. p[0] # walk
  BY <1>1, <1>2, ClimbGives DEF Climbs, IsChain
<1>4. ASSUME walk = joining
      PROVE  q = prio[walk]
  <2>1. prio[p[0]] = prio[walk]
    BY <1>1, <1>4, ListsApart DEF PrioInv, BoostHeld
  <2>2. p[k - 1] \in Task
    BY <1>2, ClimbGives
  <2>3. /\ prio[p[0]] <= prio[p[k - 1]]
        /\ prio[p[k - 1]] <= prio[p[0]] \/ prio[p[k - 1]] <= prio[walk]
    BY <1>2 DEF Climbs
  <2>4. prio[p[k - 1]] = prio[walk]
    BY <2>1, <2>2, <2>3, PrioBasics
  <2> QED
    BY <1>1, <2>4, ClimbGives, PrioBasics
<1> QED
  BY <1>1, <1>3, <1>4

\* One turn of a walk on its way up the chain: the task it has come to is
\* settled, and the walk is one task further, or round, or done.
LEMMA ClimbFair ==
    ASSUME IInv, PrioInv, ShortChains, Climbing, WalkStep
    PROVE  PrioInv'
<1>1. PICK k \in Nat : \E p : Climbs(p, k)
  BY DEF Climbing
<1>2. PICK p : Climbs(p, k)
  BY <1>1
<1>3. PICK w \in Task : w = walk /\ Live(w)
  BY ListsApart DEF WalkStep, IInv, MutexTypeOK, SectionExact
<1>4. PICK q \in Prio : IsRecomputed(w, q) /\ Reprioritize(w, q)
  BY <1>3 DEF WalkStep
<1>6. PICK y \in Task \cup {Nobody} : y = NextInChain(w) /\ y # w
  BY <1>3, ChainLive, ChainType, ListsApart
<1>5. /\ UNCHANGED <<base, owner, blockedOn, state, joining, target>>
      /\ prio' = [prio EXCEPT ![w] = q]
      /\ \/ walk' = Nobody /\ (y = Nobody \/ depth + 1 >= MaxDepth)
         \/ walk' = y /\ y # Nobody /\ depth' = depth + 1
  BY <1>3, <1>4, <1>6, PrioBasics
    DEF WalkStep, RecomputeFrom, Reprioritize, ownerVars, edgeVars, callVars
<1>7. \A u : NextInChain(u)' = NextInChain(u)
  BY <1>5, ChainSame
<1>8. \A u \in Task : prio'[u] = IF u = w THEN q ELSE prio[u]
  BY <1>5, PrioBasics
<1>9. /\ k > 0 => prio[p[k - 1]] <= q /\ (q = prio[p[k - 1]] \/ q <= prio[w])
      /\ p \in [0 .. k -> Task] /\ p[k] = w /\ q \in Int
      /\ joining # Nobody => owner[target[joining]] # w /\ (w = joining => q = prio[w])
  BY <1>2, <1>3, <1>4, ClimbGives, ClimbHolds
<1>10. BoostHeld'
  <2>1. ASSUME joining # Nobody
        PROVE  owner[target[joining]] \in Task /\ prio'[joining] = prio'[owner[target[joining]]]
    <3>1. /\ owner[target[joining]] \in Task /\ prio[joining] = prio[owner[target[joining]]]
          /\ joining \in Task
      BY <2>1, PrioBasics DEF PrioInv, BoostHeld
    <3> QED
      BY <1>8, <1>9, <2>1, <3>1
  <2> QED
    BY <1>5, <2>1 DEF BoostHeld
<1>11. \A u, x \in Task : Backs(u, x)' <=> Backs(u, x)
  BY <1>5, <1>7 DEF Backs
<1>12. Fair(w)'
  <2>1. \A u \in Task : Backs(u, w) <=> NextInChain(u) = w
    BY <1>9, PrioBasics DEF Backs
  <2>2. \A u \in Task : NextInChain(u) = w => u # w
    BY ChainLive, ListsApart
  <2>3. /\ q >= base[w]
        /\ \A u \in Task : NextInChain(u) = w => prio[u] <= q
        /\ q # base[w] => \E u \in Task : NextInChain(u) = w /\ prio[u] = q
    BY <1>4, Recomputed
  <2>4. base'[w] = base[w] /\ base[w] \in Int /\ prio'[w] = q
    BY <1>5, <1>8, PrioBasics
  <2>5. \A u \in Task : Backs(u, w)' => prio'[u] <= prio'[w]
    BY <1>8, <1>11, <2>1, <2>2, <2>3, <2>4
  <2>6. ASSUME prio'[w] > base'[w]
        PROVE  \E u \in Task : Backs(u, w)' /\ prio'[u] = prio'[w]
    <3>1. PICK u \in Task : NextInChain(u) = w /\ prio[u] = q
      BY <1>9, <2>3, <2>4, <2>6
    <3> QED
      BY <1>8, <1>11, <2>1, <2>2, <2>4, <3>1
  <2> QED
    BY <1>9, <2>3, <2>4, <2>5, <2>6 DEF Fair
<1>13. ASSUME NEW x \in Task, Live(x)', x # y
       PROVE  Fair(x)'
  <2>1. CASE x # w
    <3>1. Fair(x)
      BY <1>3, <1>5, <1>13, <2>1 DEF Climbing, FairBut, Live
    <3>2. Backs(w, x) => prio'[w] = prio[w]
      BY <1>3, <1>6, <1>8, <1>9, <1>13, PrioBasics DEF Backs
    <3>3. prio'[x] = prio[x] /\ \A u \in Task : Backs(u, x) => prio'[u] = prio[u]
      BY <1>8, <2>1, <3>2
    <3> QED
      BY <1>5, <1>11, <3>1, <3>3, FairStays
  <2> QED
    BY <1>12, <2>1
<1>14. FairBut(y)'
  BY <1>13 DEF FairBut
<1>15. CASE y = Nobody
  BY <1>5, <1>10, <1>14, <1>15 DEF PrioInv
<1>16. ASSUME y \in Task
       PROVE  /\ Fair(y) /\ prio[w] <= prio[y] /\ prio'[y] = prio[y]
              /\ prio[w] \in Int /\ prio[y] \in Int /\ base[y] \in Int
  <2>1. Live(y)
    BY <1>6, <1>16, ChainLive, ListsApart
  <2>2. Fair(y)
    BY <1>3, <1>6, <1>16, <2>1 DEF Climbing, FairBut
  <2> QED
    BY <1>6, <1>8, <1>16, <2>2, PrioBasics DEF Fair, Backs
<1>17. \A i \in 0 .. k : p[i] \in Task /\ prio[p[i]] \in Int
  BY <1>9, PrioBasics
<1>18. /\ \A i, j \in 0 .. k : p[i] = p[j] => i = j
       /\ \A i \in 0 .. k : i < k => NextInChain(p[i]) = p[i + 1]
       /\ depth <= k
       /\ joining # Nobody => k > 0 /\ p[0] = owner[target[joining]]
       /\ \A i, j \in 0 .. k : i <= j /\ j < k =>
             /\ prio[p[i]] <= prio[p[j]]
             /\ prio[p[j]] <= prio[p[i]] \/ prio[p[j]] <= prio[w]
  BY <1>2, <1>3 DEF Climbs, IsChain
<1>19. \A i \in 0 .. k : prio'[p[i]] = IF i = k THEN q ELSE prio[p[i]]
  BY <1>8, <1>9, <1>17, <1>18
<1>20. CASE y \in Task /\ \E r \in 0 .. k : p[r] = y
  <2>1. PICK r \in 0 .. k : p[r] = y
    BY <1>20
  <2>2. r < k /\ k > 0 /\ k - 1 \in 0 .. k /\ r <= k - 1 /\ k - 1 < k
    BY <1>6, <1>9, <2>1
  <2>3. \A j \in 0 .. k : r <= j /\ j < k => prio[p[j]] = prio[y]
    BY <1>16, <1>17, <1>18, <1>20, <2>1
  <2>4. q = prio[y]
    BY <1>9, <1>16, <1>20, <2>2, <2>3
  <2>5. \A j \in 0 .. k : r <= j => prio'[p[j]] = prio[y]
    BY <1>19, <2>3, <2>4
  <2>6. Fair(y)'
    <3>1. \A u \in Task : Backs(u, y)' => prio'[u] <= prio'[y]
      BY <1>8, <1>11, <1>16, <1>20, <2>4 DEF Fair
    <3>2. Backs(w, y)' /\ prio'[w] = prio'[y]
      BY <1>6, <1>8, <1>11, <1>16, <1>20, <2>4 DEF Backs
    <3> QED
      BY <1>5, <1>16, <1>20, <3>1, <3>2 DEF Fair
  <2>7. FairBut(Nobody)'
    BY <1>13, <2>6 DEF FairBut
  <2>8. ASSUME walk' = y
        PROVE  Circling'
    <3>1. PICK C : C = {p[j] : j \in r .. k}
      OBVIOUS
    <3>2. C \subseteq Task /\ y \in C
      BY <1>17, <2>1, <2>2, <3>1
    <3>3. ASSUME NEW t \in C
          PROVE  /\ NextInChain(t) \in C /\ prio'[t] = prio[y]
                 /\ \E u \in C : NextInChain(u) = t
      <4>1. PICK j \in r .. k : t = p[j]
        BY <3>1, <3>3
      <4>2. j \in 0 .. k /\ r <= j
        BY <2>1, <4>1
      <4>3. NextInChain(t) \in C
        <5>1. CASE j = k
          BY <1>6, <1>9, <3>2, <4>1, <5>1
        <5>2. CASE j # k
          <6>1. j < k /\ j + 1 \in r .. k
            BY <4>1, <4>2, <5>2
          <6> QED
            BY <1>18, <3>1, <4>1, <4>2, <6>1
        <5> QED
          BY <5>1, <5>2
      <4>4. \E u \in C : NextInChain(u) = t
        <5>1. CASE j = r
          <6>1. k \in r .. k
            BY <2>2
          <6>2. w \in C
            BY <1>9, <3>1, <6>1
          <6> QED
            BY <1>6, <2>1, <4>1, <5>1, <6>2
        <5>2. CASE j # r
          <6>1. j - 1 \in r .. k /\ j - 1 \in 0 .. k /\ j - 1 < k /\ (j - 1) + 1 = j
            BY <2>1, <4>1, <4>2, <5>2
          <6>2. NextInChain(p[j - 1]) = p[j]
            BY <1>18, <6>1
          <6> QED
            BY <3>1, <4>1, <6>1, <6>2
        <5> QED
          BY <5>1, <5>2
      <4> QED
        BY <2>5, <4>1, <4>2, <4>3, <4>4
    <3>4. IsCircle(C)'
      BY <1>7, <2>8, <3>2, <3>3 DEF IsCircle
    <3> QED
      BY <2>7, <3>4 DEF Circling
  <2> QED
    BY <1>5, <1>10, <2>7, <2>8 DEF PrioInv
<1>21. CASE y \in Task /\ \A r \in 0 .. k : p[r] # y
  <2>1. PICK f \in [0 .. k + 1 -> Task] : f[k + 1] = y /\ \A i \in 0 .. k : f[i] = p[i]
    <3> DEFINE g == [i \in 0 .. k + 1 |-> IF i = k + 1 THEN y ELSE p[i]]
    <3>1. \A i \in 0 .. k + 1 : i = k + 1 \/ i \in 0 .. k
      OBVIOUS
    <3>2. g \in [0 .. k + 1 -> Task]
      BY <1>17, <1>21, <3>1
    <3>3. g[k + 1] = y /\ \A i \in 0 .. k : g[i] = p[i]
      OBVIOUS
    <3> HIDE DEF g
    <3> QED
      BY <3>2, <3>3
  <2>2. /\ \A i \in 0 .. k + 1 : i = k + 1 \/ i \in 0 .. k
        /\ \A i \in 0 .. k + 1 : i < k + 1 => i \in 0 .. k /\ (i = k \/ (i < k /\ i + 1 \in 0 .. k))
        /\ k \in 0 .. k /\ k + 1 \in Nat /\ k + 1 \in 0 .. k + 1 /\ 0 \in 0 .. k
    OBVIOUS
  <2>3. \A i, j \in 0 .. k + 1 : f[i] = f[j] => i = j
    BY <1>18, <1>21, <2>1, <2>2
  <2>4. \A i \in 0 .. k + 1 : i < k + 1 => NextInChain(f[i]) = f[i + 1]
    BY <1>6, <1>9, <1>18, <2>1, <2>2
  <2>5. k + 1 < MaxDepth
    BY <2>1, <2>2, <2>3, <2>4 DEF ShortChains, IsChain
  <2>6. walk' = y /\ depth' = depth + 1 /\ depth + 1 <= k + 1
    <3>1. depth \in Nat /\ MaxDepth \in Nat
      BY PrioBasics
    <3>2. ~(depth + 1 >= MaxDepth) /\ depth + 1 <= k + 1
      BY <1>18, <2>5, <3>1
    <3> QED
      BY <1>5, <1>21, <3>2, ListsApart
  <2>7. IsChain(f, k + 1)'
    BY <1>7, <2>1, <2>3, <2>4 DEF IsChain
  <2>8. (joining # Nobody => k + 1 > 0 /\ f[0] = owner[target[joining]])'
    BY <1>5, <1>18, <2>1, <2>2
  <2>9. /\ base'[y] <= prio'[y]
        /\ \A u \in Task : NextInChain(u)' = y /\ u # w => prio'[u] <= prio'[y]
    BY <1>5, <1>7, <1>8, <1>16, <1>21 DEF Fair, Backs
  <2>10. \A i \in 0 .. k : prio'[f[i]] = IF i = k THEN q ELSE prio[p[i]]
    BY <1>19, <2>1
  <2>11. ASSUME NEW i \in 0 .. k + 1, NEW j \in 0 .. k + 1, i <= j, j < k + 1
         PROVE  /\ prio'[f[i]] <= prio'[f[j]]
                /\ prio'[f[j]] <= prio'[f[i]] \/ prio'[f[j]] <= prio'[y]
    <3>1. i \in 0 .. k /\ j \in 0 .. k /\ prio[p[i]] \in Int /\ prio[p[j]] \in Int
      BY <1>17, <2>11
    <3>2. CASE j < k
      <4>1. prio'[f[i]] = prio[p[i]] /\ prio'[f[j]] = prio[p[j]]
        BY <2>10, <2>11, <3>1, <3>2
      <4>2. /\ prio[p[i]] <= prio[p[j]]
            /\ prio[p[j]] <= prio[p[i]] \/ prio[p[j]] <= prio[w]
        BY <1>18, <2>11, <3>1, <3>2
      <4> QED
        BY <1>16, <1>21, <3>1, <4>1, <4>2
    <3>3. CASE j = k /\ i = k
      BY <1>9, <2>10, <3>1, <3>3
    <3>4. CASE j = k /\ i < k
      <4>1. prio'[f[i]] = prio[p[i]] /\ prio'[f[j]] = q
        BY <2>10, <3>1, <3>4
      <4>2. k > 0 /\ k - 1 \in 0 .. k /\ i <= k - 1 /\ k - 1 < k
        BY <3>1, <3>4
      <4>3. /\ prio[p[i]] <= prio[p[k - 1]]
            /\ prio[p[k - 1]] <= prio[p[i]] \/ prio[p[k - 1]] <= prio[w]
            /\ prio[p[k - 1]] \in Int
        BY <1>17, <1>18, <3>1, <4>2
      <4>4. prio[p[k - 1]] <= q /\ (q = prio[p[k - 1]] \/ q <= prio[w])
        BY <1>9, <4>2
      <4> QED
        BY <1>9, <1>16, <1>21, <3>1, <4>1, <4>3, <4>4
    <3> QED
      BY <2>11, <3>1, <3>2, <3>3, <3>4
  <2>12. Climbs(f, k + 1)'
    <3>1. (k + 1) - 1 = k /\ f[k] = w /\ k + 1 > 0
      BY <1>9, <2>1, <2>2
    <3>2. /\ base'[walk'] <= prio'[walk']
          /\ \A u \in Task :
                NextInChain(u)' = walk' /\ u # f[(k + 1) - 1] => prio'[u] <= prio'[walk']
      BY <2>6, <2>9, <3>1
    <3>3. f[k + 1] = walk' /\ depth' <= k + 1
      BY <2>1, <2>6
    <3>4. \A i, j \in 0 .. k + 1 : i <= j /\ j < k + 1 =>
             /\ prio'[f[i]] <= prio'[f[j]]
             /\ prio'[f[j]] <= prio'[f[i]] \/ prio'[f[j]] <= prio'[walk']
      BY <2>6, <2>11
    <3> QED
      BY <2>7, <2>8, <3>2, <3>3, <3>4 DEF Climbs
  <2>13. Climbing'
    BY <1>14, <2>2, <2>6, <2>12 DEF Climbing
  <2> QED
    BY <1>10, <1>21, <2>6, <2>13, ListsApart DEF PrioInv
<1> QED
  BY <1>6, <1>15, <1>20, <1>21

-----------------------------------------------------------------------------
(* Every step.                                                             *)

\* Who leaves the waiter list of a mutex by the control of t is one task: t
\* itself, or the one that is woken in its place.
LEMMA OneDeparts ==
    ASSUME IInv, NEW t \in Task
    PROVE  /\ {t} \cap Queued \in SUBSET Task
           /\ \A u, v \in {t} \cap Queued : u = v
           /\ ({t} \cup Compensating(t)) \cap Queued \in SUBSET Task
           /\ \A u, v \in ({t} \cup Compensating(t)) \cap Queued : u = v
<1>1. WInv
  BY DEF IInv
<1>2. Compensating(t) \subseteq Task
  BY <1>1, CompensatingMember
<1>3. ASSUME NEW u \in Compensating(t)
      PROVE  t \notin Queued /\ Compensating(t) = {u}
  <2>1. state[t] = "READY" /\ Compensating(t) = {u}
    BY <1>1, <1>3, CompensatingMember DEF Unconsumed
  <2> QED
    BY <1>1, <2>1, QueuedBlocked DEF BlockedAt
<1> QED
  BY <1>2, <1>3

\* A wake brings no task to life.
LEMMA LiveWoken ==
    ASSUME IInv, NEW s \in WaitList, Wakes(s, {})
    PROVE  \A t \in Task : Live(t)' => Live(t)
<1>1. \A u \in Waking(s) : state[u] = "BLOCKED"
  BY WakesFacts DEF IInv
<1> QED
  BY <1>1 DEF Wakes, Live

\* Nor does the end of a wait, the control of a task, or a switch.
LEMMA LiveControlled ==
    ASSUME IInv, NEW u \in Task,
           \/ Expire(u) \/ Pause(u) \/ Delete(u) \/ Dispatch(u) \/ SwitchOut(u)
           \/ Start(u)
           \/ WaitBegin(u) /\ Executing(u)
    PROVE  \A t \in Task : Live(t)' => Live(t)
<1>1. WInv /\ state \in [Task -> {"INACTIVE", "SUSPENDED", "READY", "RUNNING", "BLOCKED"}]
  BY Basics DEF IInv
<1>2. CASE Expire(u)
  <2>1. state[u] = "BLOCKED"
    BY <1>1, <1>2 DEF Expire, WInv, WaitersExact
  <2> QED
    BY <1>1, <1>2, <2>1 DEF Expire, Live
<1>3. CASE Pause(u) \/ Delete(u)
  <2>1. Live(u) /\ \A v \in Compensating(u) : Live(v)
    BY <1>1, <1>3, CompensatingMember DEF Pause, Delete, MayTearDown, Live
  <2> QED
    BY <1>1, <1>3, <2>1 DEF Pause, Delete, Live
<1>4. CASE Dispatch(u) \/ SwitchOut(u)
  BY <1>1, <1>4 DEF Dispatch, SwitchOut, Live
<1>5. CASE Start(u)
  BY <1>1, <1>5 DEF Start, Live
<1>6. CASE WaitBegin(u) /\ Executing(u)
  BY <1>1, <1>6 DEF WaitBegin, Executing, Live
<1> QED
  BY <1>2, <1>3, <1>4, <1>5, <1>6

\* A step that changes nothing of it keeps the invariant.
LEMMA PrioIdle ==
    ASSUME PrioInv,
           UNCHANGED <<prio, base, owner, blockedOn, state, joining, walk, depth, target>>
    PROVE  PrioInv'
<1>1. \A u : NextInChain(u)' = NextInChain(u)
  BY ChainSame
<1>2. \A u, x : Backs(u, x)' <=> Backs(u, x)
  BY <1>1 DEF Backs
<1>3. \A x \in Task : Fair(x)' <=> Fair(x)
  BY <1>2 DEF Fair
<1>4. BoostHeld' /\ (walk = Nobody => FairBut(Nobody)')
  BY <1>3 DEF PrioInv, BoostHeld, FairBut, Live
<1>5. \A p, k : IsChain(p, k)' <=> IsChain(p, k)
  BY <1>1 DEF IsChain
<1>6. ASSUME Climbing
      PROVE  Climbing'
  <2>1. FairBut(walk)'
    BY <1>3, <1>6 DEF Climbing, FairBut, Live
  <2>2. PICK k \in Nat : \E p : Climbs(p, k)
    BY <1>6 DEF Climbing
  <2>3. PICK p : Climbs(p, k)
    BY <2>2
  <2>4. Climbs(p, k)'
    BY <1>1, <1>5, <2>3 DEF Climbs
  <2> QED
    BY <2>1, <2>4 DEF Climbing
<1>7. ASSUME Circling
      PROVE  Circling'
  <2>1. FairBut(Nobody)'
    BY <1>3, <1>7 DEF Circling, FairBut, Live
  <2>2. PICK C : IsCircle(C)
    BY <1>7 DEF Circling
  <2>3. IsCircle(C)'
    BY <1>1, <2>2 DEF IsCircle
  <2> QED
    BY <2>1, <2>3 DEF Circling
<1> QED
  BY <1>4, <1>6, <1>7 DEF PrioInv

\* Every task keeps the priority it is owed, as long as no walk is cut short.
LEMMA PrioStep ==
    ASSUME IInv, PrioInv, ShortChains, [Next]_vars
    PROVE  PrioInv'
<1> USE DEF tcbVars, callVars, waitingVars, mutexVars, ownerVars, edgeVars, sectionVars
<1>1. ASSUME NEW s \in Semaphore, SemStep(s), Quiet, UNCHANGED mutexVars
      PROVE  PrioInv'
  <2>1. UNCHANGED prio /\ (UNCHANGED state \/ Wakes(s, {})) /\ s \in WaitList
    BY <1>1, ListsApart DEF SemStep, SemInit, Give, IsrTake, WakeOne, Wakes
  <2>2. \A t \in Task : Live(t)' => Live(t)
    BY <2>1, LiveWoken, LiveControlled DEF Live
  <2> QED
    BY <1>1, <2>1, <2>2, PrioSame, ListsApart DEF Quiet
<1>2. ASSUME NEW t \in Task, PlainStep(t), Quiet, UNCHANGED mutexVars
      PROVE  PrioInv'
  <2>1. /\ UNCHANGED prio
        /\ \/ UNCHANGED state \/ Dispatch(t) \/ SwitchOut(t)
           \/ WaitBegin(t) /\ Executing(t)
    BY <1>2 DEF PlainStep, TakeStep, TakeOk, TakeFail, TakeBlock, TakeTimedOut, Taking, Trying,
                TimedOut, Finish, WaitBegin, Call, Resume, Dispatch, SwitchOut
  <2>2. \A u \in Task : Live(u)' => Live(u)
    BY <2>1, LiveWoken, LiveControlled DEF Live
  <2> QED
    BY <1>2, <2>1, <2>2, PrioSame, ListsApart DEF Quiet
<1>3. CASE WalkStep
  <2>1. walk # Nobody
    BY <1>3 DEF WalkStep
  <2> QED
    BY <1>3, <2>1, CircleFair, ClimbFair DEF PrioInv
<1>4. ASSUME NEW m \in Mutex, Release(m)
      PROVE  PrioInv'
  <2>1. /\ walk = Nobody /\ joining = Nobody /\ joining' = Nobody
        /\ Wakes(m, {}) /\ Depart(Waking(m)) /\ m \in WaitList
        /\ UNCHANGED <<prio, base, owner>>
    BY <1>4, ListsApart DEF Release, IInv, SectionExact, WakeOne, Wakes
  <2>2. Waking(m) \in SUBSET Task /\ \A t, u \in Waking(m) : t = u
    BY <2>1, WakesFacts DEF IInv, Waking
  <2>3. \A t \in Task : Live(t)' => Live(t)
    BY <2>1, LiveWoken, LiveControlled DEF Live
  <2> QED
    BY <2>1, <2>2, <2>3, DepartFair
<1>5. ASSUME NEW t \in Task, NEW m \in Mutex, LockFail(t, m) \/ LockTimedOut(t, m)
      PROVE  PrioInv'
  <2>1. /\ walk = Nobody /\ joining = Nobody /\ joining' = Nobody
        /\ Depart({t}) /\ UNCHANGED <<prio, base, owner, state>>
    BY <1>5 DEF LockFail, LockTimedOut, Locking, Quiet, TimedOut, Finish
  <2>2. \A u \in Task : Live(u)' => Live(u)
    BY <2>1 DEF Live
  <2>3. {t} \in SUBSET Task /\ \A u, v \in {t} : u = v
    OBVIOUS
  <2> QED
    BY <2>1, <2>2, <2>3, DepartFair
<1>6. ASSUME NEW t \in Task, ExpireWait(t) \/ StartTask(t)
      PROVE  PrioInv'
  <2>1. /\ walk = Nobody /\ joining = Nobody /\ joining' = Nobody
        /\ Depart({t} \cap Queued) /\ UNCHANGED <<prio, base, owner>>
        /\ Expire(t) \/ Start(t)
    BY <1>6 DEF ExpireWait, StartTask, Quiet, Expire, Start
  <2>2. \A u \in Task : Live(u)' => Live(u)
    BY <2>1, LiveWoken, LiveControlled DEF Live
  <2> QED
    BY <2>1, <2>2, OneDeparts, DepartFair
<1>7. ASSUME NEW t \in Task, PauseTask(t)
      PROVE  PrioInv'
  <2>1. /\ walk = Nobody /\ joining = Nobody /\ joining' = Nobody
        /\ Depart(({t} \cup Compensating(t)) \cap Queued) /\ UNCHANGED <<prio, base, owner>>
        /\ Pause(t)
    BY <1>7 DEF PauseTask, Quiet, Pause
  <2>2. \A u \in Task : Live(u)' => Live(u)
    BY <2>1, LiveWoken, LiveControlled DEF Live
  <2> QED
    BY <2>1, <2>2, OneDeparts, DepartFair
<1>8. ASSUME NEW t \in Task, DeleteTask(t)
      PROVE  PrioInv'
  <2>1. /\ walk = Nobody /\ joining = Nobody /\ joining' = Nobody
        /\ Depart(({t} \cup Compensating(t)) \cap Queued) /\ UNCHANGED <<prio, base>>
        /\ Delete(t)
    BY <1>8 DEF DeleteTask, Quiet, Delete
  <2>2. \A u \in Task : Live(u)' => Live(u)
    BY <2>1, LiveWoken, LiveControlled DEF Live
  <2>3. ~Live(t)'
    BY <2>1 DEF Delete, Live
  <2>4. \A m \in Mutex : owner'[m] = IF owner[m] = t THEN Gone ELSE owner[m]
    BY <1>8 DEF DeleteTask
  <2>5. \A m \in Mutex : \/ owner'[m] = owner[m]
                       \/ /\ owner'[m] \notin Task
                          /\ \A u \in Task : owner[m] = u => ~Live(u)'
    BY <2>3, <2>4, ListsApart
  <2> QED
    BY <2>1, <2>2, <2>5, OneDeparts, DepartFair
<1>9. CASE UNCHANGED vars
  <2>1. UNCHANGED <<prio, base, owner, blockedOn, state, joining, walk, depth, target>>
    BY <1>9 DEF vars
  <2> QED
    BY <2>1, PrioIdle
<1> QED
  BY <1>1, <1>2, <1>3, <1>4, <1>5, <1>6, <1>7, <1>8, <1>9, LockOkFair, UnlockFair, BoostFair,
     JoinFair, CreateFair, PrioritySetFair
  DEF Next, SectionStep, MutexCallStep, TaskStep

\* The priorities are fair at first.
LEMMA PrioInit == Init => PrioInv
<1> SUFFICES ASSUME Init
             PROVE  PrioInv
  OBVIOUS
<1>1. /\ base = prio /\ walk = Nobody /\ joining = Nobody
      /\ \A t \in Task : NextInChain(t) = Nobody /\ prio[t] \in Int
  <2>1. IInv
    BY InitIInv
  <2> QED
    BY <2>1, PrioBasics DEF Init, MutexesInit, NextInChain
<1> QED
  BY <1>1, ListsApart DEF PrioInv, BoostHeld, FairBut, Fair, Backs

\* As long as no chain of waits is longer than a walk may follow, every live
\* task has between critical sections exactly the priority it is owed: not below
\* its base priority or a task that waits behind it, and above its base priority
\* only by the priority of one that does.  A boost is neither missed nor left
\* behind, whatever ends a wait, and though a walk in a circle is cut.
THEOREM PriorityAlwaysExact == Spec => ([]ShortChains => []PriorityExact)
<1>1. Init => PrioInv
  BY PrioInit
<1>2. IInv /\ PrioInv /\ ShortChains /\ [Next]_vars => PrioInv'
  BY PrioStep
<1>3. IInv /\ PrioInv => PriorityExact
  <2> SUFFICES ASSUME IInv, PrioInv, Quiet, NEW t \in Task, Live(t)
               PROVE  /\ \A u \in BehindOf(t) : prio[u] <= prio[t]
                      /\ prio[t] >= base[t]
                      /\ prio[t] > base[t] => \E u \in BehindOf(t) : prio[u] = prio[t]
    BY DEF PriorityExact
  <2>1. Fair(t)
    BY QuietFair, ListsApart DEF FairBut, Quiet
  <2>2. \A u : u \in BehindOf(t) <=> u \in Task /\ Backs(u, t)
    BY BehindExact, ListsApart DEF Backs, Quiet
  <2> QED
    BY <2>1, <2>2 DEF Fair
<1> QED
  BY <1>1, <1>2, <1>3, Invariance, PTL DEF Spec

\* In particular where there are no more tasks than a walk may visit.
THEOREM PriorityOfFewExact ==
    ASSUME Cardinality(Task) <= MaxDepth
    PROVE  Spec => []PriorityExact
<1>1. ShortChains
  <2> SUFFICES ASSUME NEW k \in Nat, NEW p \in [0 .. k -> Task], IsChain(p, k), ~(k < MaxDepth)
               PROVE  FALSE
    BY DEF ShortChains
  <2>1. IsFiniteSet(0 .. k) /\ Cardinality(0 .. k) = k + 1
    BY FS_Interval
  <2>2. IsFiniteSet(Task) /\ Cardinality(Task) \in Nat /\ MaxDepth \in Nat
    BY WaitingAssumption, MutexAssumption, FS_CardinalityType
  <2>3. Cardinality(Task) < Cardinality(0 .. k)
    BY <2>1, <2>2
  <2>4. PICK i, j \in 0 .. k : i # j /\ p[i] = p[j]
    BY <2>1, <2>2, <2>3, FS_PigeonHole
  <2> QED
    BY <2>4 DEF IsChain
<1> QED
  BY <1>1, PriorityAlwaysExact, PTL

-----------------------------------------------------------------------------
(* Endless cycles.                                                         *)

\* The mutex that os_task_mutex_deadlock_check visits after m.
NextLink(m) ==
    LET holder == IF m = NoList THEN Nobody ELSE FindById(owner[m])
    IN  IF holder # Nobody /\ blockedForever[holder] THEN blockedOn[holder] ELSE NoList

\* links are the mutexes it visits from m on, up to the n-th.
IsLinks(links, m, n) ==
    links = [i \in 0 .. n |-> IF i = 0 THEN m ELSE NextLink(links[i - 1])]

\* The tasks of S wait for ever for one another.
Endless(S) == S # {} /\ \A t \in S : blockedForever[t] /\ owner[blockedOn[t]] \in S

\* The check of the task that is about to join has not been overtaken.
CheckHeld ==
    asserting /\ joining # Nobody /\ timeout[joining] = "forever"
       => ~DeadlockCheck(joining, target[joining])

CycleInv == CheckHeld /\ NoEndlessCycle

\* There are such mutexes, any number of them.
LEMMA LinksExist ==
    ASSUME NEW m, NEW n \in Nat
    PROVE  \E links : IsLinks(links, m, n)
<1> DEFINE Stuck == {i \in Nat : ~ \E links : IsLinks(links, m, i)}
<1>1. SUFFICES ASSUME Stuck # {}
               PROVE  FALSE
  OBVIOUS
<1>2. PICK least \in Stuck : \A j \in Stuck : least <= j
  <2>1. Stuck \subseteq Nat
    OBVIOUS
  <2> HIDE DEF Stuck
  <2> QED
    BY <1>1, <2>1, LeastNatural
<1>3. least # 0
  <2>1. IsLinks([i \in 0 .. 0 |-> m], m, 0)
    BY DEF IsLinks
  <2> QED
    BY <2>1
<1>4. least - 1 \in Nat /\ least - 1 \notin Stuck
  BY <1>2, <1>3
<1>5. PICK links : IsLinks(links, m, least - 1)
  BY <1>4
<1> DEFINE more == [i \in 0 .. least |-> IF i < least THEN links[i] ELSE NextLink(links[i - 1])]
<1>6. ASSUME NEW i \in 0 .. least
      PROVE  more[i] = IF i = 0 THEN m ELSE NextLink(more[i - 1])
  <2>1. CASE i = 0
    <3>1. links[0] = m
      BY <1>4, <1>5 DEF IsLinks
    <3> QED
      BY <1>3, <2>1, <3>1
  <2>2. CASE i # 0 /\ i < least
    <3>1. i \in 0 .. least - 1 /\ i - 1 \in 0 .. least /\ i - 1 < least
      BY <2>2
    <3>2. links[i] = NextLink(links[i - 1])
      BY <1>5, <2>2, <3>1 DEF IsLinks
    <3> QED
      BY <2>2, <3>1, <3>2
  <2>3. CASE i # 0 /\ i = least
    <3>1. i - 1 \in 0 .. least /\ i - 1 < least
      BY <2>3
    <3> QED
      BY <2>3, <3>1
  <2> QED
    BY <2>1, <2>2, <2>3
<1>7. IsLinks(more, m, least)
  <2>1. more = [i \in 0 .. least |-> more[i]]
    OBVIOUS
  <2> HIDE DEF more
  <2>2. [i \in 0 .. least |-> more[i]]
           = [i \in 0 .. least |-> IF i = 0 THEN m ELSE NextLink(more[i - 1])]
    BY <1>6
  <2> QED
    BY <2>1, <2>2 DEF IsLinks
<1> HIDE DEF more
<1> QED
  BY <1>2, <1>7

\* The mutexes visited, one after the other.
LEMMA LinkFacts ==
    ASSUME NEW m
    PROVE  /\ Link(m)[0] = m
           /\ \A n \in 1 .. MaxDepth - 1 : Link(m)[n] = NextLink(Link(m)[n - 1])
<1> DEFINE links == CHOOSE links : IsLinks(links, m, MaxDepth - 1)
<1>1. MaxDepth - 1 \in Nat
  BY MutexAssumption
<1>2. IsLinks(links, m, MaxDepth - 1)
  BY <1>1, LinksExist
<1>3. Link(m) = links
  BY DEF Link, IsLinks, NextLink
<1> HIDE DEF links
<1>4. links[0] = m
  BY <1>1, <1>2 DEF IsLinks
<1>5. ASSUME NEW n \in 1 .. MaxDepth - 1
      PROVE  links[n] = NextLink(links[n - 1])
  <2>1. n \in 0 .. MaxDepth - 1 /\ n # 0
    BY <1>1
  <2> QED
    BY <1>2, <2>1 DEF IsLinks
<1> QED
  BY <1>3, <1>4, <1>5

\* A set of tasks that wait for ever for one another, all but t, and t for
\* mutex m of one of them, does not escape the check of t: it visits them one
\* after the other until it meets t, or a task twice, and in between those two
\* visits lies a cycle without t.
LEMMA CheckFinds ==
    ASSUME IInv, NEW t \in Task, NEW m \in Mutex, NEW S \in SUBSET Task, t \in S,
           Cardinality(S) <= MaxDepth, owner[m] \in S, ~DeadlockCheck(t, m),
           \A u \in S : u # t => blockedForever[u] /\ owner[blockedOn[u]] \in S
    PROVE  \E T \in SUBSET S : Endless(T) /\ Cardinality(T) <= MaxDepth
<1> DEFINE x(n) == owner[Link(m)[n]]
           Off == {n \in 0 .. MaxDepth - 1 : ~ (Link(m)[n] \in Mutex /\ x(n) \in S \ {t})}
<1>1. MaxDepth \in Nat \ {0} /\ 0 \in 0 .. MaxDepth - 1
  BY MutexAssumption
<1>2. \A n \in 0 .. MaxDepth - 1 : Link(m)[n] \in Mutex => x(n) # t
  BY ListsApart DEF DeadlockCheck
<1>3. Link(m)[0] \in Mutex /\ x(0) \in S \ {t}
  BY <1>1, <1>2, LinkFacts
<1>4. ASSUME NEW u \in S \ {t}
      PROVE  /\ u \in Task /\ blockedForever[u] /\ blockedOn[u] \in Mutex
             /\ owner[blockedOn[u]] \in S
             /\ \A r \in Mutex : owner[r] = u => NextLink(r) = blockedOn[u]
  <2>1. u \in Task /\ blockedForever[u] /\ owner[blockedOn[u]] \in S
    OBVIOUS
  <2>2. blockedOn[u] \in Mutex
    BY <2>1 DEF IInv, EdgesFollow, MutexTypeOK
  <2>3. \A r \in Mutex : owner[r] = u => NextLink(r) = blockedOn[u]
    BY <2>1, ListsApart DEF NextLink, FindById
  <2> QED
    BY <2>1, <2>2, <2>3
<1>5. ASSUME NEW n \in 0 .. MaxDepth - 1, n + 1 \in 0 .. MaxDepth - 1,
             Link(m)[n] \in Mutex, x(n) \in S \ {t}
      PROVE  /\ Link(m)[n + 1] \in Mutex /\ x(n + 1) \in S \ {t}
             /\ x(n + 1) = owner[blockedOn[x(n)]]
  <2>1. n + 1 \in 1 .. MaxDepth - 1 /\ (n + 1) - 1 = n
    BY <1>5
  <2>2. Link(m)[n + 1] = NextLink(Link(m)[n])
    BY <2>1, LinkFacts
  <2>3. NextLink(Link(m)[n]) = blockedOn[x(n)] /\ blockedOn[x(n)] \in Mutex
        /\ owner[blockedOn[x(n)]] \in S
    BY <1>4, <1>5
  <2>4. x(n + 1) # t
    BY <1>2, <1>5, <2>2, <2>3
  <2> QED
    BY <2>2, <2>3, <2>4
<1>6. Off = {}
  <2>1. SUFFICES ASSUME Off # {}
                 PROVE  FALSE
    OBVIOUS
  <2>2. PICK n \in Off : \A k \in Off : n <= k
    <3>1. Off \subseteq Nat
      BY <1>1
    <3> HIDE DEF Off
    <3> QED
      BY <2>1, <3>1, LeastNatural
  <2>3. n # 0
    BY <1>3
  <2>4. n - 1 \in 0 .. MaxDepth - 1 /\ n - 1 \notin Off /\ (n - 1) + 1 = n
    BY <1>1, <2>2, <2>3
  <2> QED
    BY <1>5, <2>2, <2>4
<1>7. \A n \in 0 .. MaxDepth - 1 : Link(m)[n] \in Mutex /\ x(n) \in S \ {t}
  BY <1>6
<1> HIDE DEF x, Off
<1>8. PICK f \in [0 .. MaxDepth - 1 -> S \ {t}] : \A n \in 0 .. MaxDepth - 1 : f[n] = x(n)
  <2> DEFINE g == [n \in 0 .. MaxDepth - 1 |-> x(n)]
  <2>1. g \in [0 .. MaxDepth - 1 -> S \ {t}] /\ \A n \in 0 .. MaxDepth - 1 : g[n] = x(n)
    BY <1>7
  <2> HIDE DEF g
  <2> QED
    BY <2>1
<1>9. \A n \in 0 .. MaxDepth - 1 : n + 1 \in 0 .. MaxDepth - 1 => f[n + 1] = owner[blockedOn[f[n]]]
  BY <1>5, <1>7, <1>8
<1>10. IsFiniteSet(S) /\ IsFiniteSet(S \ {t}) /\ Cardinality(S) = Cardinality(S \ {t}) + 1
       /\ Cardinality(S \ {t}) \in Nat
  BY WaitingAssumption, FS_Subset, FS_RemoveElement, FS_CardinalityType
<1>11. IsFiniteSet(0 .. MaxDepth - 1) /\ Cardinality(0 .. MaxDepth - 1) = MaxDepth
  <2>1. 0 \in Int /\ MaxDepth - 1 \in Int /\ ~ (0 > MaxDepth - 1)
        /\ (MaxDepth - 1) - 0 + 1 = MaxDepth
    BY <1>1
  <2> QED
    BY <2>1, FS_Interval
<1>12. PICK i, j \in 0 .. MaxDepth - 1 : i < j /\ f[i] = f[j]
  <2>1. Cardinality(S \ {t}) < Cardinality(0 .. MaxDepth - 1)
    BY <1>1, <1>10, <1>11
  <2>2. PICK a, b \in 0 .. MaxDepth - 1 : a # b /\ f[a] = f[b]
    BY <1>10, <1>11, <2>1, FS_PigeonHole
  <2>3. a < b \/ b < a
    BY <2>2
  <2> QED
    BY <2>2, <2>3
<1> DEFINE T == {f[n] : n \in i .. j - 1}
<1>13. \A n \in i .. j - 1 : n \in 0 .. MaxDepth - 1 /\ n + 1 \in 0 .. MaxDepth - 1
  BY <1>1, <1>12
<1>14. T \subseteq S \ {t} /\ T # {}
  <2>1. i \in i .. j - 1
    BY <1>12
  <2> QED
    BY <1>8, <1>13, <2>1
<1>15. ASSUME NEW u \in T
       PROVE  blockedForever[u] /\ owner[blockedOn[u]] \in T
  <2>1. PICK n \in i .. j - 1 : u = f[n]
    OBVIOUS
  <2>2. owner[blockedOn[u]] = f[n + 1]
    BY <1>9, <1>13, <2>1
  <2>3. f[n + 1] \in T
    <3>1. CASE n = j - 1
      <4>1. n + 1 = j /\ i \in i .. j - 1
        BY <1>12, <3>1
      <4> QED
        BY <1>12, <4>1
    <3>2. CASE n # j - 1
      <4>1. n + 1 \in i .. j - 1
        BY <2>1, <3>2
      <4> QED
        BY <4>1
    <3> QED
      BY <3>1, <3>2
  <2> QED
    BY <1>4, <1>14, <2>2, <2>3
<1>16. IsFiniteSet(T) /\ Cardinality(T) <= MaxDepth
  <2> HIDE DEF T
  <2>1. T \in SUBSET S
    BY <1>14
  <2>2. Cardinality(T) <= Cardinality(S) /\ Cardinality(T) \in Nat /\ IsFiniteSet(T)
    BY <1>10, <2>1, FS_Subset, FS_CardinalityType
  <2> QED
    BY <1>1, <1>10, <2>2
<1> HIDE DEF T
<1> QED
  BY <1>14, <1>15, <1>16 DEF Endless

\* Tasks that wait for ever for one another after a step that starts no wait
\* and takes no mutex did so before.
LEMMA EndlessStays ==
    ASSUME IInv, IInv', NEW S \in SUBSET Task, Endless(S)',
           \A u \in S : blockedForever'[u] => blockedForever[u] /\ blockedOn'[u] = blockedOn[u],
           \A r \in Mutex : owner'[r] = owner[r] \/ owner'[r] \notin S
    PROVE  Endless(S)
<1>1. ASSUME NEW u \in S
      PROVE  blockedForever[u] /\ owner[blockedOn[u]] \in S
  <2>1. blockedForever[u] /\ blockedOn'[u] = blockedOn[u] /\ owner'[blockedOn'[u]] \in S
    BY DEF Endless
  <2>2. blockedOn[u] \in Mutex
    BY <2>1 DEF IInv, EdgesFollow, MutexTypeOK
  <2> QED
    BY <2>1, <2>2
<1> QED
  BY <1>1 DEF Endless

\* Only a lock that has to wait draws an edge, and only one that gets its mutex
\* gives it an owner.
LEMMA EdgesShrink ==
    ASSUME IInv, [Next]_vars, \A t \in Task, m \in Mutex : ~LockJoin(t, m) /\ ~LockOk(t, m)
    PROVE  /\ asserting' = asserting
           /\ \A u \in Task :
                 blockedForever'[u] => blockedForever[u] /\ blockedOn'[u] = blockedOn[u]
           /\ \A r \in Mutex : owner'[r] = owner[r] \/ owner'[r] \notin Task
<1>a. MutexTypeOK
  BY DEF IInv
<1> USE DEF mutexVars, ownerVars, edgeVars, sectionVars
<1>1. CASE UNCHANGED <<asserting, owner, blockedOn, blockedForever>>
  BY <1>1
<1>2. ASSUME NEW gone \in SUBSET Task, Depart(gone), UNCHANGED <<asserting, owner>>
      PROVE  /\ asserting' = asserting
             /\ \A u \in Task :
                   blockedForever'[u] => blockedForever[u] /\ blockedOn'[u] = blockedOn[u]
             /\ \A r \in Mutex : owner'[r] = owner[r] \/ owner'[r] \notin Task
  BY <1>2, <1>a, DepartFacts
<1>3. CASE WalkStep
  BY <1>1, <1>3 DEF WalkStep
<1>4. ASSUME NEW m \in Mutex, Release(m)
      PROVE  \E gone \in SUBSET Task : Depart(gone) /\ UNCHANGED <<asserting, owner>>
  <2>1. Waking(m) \in SUBSET Task
    BY WakingMember, Basics, ListsApart DEF IInv
  <2> QED
    BY <1>4, <2>1 DEF Release
<1>5. ASSUME NEW t \in Task, NEW m \in Mutex, LockFail(t, m) \/ LockTimedOut(t, m)
      PROVE  \E gone \in SUBSET Task : Depart(gone) /\ UNCHANGED <<asserting, owner>>
  <2>1. {t} \in SUBSET Task
    OBVIOUS
  <2> QED
    BY <1>5, <2>1 DEF LockFail, LockTimedOut
<1>6. ASSUME NEW t \in Task, ExpireWait(t) \/ StartTask(t) \/ PauseTask(t)
      PROVE  \E gone \in SUBSET Task : Depart(gone) /\ UNCHANGED <<asserting, owner>>
  BY <1>6, OneDeparts DEF ExpireWait, StartTask, PauseTask
<1>7. ASSUME NEW t \in Task, DeleteTask(t)
      PROVE  /\ asserting' = asserting
             /\ \A u \in Task :
                   blockedForever'[u] => blockedForever[u] /\ blockedOn'[u] = blockedOn[u]
             /\ \A r \in Mutex : owner'[r] = owner[r] \/ owner'[r] \notin Task
  <2>1. Depart(({t} \cup Compensating(t)) \cap Queued)
    BY <1>7 DEF DeleteTask
  <2>2. \A u \in Task : blockedForever'[u] => blockedForever[u] /\ blockedOn'[u] = blockedOn[u]
    BY <1>a, <2>1, OneDeparts, DepartFacts
  <2> QED
    BY <1>7, <2>2, ListsApart DEF DeleteTask
<1>8. ASSUME NEW t \in Task, NEW m \in Mutex, Unlock(t, m)
      PROVE  /\ UNCHANGED <<asserting, blockedOn, blockedForever>>
             /\ \A r \in Mutex : owner'[r] = owner[r] \/ owner'[r] \notin Task
  BY <1>8, <1>a, ListsApart DEF Unlock, MutexTypeOK
<1>9. ASSUME NEW t \in Task, NEW m \in Mutex, LockBoost(t, m)
      PROVE  UNCHANGED <<asserting, owner, blockedOn, blockedForever>>
  BY <1>9 DEF LockBoost
<1>10. ASSUME NEW t \in Task, NEW p \in Prio, CreateTask(t, p) \/ PrioritySet(t, p)
       PROVE  UNCHANGED <<asserting, owner, blockedOn, blockedForever>>
  BY <1>10 DEF CreateTask, PrioritySet
<1>11. CASE UNCHANGED mutexVars
  BY <1>1, <1>11
<1>12. \/ UNCHANGED mutexVars
       \/ WalkStep \/ \E m \in Mutex : Release(m)
       \/ \E t \in Task, m \in Mutex :
             LockFail(t, m) \/ LockTimedOut(t, m) \/ Unlock(t, m) \/ LockBoost(t, m)
       \/ \E t \in Task : \/ ExpireWait(t) \/ StartTask(t) \/ PauseTask(t) \/ DeleteTask(t)
                         \/ \E p \in Prio : CreateTask(t, p) \/ PrioritySet(t, p)
  <2> HIDE DEF mutexVars
  <2>1. UNCHANGED vars => UNCHANGED mutexVars
    BY DEF vars
  <2> QED
    BY <2>1 DEF Next, SectionStep, MutexCallStep, TaskStep
<1>13. CASE \E gone \in SUBSET Task : Depart(gone) /\ UNCHANGED <<asserting, owner>>
  BY <1>2, <1>13
<1> HIDE DEF mutexVars, ownerVars, edgeVars, sectionVars
<1>14. ASSUME NEW t \in Task, NEW m \in Mutex,
              LockFail(t, m) \/ LockTimedOut(t, m) \/ Unlock(t, m) \/ LockBoost(t, m)
       PROVE  /\ asserting' = asserting
              /\ \A u \in Task :
                    blockedForever'[u] => blockedForever[u] /\ blockedOn'[u] = blockedOn[u]
              /\ \A r \in Mutex : owner'[r] = owner[r] \/ owner'[r] \notin Task
  BY <1>1, <1>5, <1>8, <1>9, <1>13, <1>14
<1>15. ASSUME NEW t \in Task,
              \/ ExpireWait(t) \/ StartTask(t) \/ PauseTask(t) \/ DeleteTask(t)
              \/ \E p \in Prio : CreateTask(t, p) \/ PrioritySet(t, p)
       PROVE  /\ asserting' = asserting
              /\ \A u \in Task :
                    blockedForever'[u] => blockedForever[u] /\ blockedOn'[u] = blockedOn[u]
              /\ \A r \in Mutex : owner'[r] = owner[r] \/ owner'[r] \notin Task
  BY <1>1, <1>6, <1>7, <1>10, <1>13, <1>15
<1> QED
  BY <1>3, <1>4, <1>11, <1>12, <1>13, <1>14, <1>15

\* While a walk goes on for a task that is about to join, what its check has
\* looked at stays as it is.
LEMMA CheckStep ==
    ASSUME IInv, CheckHeld, [Next]_vars
    PROVE  CheckHeld'
<1> USE DEF mutexVars, ownerVars, edgeVars, sectionVars, waitingVars, callVars
<1>1. ASSUME NEW t \in Task, NEW m \in Mutex, LockBoost(t, m)
      PROVE  CheckHeld'
  <2>1. /\ asserting /\ timeout[t] = "forever" => ~DeadlockCheck(t, m)
        /\ target[t] = m /\ joining' = t
        /\ UNCHANGED <<asserting, timeout, target, owner, blockedOn, blockedForever>>
    BY <1>1 DEF LockBoost, MustWait, Locking, Reprioritize
  <2>2. DeadlockCheck(t, m)' <=> DeadlockCheck(t, m)
    BY <2>1 DEF DeadlockCheck, Link, FindById
  <2> QED
    BY <2>1, <2>2 DEF CheckHeld
<1>2. CASE UNCHANGED <<asserting, timeout, target, owner, blockedOn, blockedForever, joining>>
  <2>1. DeadlockCheck(joining, target[joining])' <=> DeadlockCheck(joining, target[joining])
    BY <1>2 DEF DeadlockCheck, Link, FindById
  <2> QED
    BY <1>2, <2>1 DEF CheckHeld
<1>3. CASE joining' = Nobody
  BY <1>3 DEF CheckHeld
<1>4. CASE WalkStep \/ UNCHANGED vars
  <2>1. UNCHANGED <<asserting, timeout, target, owner, blockedOn, blockedForever, joining>>
    BY <1>4 DEF WalkStep, Reprioritize, vars
  <2> QED
    BY <1>2, <2>1
<1>5. ASSUME NEW m \in Mutex, Release(m)
      PROVE  joining' = Nobody
  BY <1>5, ListsApart DEF Release, IInv, SectionExact
<1>6. ASSUME NEW t \in Task, TaskStep(t)
      PROVE  joining' = Nobody
  BY <1>6 DEF TaskStep, ExpireWait, StartTask, PauseTask, DeleteTask, CreateTask, PrioritySet, Quiet
<1>7. ASSUME NEW t \in Task, MutexCallStep(t), \A m \in Mutex : ~LockBoost(t, m)
      PROVE  joining' = Nobody
  BY <1>7 DEF MutexCallStep, LockOk, LockFail, LockJoin, LockTimedOut, Unlock, Locking, Quiet
<1>8. CASE Quiet /\ UNCHANGED mutexVars
  BY <1>3, <1>8 DEF Quiet
<1> HIDE DEF mutexVars, ownerVars, edgeVars, sectionVars, waitingVars, callVars
<1>9. ASSUME NEW t \in Task, MutexCallStep(t)
      PROVE  CheckHeld'
  BY <1>1, <1>3, <1>7, <1>9
<1> QED
  BY <1>3, <1>4, <1>5, <1>6, <1>8, <1>9 DEF Next, SectionStep

\* No step closes a cycle of endless waits.
LEMMA CycleStep ==
    ASSUME IInv, IInv', CycleInv, [Next]_vars
    PROVE  NoEndlessCycle'
<1>1. SUFFICES ASSUME asserting', NEW S \in SUBSET Task, Cardinality(S) <= MaxDepth, Endless(S)'
               PROVE  FALSE
  BY DEF NoEndlessCycle, Endless
<1>2. ASSUME asserting, NEW T \in SUBSET Task, Cardinality(T) <= MaxDepth, Endless(T)
      PROVE  FALSE
  BY <1>2 DEF CycleInv, NoEndlessCycle, Endless
<1>3. CASE \A t \in Task, m \in Mutex : ~LockJoin(t, m) /\ ~LockOk(t, m)
  <2>1. /\ asserting
        /\ \A u \in S : blockedForever'[u] => blockedForever[u] /\ blockedOn'[u] = blockedOn[u]
        /\ \A r \in Mutex : owner'[r] = owner[r] \/ owner'[r] \notin S
    BY <1>1, <1>3, EdgesShrink
  <2> QED
    BY <1>1, <1>2, <2>1, EndlessStays
<1>4. ASSUME NEW t \in Task, NEW m \in Mutex, LockOk(t, m)
      PROVE  FALSE
  <2>1. /\ asserting' = asserting
        /\ \A u \in Task : blockedForever'[u] = (u # t /\ blockedForever[u])
        /\ \A u \in Task : u # t => blockedOn'[u] = blockedOn[u]
        /\ \A r \in Mutex : owner'[r] = IF r = m THEN t ELSE owner[r]
    BY <1>4 DEF LockOk, Publish, IInv, MutexTypeOK
  <2>2. t \notin S
    BY <1>1, <2>1 DEF Endless
  <2>3. /\ \A u \in S : blockedForever'[u] => blockedForever[u] /\ blockedOn'[u] = blockedOn[u]
        /\ \A r \in Mutex : owner'[r] = owner[r] \/ owner'[r] \notin S
    BY <2>1, <2>2
  <2> QED
    BY <1>1, <1>2, <2>1, <2>3, EndlessStays
<1>5. ASSUME NEW t \in Task, NEW m \in Mutex, LockJoin(t, m)
      PROVE  FALSE
  <2>1. /\ asserting' = asserting /\ UNCHANGED owner /\ target[t] = m
        /\ \A u \in Task : blockedForever'[u] = IF u = t THEN timeout[t] = "forever"
                                                 ELSE blockedForever[u]
        /\ \A u \in Task : blockedOn'[u] = IF u = t THEN m ELSE blockedOn[u]
    BY <1>5 DEF LockJoin, MustWait, Locking, Publish, IInv, MutexTypeOK, ownerVars
  <2>2. CASE t \notin S
    <3>1. /\ \A u \in S : blockedForever'[u] => blockedForever[u] /\ blockedOn'[u] = blockedOn[u]
          /\ \A r \in Mutex : owner'[r] = owner[r] \/ owner'[r] \notin S
      BY <2>1, <2>2
    <3> QED
      BY <1>1, <1>2, <2>1, <3>1, EndlessStays
  <2>3. CASE t \in S
    <3>1. timeout[t] = "forever" /\ owner[m] \in S
      BY <1>1, <2>1, <2>3 DEF Endless
    <3>2. \A u \in S : u # t => blockedForever[u] /\ owner[blockedOn[u]] \in S
      BY <1>1, <2>1 DEF Endless
    <3>3. ~DeadlockCheck(t, m)
      BY <1>1, <1>5, <2>1, <3>1, ListsApart DEF LockJoin, MustWait, CycleInv, CheckHeld
    <3>4. PICK T \in SUBSET S : Endless(T) /\ Cardinality(T) <= MaxDepth
      BY <1>1, <2>3, <3>1, <3>2, <3>3, CheckFinds
    <3> QED
      BY <1>1, <1>2, <2>1, <3>4
  <2> QED
    BY <2>2, <2>3
<1> QED
  BY <1>3, <1>4, <1>5

\* With assertions on no tasks ever wait for ever for one another's mutexes, as
\* long as they are no more than the check visits: though it is made only when
\* a wait begins, no later step, by whomever, closes a cycle behind its back.
THEOREM NeverEndlessCycle == Spec => []NoEndlessCycle
<1>1. Init => CycleInv
  <2> SUFFICES ASSUME Init
               PROVE  CycleInv
    OBVIOUS
  <2>1. joining = Nobody /\ \A t \in Task : ~blockedForever[t]
    BY DEF Init, MutexesInit
  <2> QED
    BY <2>1 DEF CycleInv, CheckHeld, NoEndlessCycle
<1>2. IInv /\ IInv' /\ CycleInv /\ [Next]_vars => CycleInv'
  BY CheckStep, CycleStep DEF CycleInv
<1>3. CycleInv => NoEndlessCycle
  BY DEF CycleInv
<1> QED
  BY <1>1, <1>2, <1>3, Invariance, PTL DEF Spec
=============================================================================
