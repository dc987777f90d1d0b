-------------------------- MODULE SchedulerProofs ---------------------------
(***************************************************************************)
(* The scheduler's safety, for any number of tasks, cores and priorities:  *)
(* its variables keep their types, the ready lists and the bitmap say what *)
(* the task states say, no context is on two cores, a scheduler lock pins  *)
(* its task, and a core that runs a task it may not run has been asked to  *)
(* switch.  On one core, a RUNNING task is the current one and a task that *)
(* outranks it has a switch requested.                                     *)
(*                                                                         *)
(* None of these is inductive alone.  Each call relies on what the others  *)
(* keep true: a task that blocks is in no ready list because the task that *)
(* executes is RUNNING, which in turn holds because nobody else may touch  *)
(* the state of a task that is current on a core.  IInv collects the facts *)
(* that support each other.                                                *)
(***************************************************************************)
EXTENDS Scheduler, OsListProofs, FiniteSetTheorems

-----------------------------------------------------------------------------
(* The inductive invariant.                                                *)

\* A created task has a priority its ready list exists for.
LivePrio == \A t \in Task : Live(t) => prio[t] \in Prio

\* A core that executes its current task, or holds it by a scheduler lock,
\* is the one whose registers hold that task's context.
Owned ==
    \A c \in Core :
        current[c] \in Task /\ (phase[c] = "thread" \/ lockCount[c] > 0)
        => runningCore[current[c]] = c

\* A locked core has a RUNNING task.
LockedRuns ==
    \A c \in Core : lockCount[c] > 0 => current[c] \in Task /\ state[current[c]] = "RUNNING"

\* A task that executes its own code is RUNNING.
TaskRuns == \A c \in Core : InTask(c) => state[current[c]] = "RUNNING"

\* A core's registers hold its current task, unless that has deleted itself.
CpuIsCurrent ==
    \A c \in Core : cpu[c] \in Task => phase[c] = "thread" /\ current[c] \in {cpu[c], None}

\* A core that has not started, or any before os_start, has no current task,
\* and no core switches before os_start.
BootIsEmpty ==
    \A c \in Core :
        /\ phase[c] = "boot" \/ ~running => phase[c] = "boot" /\ current[c] = None
        /\ pendsv[c] => running

CoresExact == Owned /\ LockedRuns /\ TaskRuns /\ CpuIsCurrent /\ BootIsEmpty

IInv == TypeOK /\ QueuesExact /\ LivePrio /\ CoresExact

\* No repetitions in any ready list, and the bitmap names the others.
WellLinked(lists, bits) ==
    /\ lists \in [Prio -> Seq(Task)]
    /\ \A p \in Prio : NoRepeat(lists[p])
    /\ bits = {p \in Prio : lists[p] # << >>}

-----------------------------------------------------------------------------
(* What the helpers do.                                                    *)

\* os_task_unlink takes t out of the list it is in and keeps the bitmap exact.
LEMMA Unlinking ==
    ASSUME IInv, NEW t \in Task
    PROVE  /\ WellLinked(UnlinkedReady(t), UnlinkedBitmap(t))
           /\ \A p \in Prio : Members(UnlinkedReady(t)[p]) = Members(ready[p]) \ {t}
<1>1. /\ ready \in [Prio -> Seq(Task)] /\ bitmap \subseteq Prio
      /\ \A p \in Prio : NoRepeat(ready[p])
      /\ bitmap = {p \in Prio : ready[p] # << >>}
      /\ \A p \in Prio : t \in Members(ready[p]) <=> state[t] = "READY" /\ prio[t] = p
  BY DEF IInv, TypeOK, QueuesExact
<1>2. CASE state[t] # "READY"
  BY <1>1, <1>2 DEF UnlinkedReady, UnlinkedBitmap, WellLinked
<1>3. CASE state[t] = "READY"
  <2> DEFINE p == prio[t]
             shorter == ListRemove(ready[p], t)
  <2>1. p \in Prio
    BY <1>3 DEF IInv, LivePrio, Live
  <2>2. /\ shorter \in Seq(Task)
        /\ NoRepeat(shorter)
        /\ Members(shorter) = Members(ready[p]) \ {t}
    BY <1>1, <2>1, RemoveMembers
  <2>3. UnlinkedReady(t) = [ready EXCEPT ![p] = shorter]
    BY <1>3 DEF UnlinkedReady
  <2>4. UnlinkedBitmap(t) = IF shorter = << >> THEN bitmap \ {p} ELSE bitmap
    BY <1>1, <1>3, <2>1, <2>3 DEF UnlinkedBitmap
  <2>5. p \in bitmap
    BY <1>1, <1>3, <2>1, MembersOfSeq
  <2> HIDE DEF shorter, p
  <2>6. \A q \in Prio : UnlinkedReady(t)[q] = IF q = p THEN shorter ELSE ready[q]
    BY <1>1, <2>1, <2>3
  <2>7. /\ UnlinkedReady(t) \in [Prio -> Seq(Task)]
        /\ \A q \in Prio : NoRepeat(UnlinkedReady(t)[q])
    BY <1>1, <2>1, <2>2, <2>3, <2>6
  <2>8. UnlinkedBitmap(t) = {q \in Prio : UnlinkedReady(t)[q] # << >>}
    BY <1>1, <2>1, <2>4, <2>5, <2>6
  <2>9. ASSUME NEW q \in Prio
        PROVE  Members(UnlinkedReady(t)[q]) = Members(ready[q]) \ {t}
    BY <1>1, <2>2, <2>6 DEF p
  <2> QED
    BY <2>7, <2>8, <2>9 DEF WellLinked
<1> QED
  BY <1>2, <1>3

\* os_task_make_ready links t at the tail of one list and in no other.
LEMMA MakingReady ==
    ASSUME IInv, NEW t \in Task, NEW p \in Prio, MakeReady(t, p)
    PROVE  /\ WellLinked(ready', bitmap')
           /\ \A q \in Prio : Members(ready'[q]) =
                 IF q = p THEN Members(ready[q]) \cup {t} ELSE Members(ready[q]) \ {t}
<1> DEFINE lists == UnlinkedReady(t)
           longer == ListPushBack(lists[p], t)
<1>1. /\ WellLinked(lists, UnlinkedBitmap(t))
      /\ \A q \in Prio : Members(lists[q]) = Members(ready[q]) \ {t}
  BY Unlinking
<1>2. ready' = [lists EXCEPT ![p] = longer] /\ bitmap' = UnlinkedBitmap(t) \cup {p}
  BY DEF MakeReady
<1>3. lists[p] \in Seq(Task)
  BY <1>1 DEF WellLinked
<1> HIDE DEF lists
<1>4. /\ longer \in Seq(Task)
      /\ Members(longer) = Members(lists[p]) \cup {t}
      /\ NoRepeat(lists[p]) /\ t \notin Members(lists[p]) => NoRepeat(longer)
      /\ longer # << >>
  BY <1>3, PushBackMembers
<1> HIDE DEF longer
<1>5. \A q \in Prio : ready'[q] = IF q = p THEN longer ELSE lists[q]
  BY <1>1, <1>2 DEF WellLinked
<1>6. ready' \in [Prio -> Seq(Task)]
  BY <1>1, <1>2, <1>4 DEF WellLinked
<1>7. \A q \in Prio : NoRepeat(ready'[q])
  BY <1>1, <1>4, <1>5 DEF WellLinked
<1>8. bitmap' = {q \in Prio : ready'[q] # << >>}
  BY <1>1, <1>2, <1>4, <1>5 DEF WellLinked
<1>9. ASSUME NEW q \in Prio
      PROVE  Members(ready'[q]) =
                 IF q = p THEN Members(ready[q]) \cup {t} ELSE Members(ready[q]) \ {t}
  BY <1>1, <1>4, <1>5
<1> QED
  BY <1>6, <1>7, <1>8, <1>9 DEF WellLinked

\* A switch request on core c pends PendSV there unless the core is locked.
LEMMA Requesting ==
    ASSUME TypeOK, NEW c \in Core, NEW targets, Request(c, targets)
    PROVE  /\ pendsv' \in [Core -> BOOLEAN]
           /\ switchPending' \in [Core -> BOOLEAN]
           /\ ipi' \in [Core -> BOOLEAN]
           /\ \A d \in Core : pendsv[d] => pendsv'[d]
           /\ c \in targets /\ lockCount[c] = 0 => pendsv'[c]
BY DEF TypeOK, Request

\* Queueing tasks at the tails of their lists, as the tick does, keeps the
\* lists repetition-free and their bitmap exact.
LEMMA Expiring ==
    ASSUME IInv, NEW c \in Core, NEW due \in SUBSET delayed, Tick(c, due)
    PROVE  /\ WellLinked(ready', bitmap')
           /\ \A q \in Prio : Members(ready'[q]) =
                 Members(ready[q]) \cup {t \in due : prio[t] = q}
<1>1. /\ ready \in [Prio -> Seq(Task)] /\ bitmap \subseteq Prio
      /\ \A p \in Prio : NoRepeat(ready[p])
      /\ bitmap = {p \in Prio : ready[p] # << >>}
      /\ \A p \in Prio, t \in Task : t \in Members(ready[p]) => state[t] = "READY"
      /\ \A t \in due : t \in Task /\ state[t] = "BLOCKED" /\ prio[t] \in Prio
  BY DEF IInv, TypeOK, QueuesExact, LivePrio, Live
<1>2. PICK order \in [Prio -> UNION {Orders(S) : S \in SUBSET due}] :
         /\ \A p \in Prio : Members(order[p]) = {t \in due : prio[t] = p}
         /\ ready' = [p \in Prio |-> ready[p] \o order[p]]
  BY DEF Tick
<1>3. bitmap' = bitmap \cup {prio[t] : t \in due}
  BY DEF Tick
<1>4. ASSUME NEW q \in Prio
      PROVE  /\ ready'[q] \in Seq(Task)
             /\ NoRepeat(ready'[q])
             /\ Members(ready'[q]) = Members(ready[q]) \cup {t \in due : prio[t] = q}
             /\ ready'[q] # << >> <=> q \in bitmap'
  <2>1. PICK S \in SUBSET due : order[q] \in Orders(S)
    BY <1>2
  <2>2. S \subseteq Task /\ IsFiniteSet(S) /\ Cardinality(S) \in Nat
    BY <1>1, FS_Subset, FS_CardinalityType, ConfigAssumption
  <2>3. order[q] \in [1 .. Cardinality(S) -> S] /\ NoRepeat(order[q])
    BY <2>1 DEF Orders
  <2>4. order[q] \in Seq(Task)
    BY <2>2, <2>3, SeqDef
  <2>5. Members(ready[q]) \cap Members(order[q]) = {}
    <3>1. Members(ready[q]) \subseteq Task
      BY <1>1, MembersOfSeq
    <3> QED
      BY <1>1, <1>2, <3>1
  <2>6. ready[q] \in Seq(Task) /\ NoRepeat(ready[q])
    BY <1>1
  <2>7. /\ ready[q] \o order[q] \in Seq(Task)
        /\ Members(ready[q] \o order[q]) = Members(ready[q]) \cup Members(order[q])
        /\ NoRepeat(ready[q] \o order[q])
    BY <2>3, <2>4, <2>5, <2>6, ConcatMembers
  <2>8. ready'[q] = ready[q] \o order[q]
    BY <1>2
  <2>9. ready'[q] # << >> <=> q \in bitmap'
    <3>1. ready'[q] # << >> <=> Members(ready'[q]) # {}
      BY <2>7, <2>8, MembersOfSeq
    <3>2. ready[q] # << >> <=> Members(ready[q]) # {}
      BY <2>6, MembersOfSeq
    <3> QED
      BY <1>1, <1>2, <1>3, <2>7, <2>8, <3>1, <3>2
  <2> QED
    BY <1>2, <2>7, <2>8, <2>9
<1>5. ready' \in [Prio -> Seq(Task)]
  <2>1. ready' = [q \in Prio |-> ready'[q]]
    BY <1>2
  <2> QED
    BY <1>4, <2>1
<1>6. bitmap' \subseteq Prio
  BY <1>1, <1>3
<1> QED
  BY <1>4, <1>5, <1>6 DEF WellLinked

-----------------------------------------------------------------------------
(* Types.                                                                  *)

\* Every step of the scheduler preserves the types.
LEMMA TypeStep ==
    ASSUME IInv, [Next]_vars
    PROVE  TypeOK'
<1> USE DEF taskVars, queueVars, requestVars, coreVars
<1> TypeOK
  BY DEF IInv
<1>1. CASE KernelStart
  BY <1>1, ConfigAssumption DEF KernelStart, TypeOK, Core
<1>2. ASSUME NEW c \in Core, CoreStart(c)
      PROVE  TypeOK'
  BY <1>2 DEF CoreStart, TypeOK
<1>3. ASSUME NEW c \in Core, Yield(c)
      PROVE  TypeOK'
  BY <1>3, Requesting DEF Yield, TypeOK
<1>4. ASSUME NEW c \in Core, NEW timed \in BOOLEAN, Block(c, timed)
      PROVE  TypeOK'
  BY <1>4, Requesting DEF Block, TypeOK, InTask, State
<1>5. ASSUME NEW c \in Core, Lock(c)
      PROVE  TypeOK'
  BY <1>5, ConfigAssumption DEF Lock, TypeOK
<1>6. ASSUME NEW c \in Core, Unlock(c)
      PROVE  TypeOK'
  <2>1. lockCount' \in [Core -> 0 .. MaxLock]
    BY <1>6, ConfigAssumption DEF Unlock, TypeOK
  <2>2. pendsv' \in [Core -> BOOLEAN] /\ switchPending' \in [Core -> BOOLEAN]
    BY <1>6 DEF Unlock, TypeOK
  <2> QED
    BY <1>6, <2>1, <2>2 DEF Unlock, TypeOK
<1>7. ASSUME NEW c \in Core, NEW due \in SUBSET delayed, Tick(c, due)
      PROVE  TypeOK'
  <2>1. ready' \in [Prio -> Seq(Task)] /\ bitmap' \subseteq Prio
    BY <1>7, Expiring DEF WellLinked
  <2>2. SliceAfterTick(c) \in 0 .. TimeSlice
    BY ConfigAssumption DEF TypeOK, SliceAfterTick
  <2>3. /\ pendsv' \in [Core -> BOOLEAN]
        /\ switchPending' \in [Core -> BOOLEAN]
        /\ ipi' \in [Core -> BOOLEAN]
    BY <1>7, Requesting DEF Tick
  <2>4. /\ state' \in [Task -> State]
        /\ sliceLeft' \in [Core -> 0 .. TimeSlice]
        /\ delayed' \subseteq Task
    BY <1>7, <2>2 DEF Tick, TypeOK, State
  <2> QED
    BY <1>7, <2>1, <2>3, <2>4 DEF Tick, TypeOK
<1>8. ASSUME NEW c \in Core, IpiDeliver(c)
      PROVE  TypeOK'
  BY <1>8 DEF IpiDeliver, TypeOK
<1>9. ASSUME NEW c \in Core, FirstPendSV(c)
      PROVE  TypeOK'
  BY <1>9 DEF FirstPendSV, TypeOK
<1>10. ASSUME NEW c \in Core, Save(c)
      PROVE  TypeOK'
  <2>1. CASE current[c] \in Task /\ state[current[c]] = "RUNNING" /\ ~Pinned(c)
    <3>1. prio[current[c]] \in Prio
      BY <2>1 DEF IInv, LivePrio, Live
    <3>2. MakeReady(current[c], prio[current[c]])
      BY <1>10, <2>1 DEF Save
    <3>3. ready' \in [Prio -> Seq(Task)] /\ bitmap' \subseteq Prio
      BY <2>1, <3>1, <3>2, MakingReady DEF WellLinked
    <3> QED
      BY <1>10, <2>1, <3>2, <3>3 DEF Save, MakeReady, TypeOK, State
  <2>2. CASE ~(current[c] \in Task /\ state[current[c]] = "RUNNING") \/ Pinned(c)
    BY <1>10, <2>2 DEF Save, TypeOK, NoCore
  <2> QED
    BY <2>1, <2>2
<1>11. ASSUME NEW c \in Core, SelectPinned(c)
      PROVE  TypeOK'
  BY <1>11 DEF SelectPinned, Dispatch, TypeOK
<1>12. ASSUME NEW c \in Core, SelectTask(c)
      PROVE  TypeOK'
  <2>1. PICK p \in bitmap : \E i \in DOMAIN ready[p] :
           /\ ready' = [ready EXCEPT ![p] = ListRemove(@, ready[p][i])]
           /\ bitmap' = IF ListRemove(ready[p], ready[p][i]) = << >>
                        THEN bitmap \ {p} ELSE bitmap
           /\ state' = [state EXCEPT ![ready[p][i]] = "RUNNING"]
           /\ runningCore' = [runningCore EXCEPT ![ready[p][i]] = c]
           /\ Dispatch(c, ready[p][i])
    BY <1>12 DEF SelectTask
  <2>2. PICK i \in DOMAIN ready[p] :
           /\ ready' = [ready EXCEPT ![p] = ListRemove(@, ready[p][i])]
           /\ bitmap' = IF ListRemove(ready[p], ready[p][i]) = << >>
                        THEN bitmap \ {p} ELSE bitmap
           /\ state' = [state EXCEPT ![ready[p][i]] = "RUNNING"]
           /\ runningCore' = [runningCore EXCEPT ![ready[p][i]] = c]
           /\ Dispatch(c, ready[p][i])
    BY <2>1
  <2>3. p \in Prio /\ ready[p] \in Seq(Task)
    BY DEF TypeOK
  <2>4. ready[p][i] \in Task
    BY <2>3, ElementOfSeq, LenProperties
  <2>5. ListRemove(ready[p], ready[p][i]) \in Seq(Task)
    BY <2>3, RemoveMembers
  <2> QED
    BY <1>12, <2>2, <2>3, <2>4, <2>5, ConfigAssumption
    DEF SelectTask, Dispatch, TypeOK, State
<1>13. ASSUME NEW c \in Core, SelectIdle(c)
      PROVE  TypeOK'
  BY <1>13, ConfigAssumption DEF SelectIdle, Dispatch, TypeOK
<1>14. ASSUME NEW c \in Core, NEW t \in Task, NEW p \in Prio, NEW mask \in AffinityMask,
              Create(c, t, p, mask)
       PROVE  TypeOK'
  BY <1>14 DEF Create, TypeOK, State
<1>15. ASSUME NEW c \in Core, NEW t \in Task, Start(c, t)
       PROVE  TypeOK'
  <2>1. prio[t] \in Prio
    BY <1>15 DEF Start, IInv, LivePrio
  <2>2. /\ pendsv' \in [Core -> BOOLEAN]
        /\ switchPending' \in [Core -> BOOLEAN]
        /\ ipi' \in [Core -> BOOLEAN]
    <3>1. Request(c, IF running THEN Nudge(c, t, prio[t]) ELSE {})
      BY <1>15 DEF Start, RequestIfRunning
    <3> QED
      BY <3>1, Requesting
  <2>3. CASE IsCurrent(t)
    <3>1. ready' \in [Prio -> Seq(Task)] /\ bitmap' \subseteq Prio
      BY <1>15, <2>3, Unlinking DEF Start, Unlink, WellLinked
    <3> QED
      BY <1>15, <2>2, <2>3, <3>1 DEF Start, Unlink, TypeOK, State
  <2>4. CASE ~IsCurrent(t)
    BY <1>15, <2>1, <2>2, <2>4, MakingReady DEF Start, MakeReady, WellLinked, TypeOK, State
  <2> QED
    BY <2>3, <2>4
<1>16. ASSUME NEW c \in Core, NEW t \in Task, Pause(c, t)
       PROVE  TypeOK'
  <2>1. /\ pendsv' \in [Core -> BOOLEAN]
        /\ switchPending' \in [Core -> BOOLEAN]
        /\ ipi' \in [Core -> BOOLEAN]
    BY <1>16, Requesting DEF Pause, RequestIfRunning
  <2> QED
    BY <1>16, <2>1, Unlinking DEF Pause, Unlink, WellLinked, TypeOK, State
<1>17. ASSUME NEW c \in Core, NEW t \in Task, Delete(c, t)
       PROVE  TypeOK'
  <2>1. /\ pendsv' \in [Core -> BOOLEAN]
        /\ switchPending' \in [Core -> BOOLEAN]
        /\ ipi' \in [Core -> BOOLEAN]
    BY <1>17, Requesting DEF Delete, RequestIfRunning
  <2> QED
    BY <1>17, <2>1, Unlinking DEF Delete, Unlink, WellLinked, TypeOK, State
<1>18. ASSUME NEW c \in Core, NEW t \in Task, NEW p \in Prio, PrioritySet(c, t, p)
       PROVE  TypeOK'
  <2>1. /\ pendsv' \in [Core -> BOOLEAN]
        /\ switchPending' \in [Core -> BOOLEAN]
        /\ ipi' \in [Core -> BOOLEAN]
    BY <1>18, Requesting DEF PrioritySet, RequestIfRunning
  <2>2. CASE state[t] = "READY"
    BY <1>18, <2>1, <2>2, MakingReady DEF PrioritySet, MakeReady, WellLinked, TypeOK, State
  <2>3. CASE state[t] # "READY"
    BY <1>18, <2>1, <2>3 DEF PrioritySet, TypeOK
  <2> QED
    BY <2>2, <2>3
<1>19. ASSUME NEW c \in Core, NEW t \in Task, NEW mask \in AffinityMask, AffinitySet(c, t, mask)
       PROVE  TypeOK'
  <2>1. /\ pendsv' \in [Core -> BOOLEAN]
        /\ switchPending' \in [Core -> BOOLEAN]
        /\ ipi' \in [Core -> BOOLEAN]
    BY <1>19, Requesting DEF AffinitySet, RequestIfRunning
  <2> QED
    BY <1>19, <2>1 DEF AffinitySet, TypeOK
<1>20. ASSUME NEW c \in Core, NEW t \in Task, Wake(c, t)
       PROVE  TypeOK'
  <2>1. prio[t] \in Prio
    BY <1>20 DEF Wake, IInv, LivePrio, Live
  <2>2. /\ pendsv' \in [Core -> BOOLEAN]
        /\ switchPending' \in [Core -> BOOLEAN]
        /\ ipi' \in [Core -> BOOLEAN]
    BY <1>20, Requesting DEF Wake
  <2> QED
    BY <1>20, <2>1, <2>2, MakingReady DEF Wake, MakeReady, WellLinked, TypeOK, State
<1>21. CASE UNCHANGED vars
  BY <1>21 DEF vars, TypeOK
<1> QED
  BY <1>1, <1>2, <1>3, <1>4, <1>5, <1>6, <1>7, <1>8, <1>9, <1>10, <1>11, <1>12, <1>13,
     <1>14, <1>15, <1>16, <1>17, <1>18, <1>19, <1>20, <1>21
  DEF Next, CoreStep, TaskApi, Select

-----------------------------------------------------------------------------
(* The ready queue.                                                        *)

\* What TypeOK' is needed for below.
LEMMA PrioFunction == IInv => prio \in [Task -> Prio \cup {0}] /\ state \in [Task -> State]
BY DEF IInv, TypeOK

\* A step that moves t to the tail of its ready list, and changes no other
\* task, keeps the queue exact.
LEMMA MakeReadyQueues ==
    ASSUME IInv, NEW t \in Task, NEW p \in Prio, MakeReady(t, p),
           prio' = [prio EXCEPT ![t] = p]
    PROVE  QueuesExact' /\ LivePrio'
<1>1. /\ WellLinked(ready', bitmap')
      /\ \A q \in Prio : Members(ready'[q]) =
            IF q = p THEN Members(ready[q]) \cup {t} ELSE Members(ready[q]) \ {t}
  BY MakingReady
<1>2. /\ \A u \in Task : state'[u] = IF u = t THEN "READY" ELSE state[u]
      /\ \A u \in Task : prio'[u] = IF u = t THEN p ELSE prio[u]
      /\ delayed' = delayed \ {t}
  BY PrioFunction DEF MakeReady
<1>3. ASSUME NEW q \in Prio, NEW u \in Task
      PROVE  u \in Members(ready'[q]) <=> state'[u] = "READY" /\ prio'[u] = q
  <2>1. u \in Members(ready[q]) <=> state[u] = "READY" /\ prio[u] = q
    BY DEF IInv, QueuesExact
  <2> QED
    BY <1>1, <1>2, <2>1
<1>4. \A u \in delayed' : state'[u] = "BLOCKED"
  BY <1>2 DEF IInv, QueuesExact, TypeOK
<1>5. LivePrio'
  BY <1>2 DEF IInv, LivePrio, Live
<1> QED
  BY <1>1, <1>3, <1>4, <1>5 DEF QueuesExact, WellLinked

\* A step that takes t out of the queue for good keeps the queue exact.
LEMMA UnlinkQueues ==
    ASSUME IInv, NEW t \in Task, Unlink(t),
           NEW s \in State \ {"READY", "BLOCKED"},
           state' = [state EXCEPT ![t] = s],
           \A u \in Task \ {t} : prio'[u] = prio[u],
           s # "INACTIVE" => prio'[t] \in Prio
    PROVE  QueuesExact' /\ LivePrio'
<1>1. /\ WellLinked(ready', bitmap')
      /\ \A q \in Prio : Members(ready'[q]) = Members(ready[q]) \ {t}
      /\ delayed' = delayed \ {t}
  BY Unlinking DEF Unlink
<1>2. \A u \in Task : state'[u] = IF u = t THEN s ELSE state[u]
  BY PrioFunction
<1>3. ASSUME NEW q \in Prio, NEW u \in Task
      PROVE  u \in Members(ready'[q]) <=> state'[u] = "READY" /\ prio'[u] = q
  <2>1. u \in Members(ready[q]) <=> state[u] = "READY" /\ prio[u] = q
    BY DEF IInv, QueuesExact
  <2> QED
    BY <1>1, <1>2, <2>1
<1>4. \A u \in delayed' : state'[u] = "BLOCKED"
  BY <1>1, <1>2 DEF IInv, QueuesExact, TypeOK
<1>5. LivePrio'
  BY <1>2 DEF IInv, LivePrio, Live
<1> QED
  BY <1>1, <1>3, <1>4, <1>5 DEF QueuesExact, WellLinked

\* A step that leaves the queue alone, and no task becomes READY or stops
\* being READY, keeps the queue exact.
LEMMA OtherQueues ==
    ASSUME IInv, UNCHANGED queueVars,
           \A u \in Task : state'[u] = "READY" <=> state[u] = "READY",
           \A u \in Task : state[u] = "READY" => prio'[u] = prio[u],
           \A u \in delayed' : state'[u] = "BLOCKED",
           \A u \in Task : state'[u] # "INACTIVE" => prio'[u] \in Prio
    PROVE  QueuesExact' /\ LivePrio'
BY DEF IInv, QueuesExact, LivePrio, Live, queueVars

\* Every step of the scheduler keeps the queue exact.
LEMMA QueuesStep ==
    ASSUME IInv, [Next]_vars
    PROVE  QueuesExact' /\ LivePrio'
<1> DEFINE Goal == QueuesExact' /\ LivePrio'
<1>1. /\ state \in [Task -> State] /\ prio \in [Task -> Prio \cup {0}]
      /\ \A u \in delayed : u \in Task /\ state[u] = "BLOCKED"
      /\ \A u \in Task : state[u] # "INACTIVE" => prio[u] \in Prio
  BY DEF IInv, TypeOK, QueuesExact, LivePrio, Live
<1>2. ASSUME UNCHANGED <<state, prio, delayed, ready, bitmap>>
      PROVE  Goal
  BY <1>1, <1>2, OtherQueues DEF queueVars
<1> HIDE DEF Goal
<1>3. CASE KernelStart
  BY <1>3, <1>2 DEF KernelStart, taskVars, queueVars, Goal
<1>4. ASSUME NEW c \in Core, CoreStart(c)
      PROVE  Goal
  BY <1>4, <1>2 DEF CoreStart, taskVars, queueVars
<1>5. ASSUME NEW c \in Core, Yield(c)
      PROVE  Goal
  BY <1>5, <1>2 DEF Yield, taskVars, queueVars
<1>6. ASSUME NEW c \in Core, NEW timed \in BOOLEAN, Block(c, timed)
      PROVE  Goal
  <2> DEFINE t == current[c]
  <2>1. t \in Task /\ state[t] = "RUNNING"
    BY <1>6 DEF Block, IInv, CoresExact, TaskRuns, InTask
  <2>2. /\ UNCHANGED queueVars /\ UNCHANGED prio
        /\ \A u \in Task : state'[u] = IF u = t THEN "BLOCKED" ELSE state[u]
        /\ delayed' \subseteq delayed \cup {t}
    BY <1>6, <1>1 DEF Block
  <2> HIDE DEF t
  <2> QED
    BY <1>1, <2>1, <2>2, OtherQueues DEF Goal
<1>7. ASSUME NEW c \in Core, Lock(c)
      PROVE  Goal
  BY <1>7, <1>2 DEF Lock, taskVars, queueVars
<1>8. ASSUME NEW c \in Core, Unlock(c)
      PROVE  Goal
  BY <1>8, <1>2 DEF Unlock, taskVars, queueVars
<1>9. ASSUME NEW c \in Core, NEW due \in SUBSET delayed, Tick(c, due)
      PROVE  Goal
  <2>1. /\ WellLinked(ready', bitmap')
        /\ \A q \in Prio : Members(ready'[q]) =
              Members(ready[q]) \cup {t \in due : prio[t] = q}
    BY <1>9, Expiring
  <2>2. /\ UNCHANGED prio
        /\ delayed' = delayed \ due
        /\ \A u \in Task : state'[u] = IF u \in due THEN "READY" ELSE state[u]
    BY <1>9 DEF Tick
  <2>3. ASSUME NEW q \in Prio, NEW u \in Task
        PROVE  u \in Members(ready'[q]) <=> state'[u] = "READY" /\ prio'[u] = q
    <3>1. u \in Members(ready[q]) <=> state[u] = "READY" /\ prio[u] = q
      BY DEF IInv, QueuesExact
    <3> QED
      BY <1>1, <2>1, <2>2, <3>1
  <2>4. \A u \in delayed' : state'[u] = "BLOCKED"
    BY <1>1, <2>2
  <2>5. LivePrio'
    BY <1>1, <2>2 DEF LivePrio, Live
  <2> QED
    BY <2>1, <2>3, <2>4, <2>5 DEF QueuesExact, WellLinked, Goal
<1>10. ASSUME NEW c \in Core, IpiDeliver(c)
      PROVE  Goal
  BY <1>10, <1>2 DEF IpiDeliver, taskVars, queueVars
<1>11. ASSUME NEW c \in Core, FirstPendSV(c)
      PROVE  Goal
  BY <1>11, <1>2 DEF FirstPendSV, taskVars, queueVars
<1>12. ASSUME NEW c \in Core, Save(c)
      PROVE  Goal
  <2>1. CASE current[c] \in Task /\ state[current[c]] = "RUNNING" /\ ~Pinned(c)
    <3> DEFINE t == current[c]
    <3>1. t \in Task /\ prio[t] \in Prio /\ MakeReady(t, prio[t]) /\ UNCHANGED prio
      BY <1>12, <1>1, <2>1 DEF Save
    <3> HIDE DEF t
    <3> QED
      BY <1>1, <3>1, MakeReadyQueues DEF Goal
  <2>2. CASE ~(current[c] \in Task /\ state[current[c]] = "RUNNING") \/ Pinned(c)
    BY <1>12, <1>2, <2>2 DEF Save, taskVars, queueVars
  <2> QED
    BY <2>1, <2>2
<1>13. ASSUME NEW c \in Core, SelectPinned(c)
      PROVE  Goal
  BY <1>13, <1>2 DEF SelectPinned, taskVars, queueVars
<1>14. ASSUME NEW c \in Core, SelectTask(c)
      PROVE  Goal
  <2>1. PICK p \in bitmap, t \in Task :
           /\ t \in Members(ready[p])
           /\ ready' = [ready EXCEPT ![p] = ListRemove(@, t)]
           /\ bitmap' = IF ListRemove(ready[p], t) = << >> THEN bitmap \ {p} ELSE bitmap
           /\ state' = [state EXCEPT ![t] = "RUNNING"]
    <3>1. PICK p \in bitmap : \E i \in DOMAIN ready[p] :
             /\ ready' = [ready EXCEPT ![p] = ListRemove(@, ready[p][i])]
             /\ bitmap' = IF ListRemove(ready[p], ready[p][i]) = << >>
                          THEN bitmap \ {p} ELSE bitmap
             /\ state' = [state EXCEPT ![ready[p][i]] = "RUNNING"]
      BY <1>14 DEF SelectTask
    <3>2. Members(ready[p]) \subseteq Task
      BY MembersOfSeq DEF IInv, TypeOK
    <3> QED
      BY <3>1, <3>2 DEF Members
  <2>2. p \in Prio /\ state[t] = "READY" /\ prio[t] = p
    BY <2>1 DEF IInv, TypeOK, QueuesExact
  <2>3. UnlinkedReady(t) = ready'
    BY <2>1, <2>2 DEF UnlinkedReady
  <2>4. UnlinkedBitmap(t) = bitmap'
    BY <2>1, <2>2, <2>3 DEF UnlinkedBitmap, IInv, TypeOK
  <2>5. delayed' = delayed \ {t} /\ UNCHANGED prio
    BY <1>14, <1>1, <2>2 DEF SelectTask
  <2>6. Unlink(t)
    BY <2>3, <2>4, <2>5 DEF Unlink
  <2> QED
    BY <1>1, <2>1, <2>2, <2>5, <2>6, UnlinkQueues DEF Goal, State
<1>15. ASSUME NEW c \in Core, SelectIdle(c)
      PROVE  Goal
  BY <1>15, <1>2 DEF SelectIdle, taskVars, queueVars
<1>16. ASSUME NEW c \in Core, NEW t \in Task, NEW p \in Prio, NEW mask \in AffinityMask,
              Create(c, t, p, mask)
       PROVE  Goal
  <2>1. /\ UNCHANGED queueVars /\ UNCHANGED delayed
        /\ state[t] = "INACTIVE"
        /\ \A u \in Task : state'[u] = IF u = t THEN "SUSPENDED" ELSE state[u]
        /\ \A u \in Task : prio'[u] = IF u = t THEN p ELSE prio[u]
    BY <1>16, <1>1 DEF Create
  <2> QED
    BY <1>1, <2>1, OtherQueues DEF Goal
<1>17. ASSUME NEW c \in Core, NEW t \in Task, Start(c, t)
       PROVE  Goal
  <2>1. prio[t] \in Prio /\ UNCHANGED prio
    BY <1>17, <1>1 DEF Start, Live
  <2>2. CASE IsCurrent(t)
    <3>1. Unlink(t) /\ state' = [state EXCEPT ![t] = "RUNNING"]
      BY <1>17, <2>2 DEF Start
    <3> QED
      BY <2>1, <3>1, UnlinkQueues DEF Goal, State
  <2>3. CASE ~IsCurrent(t)
    <3>1. MakeReady(t, prio[t])
      BY <1>17, <2>3 DEF Start
    <3> QED
      BY <1>1, <2>1, <3>1, MakeReadyQueues DEF Goal
  <2> QED
    BY <2>2, <2>3
<1>18. ASSUME NEW c \in Core, NEW t \in Task, Pause(c, t)
       PROVE  Goal
  <2>1. /\ Unlink(t) /\ state' = [state EXCEPT ![t] = "SUSPENDED"]
        /\ UNCHANGED prio /\ prio[t] \in Prio
    BY <1>18, <1>1 DEF Pause, Live
  <2> QED
    BY <2>1, UnlinkQueues DEF Goal, State
<1>19. ASSUME NEW c \in Core, NEW t \in Task, Delete(c, t)
       PROVE  Goal
  <2>1. /\ Unlink(t) /\ state' = [state EXCEPT ![t] = "INACTIVE"]
        /\ \A u \in Task \ {t} : prio'[u] = prio[u]
    BY <1>19, <1>1 DEF Delete
  <2> QED
    BY <2>1, UnlinkQueues DEF Goal, State
<1>20. ASSUME NEW c \in Core, NEW t \in Task, NEW p \in Prio, PrioritySet(c, t, p)
       PROVE  Goal
  <2>1. prio' = [prio EXCEPT ![t] = p]
    BY <1>20 DEF PrioritySet
  <2>2. CASE state[t] = "READY"
    BY <1>20, <2>1, <2>2, MakeReadyQueues DEF PrioritySet, Goal
  <2>3. CASE state[t] # "READY"
    <3>1. UNCHANGED queueVars /\ UNCHANGED state /\ UNCHANGED delayed
      BY <1>20, <2>3 DEF PrioritySet, queueVars
    <3>2. \A u \in Task : prio'[u] = IF u = t THEN p ELSE prio[u]
      BY <1>1, <2>1
    <3> QED
      BY <1>1, <2>3, <3>1, <3>2, OtherQueues DEF Goal
  <2> QED
    BY <2>2, <2>3
<1>21. ASSUME NEW c \in Core, NEW t \in Task, NEW mask \in AffinityMask, AffinitySet(c, t, mask)
       PROVE  Goal
  BY <1>21, <1>2 DEF AffinitySet, queueVars
<1>22. ASSUME NEW c \in Core, NEW t \in Task, Wake(c, t)
       PROVE  Goal
  <2>1. MakeReady(t, prio[t]) /\ UNCHANGED prio /\ prio[t] \in Prio
    BY <1>22, <1>1 DEF Wake
  <2> QED
    BY <1>1, <2>1, MakeReadyQueues DEF Goal
<1>23. CASE UNCHANGED vars
  BY <1>23, <1>2 DEF vars, taskVars, queueVars, Goal
<1> QED
  BY <1>3, <1>4, <1>5, <1>6, <1>7, <1>8, <1>9, <1>10, <1>11, <1>12, <1>13, <1>14, <1>15,
     <1>16, <1>17, <1>18, <1>19, <1>20, <1>21, <1>22, <1>23
  DEF Next, CoreStep, TaskApi, Select, Goal

-----------------------------------------------------------------------------
(* The cores.                                                              *)

\* A request withdraws no other, and asks for nothing before os_start.
LEMMA RequestingIfRunning ==
    ASSUME TypeOK, NEW c \in Core, NEW targets, RequestIfRunning(c, targets)
    PROVE  /\ \A d \in Core : pendsv[d] => pendsv'[d]
           /\ \A d \in Core : ~running /\ pendsv'[d] => pendsv[d]
           /\ running /\ c \in targets /\ lockCount[c] = 0 => pendsv'[c]
BY DEF TypeOK, RequestIfRunning, Request

\* A step that switches no core keeps the cores exact, if each task that
\* executes or is held by a scheduler lock stays RUNNING or, unlocked, has a
\* switch pended on its core.
LEMMA CoresFrame ==
    ASSUME IInv, UNCHANGED <<current, cpu, runningCore, lockCount, phase, running>>,
           \A c \in Core : pendsv[c] => pendsv'[c],
           \A c \in Core : ~running /\ pendsv'[c] => pendsv[c],
           \A c \in Core :
              /\ current[c] \in Task /\ state[current[c]] = "RUNNING"
              /\ phase[c] = "thread" \/ lockCount[c] > 0
              => \/ state'[current[c]] = "RUNNING"
                 \/ lockCount[c] = 0 /\ pendsv'[c]
    PROVE  CoresExact'
<1>1. Owned'
  BY DEF IInv, CoresExact, Owned
<1>2. LockedRuns'
  BY DEF IInv, CoresExact, LockedRuns, TypeOK
<1>3. TaskRuns'
  <2>1. SUFFICES ASSUME NEW c \in Core, InTask(c)'
                 PROVE  state'[current[c]] = "RUNNING"
    BY DEF TaskRuns
  <2>2. InTask(c) /\ ~pendsv'[c]
    BY <2>1 DEF InTask
  <2> QED
    BY <2>2 DEF IInv, CoresExact, TaskRuns, InTask
<1>4. CpuIsCurrent'
  BY DEF IInv, CoresExact, CpuIsCurrent
<1>5. BootIsEmpty'
  BY DEF IInv, CoresExact, BootIsEmpty, TypeOK
<1> QED
  BY <1>1, <1>2, <1>3, <1>4, <1>5 DEF CoresExact

\* A task that executes on c executes on, or is locked to, no other core, and
\* the kernel has started.
LEMMA ExecutesOnce ==
    ASSUME IInv, NEW c \in Core, phase[c] = "thread", current[c] \in Task
    PROVE  /\ running
           /\ \A d \in Core : current[d] = current[c] /\ (phase[d] = "thread" \/ lockCount[d] > 0)
                => d = c
BY DEF IInv, CoresExact, Owned, BootIsEmpty

\* Every step of the scheduler keeps the cores exact.
LEMMA CoresStep ==
    ASSUME IInv, [Next]_vars
    PROVE  CoresExact'
<1> USE DEF taskVars, queueVars, requestVars, coreVars
<1>1. /\ TypeOK
      /\ state \in [Task -> State] /\ current \in [Core -> Task \cup {Idle, None}]
      /\ lockCount \in [Core -> 0 .. MaxLock]
      /\ \A u \in delayed : u \in Task /\ state[u] = "BLOCKED"
  BY DEF IInv, TypeOK, QueuesExact
<1>2. /\ Owned /\ LockedRuns /\ TaskRuns /\ CpuIsCurrent /\ BootIsEmpty
      /\ None \notin Task /\ Idle \notin Task /\ NoCore \notin Core
  BY ConfigAssumption DEF IInv, CoresExact, NoCore, Core
<1>3. CASE KernelStart
  <2>1. CoresExact' <=> (Owned /\ LockedRuns /\ TaskRuns /\ CpuIsCurrent /\ BootIsEmpty)'
    BY DEF CoresExact
  <2>2. TaskRuns' /\ BootIsEmpty'
    BY <1>3, <1>2 DEF KernelStart, TaskRuns, BootIsEmpty, InTask
  <2> QED
    BY <1>3, <1>2, <2>1, <2>2 DEF KernelStart, Owned, LockedRuns, CpuIsCurrent
<1>4. ASSUME NEW c \in Core, CoreStart(c)
      PROVE  CoresExact'
  BY <1>4, <1>1, CoresFrame DEF CoreStart, TypeOK
<1>5. ASSUME NEW c \in Core, Yield(c)
      PROVE  CoresExact'
  <2>1. running
    BY <1>5, ExecutesOnce DEF Yield, InTask
  <2> QED
    BY <1>5, <1>1, <2>1, CoresFrame, Requesting DEF Yield
<1>6. ASSUME NEW c \in Core, NEW timed \in BOOLEAN, Block(c, timed)
      PROVE  CoresExact'
  <2>1. phase[c] = "thread" /\ current[c] \in Task /\ running /\ lockCount[c] = 0
    BY <1>6 DEF Block, InTask
  <2>2. /\ \A d \in Core : pendsv[d] => pendsv'[d]
        /\ pendsv'[c]
    BY <1>6, <1>1, Requesting DEF Block
  <2>3. \A u \in Task : state'[u] = IF u = current[c] THEN "BLOCKED" ELSE state[u]
    BY <1>6, <1>1 DEF Block
  <2>4. \A d \in Core : current[d] = current[c] /\ (phase[d] = "thread" \/ lockCount[d] > 0)
                => d = c
    BY <2>1, ExecutesOnce
  <2>5. UNCHANGED <<current, cpu, runningCore, lockCount, phase, running>>
    BY <1>6 DEF Block
  <2> QED
    BY <2>1, <2>2, <2>3, <2>4, <2>5, CoresFrame
<1>7. ASSUME NEW c \in Core, Lock(c)
      PROVE  CoresExact'
  <2>1. Owned' /\ LockedRuns'
    BY <1>7, <1>1, <1>2 DEF Lock, Owned, LockedRuns
  <2>2. TaskRuns' /\ CpuIsCurrent' /\ BootIsEmpty'
    BY <1>7, <1>2 DEF Lock, TaskRuns, InTask, CpuIsCurrent, BootIsEmpty
  <2> QED
    BY <2>1, <2>2 DEF CoresExact
<1>8. ASSUME NEW c \in Core, Unlock(c)
      PROVE  CoresExact'
  <2>1. /\ \A d \in Core : pendsv[d] => pendsv'[d]
        /\ \A d \in Core : ~running /\ pendsv'[d] => pendsv[d]
        /\ \A d \in Core : lockCount'[d] > 0 => lockCount[d] > 0
    BY <1>8, <1>1 DEF Unlock, TypeOK
  <2>2. UNCHANGED <<state, current, cpu, runningCore, phase, running>>
    BY <1>8 DEF Unlock
  <2>3. Owned' /\ LockedRuns'
    BY <1>2, <2>1, <2>2 DEF Owned, LockedRuns
  <2>4. TaskRuns'
    BY <1>2, <2>1, <2>2 DEF TaskRuns, InTask
  <2>5. CpuIsCurrent' /\ BootIsEmpty'
    BY <1>1, <1>2, <2>1, <2>2 DEF CpuIsCurrent, BootIsEmpty, TypeOK
  <2> QED
    BY <2>3, <2>4, <2>5 DEF CoresExact
<1>9. ASSUME NEW c \in Core, NEW due \in SUBSET delayed, Tick(c, due)
      PROVE  CoresExact'
  <2>1. running /\ \A d \in Core : pendsv[d] => pendsv'[d]
    BY <1>9, <1>1, Requesting DEF Tick, InIsr
  <2>2. \A u \in Task : state[u] = "RUNNING" => state'[u] = "RUNNING"
    BY <1>9, <1>1 DEF Tick
  <2>3. UNCHANGED <<current, cpu, runningCore, lockCount, phase, running>>
    BY <1>9 DEF Tick
  <2> QED
    BY <2>1, <2>2, <2>3, CoresFrame
<1>10. ASSUME NEW c \in Core, IpiDeliver(c)
      PROVE  CoresExact'
  BY <1>10, <1>1, CoresFrame DEF IpiDeliver, InIsr, TypeOK
<1>11. ASSUME NEW c \in Core, FirstPendSV(c)
      PROVE  CoresExact'
  <2>1. running /\ current[c] = None
    BY <1>11, <1>2 DEF FirstPendSV, BootIsEmpty
  <2>2. /\ \A d \in Core : phase'[d] = IF d = c THEN "saved" ELSE phase[d]
        /\ \A d \in Core : pendsv'[d] = IF d = c THEN FALSE ELSE pendsv[d]
        /\ UNCHANGED <<state, current, cpu, runningCore, lockCount, running>>
    BY <1>11, <1>1 DEF FirstPendSV, TypeOK
  <2>3. Owned' /\ LockedRuns'
    BY <1>2, <2>1, <2>2 DEF Owned, LockedRuns
  <2>4. TaskRuns' /\ BootIsEmpty'
    BY <1>2, <2>1, <2>2 DEF TaskRuns, InTask, BootIsEmpty
  <2>5. CpuIsCurrent'
    BY <1>11, <1>2, <2>2 DEF FirstPendSV, CpuIsCurrent
  <2> QED
    BY <2>3, <2>4, <2>5 DEF CoresExact
<1>12. ASSUME NEW c \in Core, Save(c)
      PROVE  CoresExact'
  <2>1. /\ phase[c] = "thread" /\ pendsv[c] /\ running
        /\ \A d \in Core : phase'[d] = IF d = c THEN "saved" ELSE phase[d]
        /\ \A d \in Core : pendsv'[d] = IF d = c THEN FALSE ELSE pendsv[d]
        /\ \A d \in Core : cpu'[d] = IF d = c THEN None ELSE cpu[d]
        /\ UNCHANGED <<current, lockCount, running>>
    BY <1>12, <1>1, <1>2 DEF Save, TypeOK, BootIsEmpty
  <2>2. CpuIsCurrent' /\ BootIsEmpty'
    BY <1>2, <2>1 DEF CpuIsCurrent, BootIsEmpty
  <2>3. CASE Pinned(c)
    <3>1. UNCHANGED <<state, runningCore>>
      BY <1>12, <2>3 DEF Save
    <3>2. lockCount[c] > 0
      BY <1>1, <2>3, ConfigAssumption DEF Pinned
    <3>3. Owned' /\ LockedRuns' /\ TaskRuns'
      BY <1>2, <2>1, <3>1, <3>2 DEF Owned, LockedRuns, TaskRuns, InTask
    <3> QED
      BY <2>2, <3>3 DEF CoresExact
  <2>4. CASE ~Pinned(c)
    <3>1. ~(lockCount[c] > 0)
      BY <1>2, <2>4 DEF LockedRuns, Pinned
    <3>2. CASE current[c] \in Task
      <4>1. /\ \A u \in Task : runningCore'[u] = IF u = current[c] THEN NoCore ELSE runningCore[u]
            /\ \A u \in Task : u # current[c] => state'[u] = state[u]
        BY <1>12, <1>1, <2>4, <3>2 DEF Save, MakeReady, TypeOK
      <4>2. \A d \in Core \ {c} :
               phase[d] = "thread" \/ lockCount[d] > 0 => current[d] # current[c]
        BY <2>1, <3>2, ExecutesOnce
      <4>3. Owned'
        BY <1>2, <2>1, <3>1, <4>1, <4>2 DEF Owned
      <4>4. LockedRuns'
        BY <1>2, <2>1, <3>1, <4>1, <4>2 DEF LockedRuns
      <4>5. TaskRuns'
        <5>1. SUFFICES ASSUME NEW d \in Core, InTask(d)'
                       PROVE  state'[current[d]] = "RUNNING"
          BY <2>1 DEF TaskRuns
        <5>2. d # c /\ InTask(d)
          BY <2>1, <5>1 DEF InTask
        <5> QED
          BY <1>2, <4>1, <4>2, <5>2 DEF TaskRuns, InTask
      <4> QED
        BY <2>2, <4>3, <4>4, <4>5 DEF CoresExact
    <3>3. CASE current[c] \notin Task
      <4>1. UNCHANGED <<state, runningCore>>
        BY <1>12, <2>4, <3>3 DEF Save
      <4>2. Owned' /\ LockedRuns' /\ TaskRuns'
        BY <1>2, <2>1, <3>3, <4>1 DEF Owned, LockedRuns, TaskRuns, InTask
      <4> QED
        BY <2>2, <4>2 DEF CoresExact
    <3> QED
      BY <3>2, <3>3
  <2> QED
    BY <2>3, <2>4
<1>13. ASSUME NEW c \in Core, SelectPinned(c)
      PROVE  CoresExact'
  <2>1. /\ lockCount[c] > 0 /\ current[c] \in Task /\ state[current[c]] = "RUNNING"
        /\ phase[c] = "saved"
    BY <1>13, <1>1, ConfigAssumption DEF SelectPinned, Pinned
  <2>2. /\ UNCHANGED <<state, current, lockCount, running, runningCore, pendsv>>
        /\ \A d \in Core : phase'[d] = IF d = c THEN "thread" ELSE phase[d]
        /\ \A d \in Core : cpu'[d] = IF d = c THEN current[c] ELSE cpu[d]
    BY <1>13, <1>1 DEF SelectPinned, Dispatch, TypeOK
  <2>3. Owned' /\ LockedRuns' /\ TaskRuns' /\ CpuIsCurrent' /\ BootIsEmpty'
    BY <1>2, <2>1, <2>2
    DEF Owned, LockedRuns, TaskRuns, InTask, CpuIsCurrent, BootIsEmpty
  <2> QED
    BY <2>3 DEF CoresExact
<1>14. ASSUME NEW c \in Core, SelectTask(c)
      PROVE  CoresExact'
  <2>1. PICK t \in Task :
           /\ state[t] = "READY"
           /\ Eligible(c, t)
           /\ state' = [state EXCEPT ![t] = "RUNNING"]
           /\ runningCore' = [runningCore EXCEPT ![t] = c]
           /\ Dispatch(c, t)
    <3>1. PICK p \in bitmap : \E i \in DOMAIN ready[p] :
             /\ Eligible(c, ready[p][i])
             /\ state' = [state EXCEPT ![ready[p][i]] = "RUNNING"]
             /\ runningCore' = [runningCore EXCEPT ![ready[p][i]] = c]
             /\ Dispatch(c, ready[p][i])
      BY <1>14 DEF SelectTask
    <3>2. p \in Prio /\ Members(ready[p]) \subseteq Task
      BY MembersOfSeq DEF IInv, TypeOK
    <3>3. \A u \in Members(ready[p]) : state[u] = "READY"
      BY <3>2 DEF IInv, QueuesExact
    <3> QED
      BY <3>1, <3>2, <3>3 DEF Members
  <2>2. /\ phase[c] = "saved" /\ ~(lockCount[c] > 0) /\ running
        /\ UNCHANGED <<lockCount, running, pendsv>>
    BY <1>14, <1>2 DEF SelectTask, LockedRuns, Pinned, BootIsEmpty
  <2>3. /\ \A d \in Core : phase'[d] = IF d = c THEN "thread" ELSE phase[d]
        /\ \A d \in Core : cpu'[d] = IF d = c THEN t ELSE cpu[d]
        /\ \A d \in Core : current'[d] = IF d = c THEN t ELSE current[d]
        /\ \A u \in Task : state'[u] = IF u = t THEN "RUNNING" ELSE state[u]
        /\ \A u \in Task : runningCore'[u] = IF u = t THEN c ELSE runningCore[u]
    BY <1>1, <2>1 DEF Dispatch, TypeOK
  <2>4. ASSUME NEW d \in Core, d # c, current[d] = t
        PROVE  phase[d] # "thread" /\ ~(lockCount[d] > 0)
    <3>1. NumCores > 1
      BY <2>4, ConfigAssumption DEF Core
    <3>2. runningCore[t] = NoCore
      BY <2>1, <3>1 DEF Eligible
    <3> QED
      BY <1>2, <2>4, <3>2 DEF Owned
  <2>5. Owned' /\ LockedRuns'
    BY <1>2, <2>2, <2>3, <2>4 DEF Owned, LockedRuns
  <2>6. TaskRuns' /\ BootIsEmpty'
    BY <1>2, <2>2, <2>3 DEF TaskRuns, InTask, BootIsEmpty
  <2>7. CpuIsCurrent'
    BY <1>2, <2>3 DEF CpuIsCurrent
  <2> QED
    BY <2>5, <2>6, <2>7 DEF CoresExact
<1>15. ASSUME NEW c \in Core, SelectIdle(c)
      PROVE  CoresExact'
  <2>1. /\ phase[c] = "saved" /\ ~(lockCount[c] > 0) /\ running
        /\ UNCHANGED <<state, runningCore, lockCount, running, pendsv>>
    BY <1>15, <1>2 DEF SelectIdle, LockedRuns, Pinned, BootIsEmpty
  <2>2. /\ \A d \in Core : phase'[d] = IF d = c THEN "thread" ELSE phase[d]
        /\ \A d \in Core : cpu'[d] = IF d = c THEN Idle ELSE cpu[d]
        /\ \A d \in Core : current'[d] = IF d = c THEN Idle ELSE current[d]
    BY <1>15, <1>1 DEF SelectIdle, Dispatch, TypeOK
  <2>3. Owned' /\ LockedRuns'
    BY <1>2, <2>1, <2>2 DEF Owned, LockedRuns
  <2>4. TaskRuns' /\ BootIsEmpty' /\ CpuIsCurrent'
    BY <1>2, <2>1, <2>2 DEF TaskRuns, InTask, BootIsEmpty, CpuIsCurrent
  <2> QED
    BY <2>3, <2>4 DEF CoresExact
<1>16. ASSUME NEW c \in Core, NEW t \in Task, NEW p \in Prio, NEW mask \in AffinityMask,
              Create(c, t, p, mask)
       PROVE  CoresExact'
  <2>1. /\ UNCHANGED <<current, cpu, runningCore, lockCount, phase, running, pendsv>>
        /\ \A u \in Task : state[u] = "RUNNING" => state'[u] = "RUNNING"
    BY <1>16, <1>1 DEF Create
  <2> QED
    BY <2>1, CoresFrame
<1>17. ASSUME NEW c \in Core, NEW t \in Task, Start(c, t)
       PROVE  CoresExact'
  <2>1. /\ \A d \in Core : pendsv[d] => pendsv'[d]
        /\ \A d \in Core : ~running /\ pendsv'[d] => pendsv[d]
    <3>1. RequestIfRunning(c, Nudge(c, t, prio[t]))
      BY <1>17 DEF Start
    <3> QED
      BY <1>1, <3>1, RequestingIfRunning
  <2>2. UNCHANGED <<current, cpu, runningCore, lockCount, phase, running>>
    BY <1>17 DEF Start
  <2>3. ASSUME NEW d \in Core, current[d] \in Task, state[current[d]] = "RUNNING"
        PROVE  state'[current[d]] = "RUNNING"
    <3>1. CASE IsCurrent(t)
      BY <1>17, <1>1, <2>3, <3>1 DEF Start
    <3>2. CASE ~IsCurrent(t)
      BY <1>17, <1>1, <2>3, <3>2 DEF Start, MakeReady, IsCurrent
    <3> QED
      BY <3>1, <3>2
  <2> QED
    BY <2>1, <2>2, <2>3, CoresFrame
<1>18. ASSUME NEW c \in Core, NEW t \in Task, Pause(c, t)
       PROVE  CoresExact'
  <2>1. /\ \A d \in Core : pendsv[d] => pendsv'[d]
        /\ \A d \in Core : ~running /\ pendsv'[d] => pendsv[d]
        /\ running /\ current[c] = t /\ lockCount[c] = 0 => pendsv'[c]
    <3>1. RequestIfRunning(c, IF current[c] = t THEN {c} ELSE {})
      BY <1>18 DEF Pause
    <3> QED
      BY <1>1, <3>1, RequestingIfRunning
  <2>2. UNCHANGED <<current, cpu, runningCore, lockCount, phase, running>>
    BY <1>18 DEF Pause
  <2>3. \A u \in Task : u # t => state'[u] = state[u]
    BY <1>18, <1>1 DEF Pause
  <2>4. CASE ~IsCurrent(t)
    BY <2>1, <2>2, <2>3, <2>4, CoresFrame DEF IsCurrent
  <2>5. CASE IsCurrent(t)
    <3>1. /\ current[c] = t /\ lockCount[c] = 0
          /\ InBoot(c) \/ InTask(c)
      BY <1>18, <2>5 DEF Pause, MayTearDown
    <3>2. phase[c] = "thread" /\ running
      BY <1>2, <3>1 DEF InBoot, InTask, BootIsEmpty
    <3>3. \A d \in Core : current[d] = t /\ (phase[d] = "thread" \/ lockCount[d] > 0) => d = c
      BY <3>1, <3>2, ExecutesOnce
    <3> QED
      BY <2>1, <2>2, <2>3, <3>1, <3>2, <3>3, CoresFrame
  <2> QED
    BY <2>4, <2>5
<1>19. ASSUME NEW c \in Core, NEW t \in Task, Delete(c, t)
       PROVE  CoresExact'
  <2>1. /\ \A d \in Core : pendsv[d] => pendsv'[d]
        /\ \A d \in Core : ~running /\ pendsv'[d] => pendsv[d]
    <3>1. RequestIfRunning(c, IF current[c] = t THEN {c} ELSE {})
      BY <1>19 DEF Delete
    <3> QED
      BY <1>1, <3>1, RequestingIfRunning
  <2>2. /\ UNCHANGED <<cpu, lockCount, phase, running>>
        /\ \A d \in Core : current'[d] = IF d = c /\ current[c] = t THEN None ELSE current[d]
        /\ \A u \in Task : u # t => state'[u] = state[u] /\ runningCore'[u] = runningCore[u]
    BY <1>19, <1>1 DEF Delete, TypeOK
  <2>3. ASSUME NEW d \in Core, current'[d] = t
        PROVE  phase[d] # "thread" /\ ~(lockCount[d] > 0)
    <3>1. current[d] = t /\ ~(d = c /\ current[c] = t)
      BY <1>2, <2>2, <2>3
    <3>2. /\ current[c] = t
          /\ InBoot(c) \/ InTask(c)
      BY <1>19, <3>1 DEF Delete, MayTearDown, IsCurrent
    <3>3. phase[c] = "thread"
      BY <1>2, <3>2 DEF InBoot, InTask, BootIsEmpty
    <3> QED
      BY <3>1, <3>2, <3>3, ExecutesOnce
  <2>4. lockCount[c] > 0 => current[c] # t
    BY <1>19, <1>1 DEF Delete, MayTearDown, IsCurrent
  <2>5. Owned' /\ LockedRuns'
    BY <1>2, <2>2, <2>3, <2>4 DEF Owned, LockedRuns
  <2>6. TaskRuns'
    BY <1>2, <2>1, <2>2, <2>3 DEF TaskRuns, InTask
  <2>7. CpuIsCurrent' /\ BootIsEmpty'
    BY <1>2, <2>1, <2>2 DEF CpuIsCurrent, BootIsEmpty
  <2> QED
    BY <2>5, <2>6, <2>7 DEF CoresExact
<1>20. ASSUME NEW c \in Core, NEW t \in Task, NEW p \in Prio, PrioritySet(c, t, p)
       PROVE  CoresExact'
  <2>1. PICK targets : RequestIfRunning(c, targets)
    BY <1>20 DEF PrioritySet
  <2>2. /\ \A d \in Core : pendsv[d] => pendsv'[d]
        /\ \A d \in Core : ~running /\ pendsv'[d] => pendsv[d]
    BY <1>1, <2>1, RequestingIfRunning
  <2>3. /\ UNCHANGED <<current, cpu, runningCore, lockCount, phase, running>>
        /\ \A u \in Task : state[u] = "RUNNING" => state'[u] = "RUNNING"
    BY <1>20, <1>1 DEF PrioritySet, MakeReady
  <2> QED
    BY <2>2, <2>3, CoresFrame
<1>21. ASSUME NEW c \in Core, NEW t \in Task, NEW mask \in AffinityMask, AffinitySet(c, t, mask)
       PROVE  CoresExact'
  <2>1. PICK targets : RequestIfRunning(c, targets)
    BY <1>21 DEF AffinitySet
  <2>2. /\ \A d \in Core : pendsv[d] => pendsv'[d]
        /\ \A d \in Core : ~running /\ pendsv'[d] => pendsv[d]
    BY <1>1, <2>1, RequestingIfRunning
  <2>3. UNCHANGED <<state, current, cpu, runningCore, lockCount, phase, running>>
    BY <1>21 DEF AffinitySet
  <2> QED
    BY <2>2, <2>3, CoresFrame
<1>22. ASSUME NEW c \in Core, NEW t \in Task, Wake(c, t)
       PROVE  CoresExact'
  <2>1. running
    BY <1>22, <1>2 DEF Wake, InTask, InIsr, BootIsEmpty
  <2>2. \A d \in Core : pendsv[d] => pendsv'[d]
    <3>1. Request(c, Nudge(c, t, prio[t]))
      BY <1>22 DEF Wake
    <3> QED
      BY <1>1, <3>1, Requesting
  <2>3. /\ UNCHANGED <<current, cpu, runningCore, lockCount, phase, running>>
        /\ \A u \in Task : state[u] = "RUNNING" => state'[u] = "RUNNING"
    BY <1>22, <1>1 DEF Wake, MakeReady
  <2> QED
    BY <2>1, <2>2, <2>3, CoresFrame
<1>23. CASE UNCHANGED vars
  BY <1>23, CoresFrame DEF vars
<1> QED
  BY <1>3, <1>4, <1>5, <1>6, <1>7, <1>8, <1>9, <1>10, <1>11, <1>12, <1>13, <1>14, <1>15,
     <1>16, <1>17, <1>18, <1>19, <1>20, <1>21, <1>22, <1>23
  DEF Next, CoreStep, TaskApi, Select

-----------------------------------------------------------------------------
(* The theorems.                                                           *)

\* The system starts in IInv: nothing created, no core started.
LEMMA InitIInv == Init => IInv
<1> SUFFICES ASSUME Init
             PROVE  IInv
  OBVIOUS
<1>1. TypeOK
  <2>1. [p \in Prio |-> << >>] \in [Prio -> Seq(Task)]
    BY EmptySeq
  <2>2. TimeSlice \in 0 .. TimeSlice /\ 0 \in 0 .. MaxLock
    BY ConfigAssumption
  <2>3. /\ state \in [Task -> State] /\ prio \in [Task -> Prio \cup {0}]
        /\ affinity \in [Task -> AffinityMask \cup {AnyCore}]
        /\ runningCore \in [Task -> Core \cup {NoCore}]
        /\ delayed \subseteq Task
    BY DEF Init, State
  <2>4. /\ ready \in [Prio -> Seq(Task)] /\ bitmap \subseteq Prio
        /\ current \in [Core -> Task \cup {Idle, None}]
        /\ sliceLeft \in [Core -> 0 .. TimeSlice]
        /\ lockCount \in [Core -> 0 .. MaxLock]
    BY <2>1, <2>2 DEF Init
  <2>5. /\ switchPending \in [Core -> BOOLEAN] /\ pendsv \in [Core -> BOOLEAN]
        /\ ipi \in [Core -> BOOLEAN] /\ phase \in [Core -> {"boot", "thread", "saved"}]
        /\ cpu \in [Core -> Task \cup {Idle, None}] /\ running \in BOOLEAN
    BY DEF Init
  <2> QED
    BY <2>3, <2>4, <2>5 DEF TypeOK
<1>2. QueuesExact
  BY DEF Init, QueuesExact, Members, NoRepeat
<1>3. LivePrio /\ CoresExact
  BY ConfigAssumption
  DEF Init, LivePrio, Live, CoresExact, Owned, LockedRuns, TaskRuns, InTask, CpuIsCurrent,
      BootIsEmpty
<1> QED
  BY <1>1, <1>2, <1>3 DEF IInv

\* IInv holds in every reachable state, whatever interleaving of calls,
\* interrupts and context switches led to it.
THEOREM Invariance == Spec => []IInv
<1>1. Init => IInv
  BY InitIInv
<1>2. IInv /\ [Next]_vars => IInv'
  BY TypeStep, QueuesStep, CoresStep DEF IInv
<1> QED
  BY <1>1, <1>2, PTL DEF Spec

\* The scheduler's variables keep their types.
THEOREM TypeCorrect == Spec => []TypeOK
<1>1. IInv => TypeOK
  BY DEF IInv
<1> QED
  BY <1>1, Invariance, PTL

\* The ready lists hold the READY tasks, each once and at its own priority,
\* and os_task_ready_bitmap names the non-empty ones.
THEOREM QueuesAlwaysExact == Spec => []QueuesExact
<1>1. IInv => QueuesExact
  BY DEF IInv
<1> QED
  BY <1>1, Invariance, PTL

\* On any number of cores, os_task_stack_select_next never loads a context
\* that another core still has in its registers.
THEOREM NeverOnTwoCores == Spec => []OneCore
<1>1. IInv => OneCore
  BY DEF IInv, CoresExact, Owned, CpuIsCurrent, OneCore
<1> QED
  BY <1>1, Invariance, PTL

\* No step switches out a task that holds the scheduler lock of its core.
THEOREM LockAlwaysPins == Spec => LockPinsTask
<1> DEFINE Pins == \A c \in Core : lockCount[c] > 0 => current'[c] = current[c]
<1>1. IInv /\ [Next]_vars => [Pins]_vars
  <2> SUFFICES ASSUME IInv, Next, NEW c \in Core, lockCount[c] > 0
               PROVE  current'[c] = current[c]
    BY DEF Pins
  <2>1. Pinned(c) /\ lockCount[c] # 0 /\ current \in [Core -> Task \cup {Idle, None}]
    BY DEF IInv, CoresExact, LockedRuns, Pinned, TypeOK
  <2>2. ASSUME NEW d \in Core, CoreStep(d)
        PROVE  current'[c] = current[c]
    <3>1. CASE Select(d)
      BY <2>1, <3>1 DEF Select, SelectPinned, SelectTask, SelectIdle, Dispatch
    <3>2. CASE ~Select(d)
      BY <2>2, <3>2
      DEF CoreStep, coreVars, CoreStart, Yield, Block, Lock, Unlock, Tick, IpiDeliver,
          FirstPendSV, Save
    <3> QED
      BY <3>1, <3>2
  <2>3. ASSUME NEW d \in Core, NEW t \in Task, TaskApi(d, t)
        PROVE  current'[c] = current[c]
    <3>1. CASE Delete(d, t)
      BY <2>1, <3>1 DEF Delete, MayTearDown, IsCurrent
    <3>2. CASE ~Delete(d, t)
      BY <2>3, <3>2
      DEF TaskApi, coreVars, Create, Start, Pause, PrioritySet, AffinitySet, Wake
    <3> QED
      BY <3>1, <3>2
  <2>4. CASE KernelStart
    BY <2>4 DEF KernelStart, coreVars
  <2> QED
    BY <2>2, <2>3, <2>4 DEF Next
<1> QED
  BY <1>1, Invariance, PTL DEF Spec, LockPinsTask

-----------------------------------------------------------------------------
(* The requests to switch.                                                 *)

\* A locked core between the halves of a switch remembers that it was asked.
SavedRemembers ==
    \A c \in Core : phase[c] = "saved" /\ lockCount[c] > 0 => switchPending[c]

\* Core c has been asked to switch.
Asked(c) == pendsv[c] \/ ipi[c] \/ (lockCount[c] > 0 /\ switchPending[c])

\* A switch request drops no other, and reaches the cores it is meant for.
LEMMA RequestsAdd ==
    ASSUME TypeOK, NEW c \in Core, NEW targets, Request(c, targets)
    PROVE  \A d \in Core :
               /\ pendsv[d] => pendsv'[d]
               /\ ipi[d] => ipi'[d]
               /\ switchPending[d] => switchPending'[d]
               /\ d \in targets => \/ pendsv'[d] \/ ipi'[d]
                                   \/ lockCount[d] > 0 /\ switchPending'[d]
<1>1. /\ pendsv \in [Core -> BOOLEAN] /\ switchPending \in [Core -> BOOLEAN]
      /\ ipi \in [Core -> BOOLEAN] /\ lockCount \in [Core -> 0 .. MaxLock]
  BY DEF TypeOK
<1>2. ASSUME NEW d \in Core
      PROVE  /\ pendsv'[d] <=> pendsv[d] \/ (d = c /\ c \in targets /\ lockCount[c] = 0)
             /\ switchPending'[d] <=>
                    switchPending[d] \/ (d = c /\ c \in targets /\ lockCount[c] # 0)
             /\ ipi'[d] <=> ipi[d] \/ (d # c /\ d \in targets)
  BY <1>1 DEF Request
<1>3. \A d \in Core : lockCount[d] # 0 => lockCount[d] > 0
  BY <1>1, ConfigAssumption
<1> QED
  BY <1>2, <1>3

\* A step that moves no core and drops no request keeps them.
LEMMA RequestsFrame ==
    ASSUME SavedRemembers, AffinityRequested,
           UNCHANGED <<affinity, current, phase, lockCount>>,
           \A c \in Core : /\ pendsv[c] => pendsv'[c]
                           /\ ipi[c] => ipi'[c] \/ pendsv'[c]
                           /\ switchPending[c] => switchPending'[c]
    PROVE  SavedRemembers' /\ AffinityRequested'
BY DEF SavedRemembers, AffinityRequested, Allowed

\* A core whose current task is not RUNNING is switching, or about to.
LEMMA SwitchIsPended ==
    ASSUME IInv, NEW c \in Core, phase[c] = "thread", current[c] \in Task,
           state[current[c]] # "RUNNING"
    PROVE  pendsv[c]
BY DEF IInv, CoresExact, TaskRuns, InTask

\* Every step keeps the requests for the cores that run an excluded task.
LEMMA AffinityStep ==
    ASSUME IInv, SavedRemembers, AffinityRequested, [Next]_vars
    PROVE  SavedRemembers' /\ AffinityRequested'
<1> USE DEF taskVars, queueVars, requestVars, coreVars
<1>1. /\ TypeOK /\ affinity \in [Task -> AffinityMask \cup {AnyCore}]
      /\ current \in [Core -> Task \cup {Idle, None}]
      /\ lockCount \in [Core -> 0 .. MaxLock] /\ phase \in [Core -> {"boot", "thread", "saved"}]
      /\ pendsv \in [Core -> BOOLEAN] /\ switchPending \in [Core -> BOOLEAN]
      /\ ipi \in [Core -> BOOLEAN]
  BY DEF IInv, TypeOK
<1>2. /\ Owned /\ LockedRuns /\ TaskRuns /\ BootIsEmpty
      /\ None \notin Task /\ Idle \notin Task
  BY ConfigAssumption DEF IInv, CoresExact
<1>3. CASE KernelStart
  BY <1>3, <1>1, RequestsFrame DEF KernelStart
<1>4. ASSUME NEW c \in Core, CoreStart(c)
      PROVE  SavedRemembers' /\ AffinityRequested'
  BY <1>4, <1>1, RequestsFrame DEF CoreStart
<1>5. ASSUME NEW c \in Core, Yield(c)
      PROVE  SavedRemembers' /\ AffinityRequested'
  BY <1>5, <1>1, RequestsAdd, RequestsFrame DEF Yield
<1>6. ASSUME NEW c \in Core, NEW timed \in BOOLEAN, Block(c, timed)
      PROVE  SavedRemembers' /\ AffinityRequested'
  BY <1>6, <1>1, RequestsAdd, RequestsFrame DEF Block
<1>7. ASSUME NEW c \in Core, Lock(c)
      PROVE  SavedRemembers' /\ AffinityRequested'
  <2>1. /\ phase[c] = "thread"
        /\ UNCHANGED <<affinity, current, phase, pendsv, ipi, switchPending>>
        /\ \A d \in Core : d # c => lockCount'[d] = lockCount[d]
        /\ lockCount[c] > 0 => lockCount'[c] > 0
    BY <1>7, <1>1 DEF Lock
  <2> QED
    BY <2>1 DEF SavedRemembers, AffinityRequested, Allowed
<1>8. ASSUME NEW c \in Core, Unlock(c)
      PROVE  SavedRemembers' /\ AffinityRequested'
  <2>1. /\ phase[c] = "thread" /\ running /\ lockCount[c] \in Nat /\ lockCount[c] > 0
        /\ UNCHANGED <<affinity, current, phase, ipi>>
        /\ \A d \in Core : d # c => /\ lockCount'[d] = lockCount[d] /\ pendsv'[d] = pendsv[d]
                                    /\ switchPending'[d] = switchPending[d]
        /\ lockCount'[c] = lockCount[c] - 1
    BY <1>8, <1>1, <1>2 DEF Unlock, InTask, BootIsEmpty
  <2>2. CASE lockCount[c] = 1
    <3>1. pendsv'[c] <=> pendsv[c] \/ switchPending[c]
      BY <1>8, <1>1, <2>1, <2>2 DEF Unlock
    <3> QED
      BY <2>1, <2>2, <3>1 DEF SavedRemembers, AffinityRequested, Allowed
  <2>3. CASE lockCount[c] # 1
    <3>1. lockCount'[c] > 0 /\ pendsv' = pendsv /\ switchPending' = switchPending
      BY <1>8, <2>1, <2>3 DEF Unlock
    <3> QED
      BY <2>1, <3>1 DEF SavedRemembers, AffinityRequested, Allowed
  <2> QED
    BY <2>2, <2>3
<1>9. ASSUME NEW c \in Core, NEW due \in SUBSET delayed, Tick(c, due)
      PROVE  SavedRemembers' /\ AffinityRequested'
  <2>1. PICK targets : Request(c, targets)
    BY <1>9 DEF Tick
  <2>2. UNCHANGED <<affinity, current, phase, lockCount>>
    BY <1>9 DEF Tick
  <2> QED
    BY <1>1, <2>1, <2>2, RequestsAdd, RequestsFrame
<1>10. ASSUME NEW c \in Core, IpiDeliver(c)
      PROVE  SavedRemembers' /\ AffinityRequested'
  BY <1>10, <1>1, RequestsFrame DEF IpiDeliver
<1>11. ASSUME NEW c \in Core, FirstPendSV(c)
      PROVE  SavedRemembers' /\ AffinityRequested'
  <2>1. /\ UNCHANGED <<affinity, current, lockCount, ipi, switchPending>>
        /\ phase'[c] = "saved" /\ ~(lockCount[c] > 0)
        /\ \A d \in Core : d # c => phase'[d] = phase[d] /\ pendsv'[d] = pendsv[d]
    BY <1>11, <1>1, <1>2 DEF FirstPendSV, LockedRuns, BootIsEmpty
  <2> QED
    BY <2>1 DEF SavedRemembers, AffinityRequested, Allowed
<1>12. ASSUME NEW c \in Core, Save(c)
      PROVE  SavedRemembers' /\ AffinityRequested'
  <2>1. /\ UNCHANGED <<affinity, current, lockCount, ipi>>
        /\ phase'[c] = "saved"
        /\ \A d \in Core : d # c => /\ phase'[d] = phase[d] /\ pendsv'[d] = pendsv[d]
                                    /\ switchPending'[d] = switchPending[d]
    BY <1>12, <1>1 DEF Save
  <2>2. lockCount[c] > 0 => switchPending'[c]
    BY <1>12, <1>1, <1>2 DEF Save, LockedRuns, Pinned
  <2> QED
    BY <2>1, <2>2 DEF SavedRemembers, AffinityRequested, Allowed
<1>13. ASSUME NEW c \in Core, SelectPinned(c)
      PROVE  SavedRemembers' /\ AffinityRequested'
  <2>1. /\ UNCHANGED <<affinity, lockCount, ipi, pendsv, switchPending>>
        /\ phase'[c] = "thread" /\ lockCount[c] > 0 /\ switchPending[c]
        /\ \A d \in Core : d # c => phase'[d] = phase[d] /\ current'[d] = current[d]
    BY <1>13, <1>1, ConfigAssumption DEF SelectPinned, Dispatch, Pinned, SavedRemembers
  <2> QED
    BY <2>1 DEF SavedRemembers, AffinityRequested, Allowed
<1>14. ASSUME NEW c \in Core, SelectTask(c)
      PROVE  SavedRemembers' /\ AffinityRequested'
  <2>1. PICK t \in Task : Eligible(c, t) /\ Dispatch(c, t)
    <3>1. PICK p \in bitmap : \E i \in DOMAIN ready[p] :
             Eligible(c, ready[p][i]) /\ Dispatch(c, ready[p][i])
      BY <1>14 DEF SelectTask
    <3>2. Members(ready[p]) \subseteq Task
      BY MembersOfSeq DEF IInv, TypeOK
    <3> QED
      BY <3>1, <3>2 DEF Members
  <2>2. /\ UNCHANGED <<affinity, lockCount, ipi, pendsv, switchPending>>
        /\ phase'[c] = "thread" /\ current'[c] = t
        /\ \A d \in Core : d # c => phase'[d] = phase[d] /\ current'[d] = current[d]
    BY <1>14, <1>1, <2>1 DEF SelectTask, Dispatch
  <2>3. Allowed(t, c)
    <3>1. CASE NumCores > 1
      BY <2>1, <3>1 DEF Eligible
    <3>2. CASE NumCores = 1
      BY <1>1, <3>2, ConfigAssumption DEF Allowed
    <3> QED
      BY <3>1, <3>2, ConfigAssumption
  <2> QED
    BY <2>2, <2>3 DEF SavedRemembers, AffinityRequested, Allowed
<1>15. ASSUME NEW c \in Core, SelectIdle(c)
      PROVE  SavedRemembers' /\ AffinityRequested'
  <2>1. /\ UNCHANGED <<affinity, lockCount, ipi, pendsv, switchPending>>
        /\ phase'[c] = "thread" /\ current'[c] = Idle
        /\ \A d \in Core : d # c => phase'[d] = phase[d] /\ current'[d] = current[d]
    BY <1>15, <1>1 DEF SelectIdle, Dispatch
  <2> QED
    BY <1>2, <2>1 DEF SavedRemembers, AffinityRequested, Allowed
<1>16. ASSUME NEW c \in Core, NEW t \in Task, NEW p \in Prio, NEW mask \in AffinityMask,
              Create(c, t, p, mask)
       PROVE  SavedRemembers' /\ AffinityRequested'
  <2>1. /\ UNCHANGED <<current, phase, lockCount, pendsv, ipi, switchPending>>
        /\ state[t] = "INACTIVE" /\ \A u \in Task : u # t => affinity'[u] = affinity[u]
    BY <1>16, <1>1 DEF Create
  <2>2. ASSUME NEW d \in Core, phase[d] = "thread", current[d] = t
        PROVE  pendsv[d]
    BY <2>1, <2>2, SwitchIsPended
  <2> QED
    BY <2>1, <2>2 DEF SavedRemembers, AffinityRequested, Allowed
<1>17. ASSUME NEW c \in Core, NEW t \in Task, Start(c, t)
       PROVE  SavedRemembers' /\ AffinityRequested'
  <2>1. PICK targets : Request(c, targets)
    BY <1>17 DEF Start, RequestIfRunning
  <2>2. UNCHANGED <<affinity, current, phase, lockCount>>
    BY <1>17 DEF Start
  <2> QED
    BY <1>1, <2>1, <2>2, RequestsAdd, RequestsFrame
<1>18. ASSUME NEW c \in Core, NEW t \in Task, Pause(c, t)
       PROVE  SavedRemembers' /\ AffinityRequested'
  <2>1. PICK targets : Request(c, targets)
    BY <1>18 DEF Pause, RequestIfRunning
  <2>2. UNCHANGED <<affinity, current, phase, lockCount>>
    BY <1>18 DEF Pause
  <2> QED
    BY <1>1, <2>1, <2>2, RequestsAdd, RequestsFrame
<1>19. ASSUME NEW c \in Core, NEW t \in Task, Delete(c, t)
       PROVE  SavedRemembers' /\ AffinityRequested'
  <2>1. PICK targets : Request(c, targets)
    BY <1>19 DEF Delete, RequestIfRunning
  <2>2. /\ UNCHANGED <<phase, lockCount>>
        /\ affinity'[t] = AnyCore /\ \A u \in Task : u # t => affinity'[u] = affinity[u]
        /\ \A d \in Core : current'[d] \in Task => current'[d] = current[d]
    BY <1>19, <1>1, <1>2 DEF Delete
  <2>3. \A d \in Core : /\ pendsv[d] => pendsv'[d]
                        /\ ipi[d] => ipi'[d]
                        /\ switchPending[d] => switchPending'[d]
    BY <1>1, <2>1, RequestsAdd
  <2> QED
    BY <2>2, <2>3 DEF SavedRemembers, AffinityRequested, Allowed
<1>20. ASSUME NEW c \in Core, NEW t \in Task, NEW p \in Prio, PrioritySet(c, t, p)
       PROVE  SavedRemembers' /\ AffinityRequested'
  <2>1. PICK targets : Request(c, targets)
    BY <1>20 DEF PrioritySet, RequestIfRunning
  <2>2. UNCHANGED <<affinity, current, phase, lockCount>>
    BY <1>20 DEF PrioritySet
  <2> QED
    BY <1>1, <2>1, <2>2, RequestsAdd, RequestsFrame
<1>21. ASSUME NEW c \in Core, NEW t \in Task, NEW mask \in AffinityMask, AffinitySet(c, t, mask)
       PROVE  SavedRemembers' /\ AffinityRequested'
  <2> DEFINE excluded == {d \in Core : current[d] = t /\ mask # AnyCore /\ d \notin mask}
  <2>1. /\ UNCHANGED <<current, phase, lockCount>>
        /\ affinity'[t] = mask /\ \A u \in Task : u # t => affinity'[u] = affinity[u]
    BY <1>21, <1>1 DEF AffinitySet
  <2>2. ASSUME NEW d \in Core
        PROVE  /\ pendsv[d] => pendsv'[d]
               /\ ipi[d] => ipi'[d]
               /\ switchPending[d] => switchPending'[d]
               /\ running /\ d \in excluded => \/ pendsv'[d] \/ ipi'[d]
                                               \/ lockCount[d] > 0 /\ switchPending'[d]
    <3>1. Request(c, IF running THEN excluded ELSE {})
      BY <1>21 DEF AffinitySet, RequestIfRunning
    <3> HIDE DEF excluded
    <3> QED
      BY <1>1, <3>1, RequestsAdd
  <2>3. \A d \in Core : current[d] \in Task => running
    BY <1>2 DEF BootIsEmpty
  <2>4. SavedRemembers'
    BY <2>1, <2>2 DEF SavedRemembers
  <2>5. AffinityRequested'
    <3>1. SUFFICES ASSUME NEW d \in Core, phase[d] = "thread", current[d] \in Task,
                          ~Allowed(current[d], d)'
                   PROVE  \/ pendsv'[d] \/ ipi'[d]
                          \/ lockCount[d] > 0 /\ switchPending'[d]
      BY <2>1 DEF AffinityRequested, Allowed
    <3>2. CASE current[d] = t
      <4>1. d \in excluded
        BY <2>1, <3>1, <3>2 DEF Allowed
      <4> QED
        BY <2>2, <2>3, <3>1, <4>1
    <3>3. CASE current[d] # t
      <4>1. ~Allowed(current[d], d)
        BY <2>1, <3>1, <3>3 DEF Allowed
      <4>2. \/ pendsv[d] \/ ipi[d]
            \/ lockCount[d] > 0 /\ switchPending[d]
        BY <3>1, <4>1 DEF AffinityRequested
      <4> QED
        BY <2>2, <4>2
    <3> QED
      BY <3>2, <3>3
  <2> QED
    BY <2>4, <2>5
<1>22. ASSUME NEW c \in Core, NEW t \in Task, Wake(c, t)
       PROVE  SavedRemembers' /\ AffinityRequested'
  <2>1. PICK targets : Request(c, targets)
    BY <1>22 DEF Wake
  <2>2. UNCHANGED <<affinity, current, phase, lockCount>>
    BY <1>22 DEF Wake
  <2> QED
    BY <1>1, <2>1, <2>2, RequestsAdd, RequestsFrame
<1>23. CASE UNCHANGED vars
  BY <1>23, RequestsFrame DEF vars
<1> QED
  BY <1>3, <1>4, <1>5, <1>6, <1>7, <1>8, <1>9, <1>10, <1>11, <1>12, <1>13, <1>14, <1>15,
     <1>16, <1>17, <1>18, <1>19, <1>20, <1>21, <1>22, <1>23
  DEF Next, CoreStep, TaskApi, Select

\* What a locked core remembers, and what the cores were asked for, holds from
\* the start.
LEMMA InitRequests == Init => SavedRemembers /\ AffinityRequested
BY DEF Init, SavedRemembers, AffinityRequested

\* On any number of cores, and whoever starts a task from where, a core that
\* executes a task its affinity excludes has been asked to switch:
\* os_task_core_affinity_set, the IPI, os_kernel_unlock and a context switch that
\* finds its core locked pass the request on between them.
THEOREM AffinityAlwaysRequested == Spec => []AffinityRequested
<1>1. Spec => [](SavedRemembers /\ AffinityRequested)
  BY InitRequests, AffinityStep, Invariance, PTL DEF Spec
<1> QED
  BY <1>1, PTL

-----------------------------------------------------------------------------
(* One core.                                                               *)

\* Between the halves of a switch a task is RUNNING only if it is locked.
SavedStops ==
    \A c \in Core : phase[c] = "saved" /\ ~(lockCount[c] > 0) =>
        \A t \in Task : state[t] # "RUNNING"

\* A step that makes no task RUNNING, and moves no core, keeps both.
LEMMA RunningFrame ==
    ASSUME SavedStops, RunningIsCurrent, UNCHANGED <<current, phase, lockCount>>,
           \A t \in Task : state'[t] = "RUNNING" => state[t] = "RUNNING"
    PROVE  SavedStops' /\ RunningIsCurrent'
BY DEF SavedStops, RunningIsCurrent

\* On one core every step keeps the RUNNING task the current one, unless an
\* interrupt may start the current task between the halves of a switch.
LEMMA RunningStep ==
    ASSUME NumCores = 1, ~IsrStarts, IInv, SavedStops, RunningIsCurrent, [Next]_vars
    PROVE  SavedStops' /\ RunningIsCurrent'
<1> USE DEF taskVars, queueVars, requestVars, coreVars
<1>1. /\ TypeOK /\ state \in [Task -> State]
      /\ current \in [Core -> Task \cup {Idle, None}]
      /\ lockCount \in [Core -> 0 .. MaxLock] /\ phase \in [Core -> {"boot", "thread", "saved"}]
      /\ Core = {0}
  BY DEF IInv, TypeOK, Core
<1>2. /\ LockedRuns /\ TaskRuns /\ BootIsEmpty
      /\ None \notin Task /\ Idle \notin Task
  BY ConfigAssumption DEF IInv, CoresExact
<1>3. CASE KernelStart
  BY <1>3, RunningFrame DEF KernelStart
<1>4. ASSUME NEW c \in Core, CoreStart(c)
      PROVE  SavedStops' /\ RunningIsCurrent'
  BY <1>4, RunningFrame DEF CoreStart
<1>5. ASSUME NEW c \in Core, Yield(c)
      PROVE  SavedStops' /\ RunningIsCurrent'
  BY <1>5, RunningFrame DEF Yield
<1>6. ASSUME NEW c \in Core, NEW timed \in BOOLEAN, Block(c, timed)
      PROVE  SavedStops' /\ RunningIsCurrent'
  BY <1>6, <1>1, RunningFrame DEF Block
<1>7. ASSUME NEW c \in Core, Lock(c)
      PROVE  SavedStops' /\ RunningIsCurrent'
  BY <1>7, <1>1 DEF Lock, SavedStops, RunningIsCurrent
<1>8. ASSUME NEW c \in Core, Unlock(c)
      PROVE  SavedStops' /\ RunningIsCurrent'
  BY <1>8, <1>1 DEF Unlock, InTask, SavedStops, RunningIsCurrent
<1>9. ASSUME NEW c \in Core, NEW due \in SUBSET delayed, Tick(c, due)
      PROVE  SavedStops' /\ RunningIsCurrent'
  BY <1>9, <1>1, RunningFrame DEF Tick
<1>10. ASSUME NEW c \in Core, IpiDeliver(c)
      PROVE  SavedStops' /\ RunningIsCurrent'
  BY <1>10, RunningFrame DEF IpiDeliver
<1>11. ASSUME NEW c \in Core, FirstPendSV(c)
      PROVE  SavedStops' /\ RunningIsCurrent'
  <2>1. current[c] = None /\ UNCHANGED <<state, current, lockCount>>
    BY <1>11, <1>2 DEF FirstPendSV, BootIsEmpty
  <2>2. \A t \in Task : state[t] # "RUNNING"
    BY <1>1, <1>2, <2>1 DEF RunningIsCurrent
  <2> QED
    BY <2>1, <2>2 DEF SavedStops, RunningIsCurrent
<1>12. ASSUME NEW c \in Core, Save(c)
      PROVE  SavedStops' /\ RunningIsCurrent'
  <2>1. UNCHANGED <<current, lockCount>>
    BY <1>12 DEF Save
  <2>2. CASE Pinned(c)
    <3>1. state' = state /\ lockCount[c] > 0
      BY <1>12, <1>1, <2>2, ConfigAssumption DEF Save, Pinned
    <3> QED
      BY <1>1, <2>1, <3>1 DEF SavedStops, RunningIsCurrent
  <2>3. CASE ~Pinned(c)
    <3>1. \A t \in Task : state'[t] # "RUNNING"
      <4>1. CASE current[c] \in Task /\ state[current[c]] = "RUNNING"
        <5>1. state' = [state EXCEPT ![current[c]] = "READY"]
          BY <1>12, <2>3, <4>1 DEF Save, MakeReady
        <5> QED
          BY <1>1, <4>1, <5>1 DEF RunningIsCurrent
      <4>2. CASE ~(current[c] \in Task /\ state[current[c]] = "RUNNING")
        <5>1. state' = state
          BY <1>12, <2>3, <4>2 DEF Save
        <5> QED
          BY <1>1, <4>2, <5>1 DEF RunningIsCurrent
      <4> QED
        BY <4>1, <4>2
    <3> QED
      BY <3>1 DEF SavedStops, RunningIsCurrent
  <2> QED
    BY <2>2, <2>3
<1>13. ASSUME NEW c \in Core, SelectPinned(c)
      PROVE  SavedStops' /\ RunningIsCurrent'
  <2>1. /\ UNCHANGED <<state, lockCount>> /\ \A d \in Core : current'[d] = current[d]
        /\ \A d \in Core : phase'[d] = "thread"
    BY <1>13, <1>1 DEF SelectPinned, Dispatch
  <2> QED
    BY <2>1 DEF SavedStops, RunningIsCurrent
<1>14. ASSUME NEW c \in Core, SelectTask(c)
      PROVE  SavedStops' /\ RunningIsCurrent'
  <2>1. PICK t \in Task : state' = [state EXCEPT ![t] = "RUNNING"] /\ Dispatch(c, t)
    <3>1. PICK p \in bitmap : \E i \in DOMAIN ready[p] :
             /\ state' = [state EXCEPT ![ready[p][i]] = "RUNNING"]
             /\ Dispatch(c, ready[p][i])
      BY <1>14 DEF SelectTask
    <3>2. Members(ready[p]) \subseteq Task
      BY MembersOfSeq DEF IInv, TypeOK
    <3> QED
      BY <3>1, <3>2 DEF Members
  <2>2. \A u \in Task : state[u] # "RUNNING"
    <3>1. phase[c] = "saved" /\ ~(lockCount[c] > 0)
      BY <1>14, <1>2 DEF SelectTask, LockedRuns, Pinned
    <3> QED
      BY <3>1 DEF SavedStops
  <2>3. \A d \in Core : phase'[d] = "thread" /\ current'[d] = t
    BY <1>1, <2>1 DEF Dispatch
  <2> QED
    BY <1>1, <2>1, <2>2, <2>3 DEF SavedStops, RunningIsCurrent
<1>15. ASSUME NEW c \in Core, SelectIdle(c)
      PROVE  SavedStops' /\ RunningIsCurrent'
  <2>1. phase[c] = "saved" /\ ~(lockCount[c] > 0) /\ state' = state
    BY <1>15, <1>2 DEF SelectIdle, LockedRuns, Pinned
  <2>2. \A d \in Core : phase'[d] = "thread"
    BY <1>15, <1>1 DEF SelectIdle, Dispatch
  <2> QED
    BY <2>1, <2>2 DEF SavedStops, RunningIsCurrent
<1>16. ASSUME NEW c \in Core, NEW t \in Task, NEW p \in Prio, NEW mask \in AffinityMask,
              Create(c, t, p, mask)
       PROVE  SavedStops' /\ RunningIsCurrent'
  BY <1>16, <1>1, RunningFrame DEF Create
<1>17. ASSUME NEW c \in Core, NEW t \in Task, Start(c, t)
       PROVE  SavedStops' /\ RunningIsCurrent'
  <2>1. UNCHANGED <<current, phase, lockCount>> /\ \A d \in Core : phase[d] # "saved"
    <3>1. phase[c] # "saved"
      BY <1>17, <1>2 DEF Start, InBoot, InTask, BootIsEmpty
    <3> QED
      BY <1>17, <1>1, <3>1 DEF Start
  <2>2. CASE IsCurrent(t)
    <3>1. state' = [state EXCEPT ![t] = "RUNNING"]
      BY <1>17, <2>2 DEF Start
    <3> QED
      BY <1>1, <2>1, <2>2, <3>1 DEF IsCurrent, SavedStops, RunningIsCurrent
  <2>3. CASE ~IsCurrent(t)
    BY <1>17, <1>1, <2>1, <2>3, RunningFrame DEF Start, MakeReady
  <2> QED
    BY <2>2, <2>3
<1>18. ASSUME NEW c \in Core, NEW t \in Task, Pause(c, t)
       PROVE  SavedStops' /\ RunningIsCurrent'
  BY <1>18, <1>1, RunningFrame DEF Pause
<1>19. ASSUME NEW c \in Core, NEW t \in Task, Delete(c, t)
       PROVE  SavedStops' /\ RunningIsCurrent'
  <2>1. /\ UNCHANGED <<phase, lockCount>>
        /\ \A u \in Task : state'[u] = IF u = t THEN "INACTIVE" ELSE state[u]
        /\ \A d \in Core : current[d] # t => current'[d] = current[d]
    BY <1>19, <1>1 DEF Delete
  <2> QED
    BY <2>1 DEF SavedStops, RunningIsCurrent
<1>20. ASSUME NEW c \in Core, NEW t \in Task, NEW p \in Prio, PrioritySet(c, t, p)
       PROVE  SavedStops' /\ RunningIsCurrent'
  BY <1>20, <1>1, RunningFrame DEF PrioritySet, MakeReady
<1>21. ASSUME NEW c \in Core, NEW t \in Task, NEW mask \in AffinityMask, AffinitySet(c, t, mask)
       PROVE  SavedStops' /\ RunningIsCurrent'
  BY <1>21, RunningFrame DEF AffinitySet
<1>22. ASSUME NEW c \in Core, NEW t \in Task, Wake(c, t)
       PROVE  SavedStops' /\ RunningIsCurrent'
  BY <1>22, <1>1, RunningFrame DEF Wake, MakeReady
<1>23. CASE UNCHANGED vars
  BY <1>23, RunningFrame DEF vars
<1> QED
  BY <1>3, <1>4, <1>5, <1>6, <1>7, <1>8, <1>9, <1>10, <1>11, <1>12, <1>13, <1>14, <1>15,
     <1>16, <1>17, <1>18, <1>19, <1>20, <1>21, <1>22, <1>23
  DEF Next, CoreStep, TaskApi, Select

\* On one core on which no interrupt handler starts a task, a RUNNING task is the
\* current one: os_task_start may mark the current task RUNNING, because nobody
\* calls it between the two halves of a context switch.
THEOREM RunningStaysCurrent ==
    ASSUME NumCores = 1, ~IsrStarts
    PROVE  Spec => []RunningIsCurrent
<1>1. Init => SavedStops /\ RunningIsCurrent
  BY DEF Init, SavedStops, RunningIsCurrent
<1>2. IInv /\ SavedStops /\ RunningIsCurrent /\ [Next]_vars => SavedStops' /\ RunningIsCurrent'
  BY RunningStep
<1>3. Spec => [](SavedStops /\ RunningIsCurrent)
  BY <1>1, <1>2, Invariance, PTL DEF Spec
<1> QED
  BY <1>3, PTL

\* On one core os_task_preempt_request asks this core, if it is outranked.
LEMMA NudgeHere ==
    ASSUME NumCores = 1, IInv, NEW c \in Core, NEW t \in Task, NEW p \in Prio
    PROVE  Nudge(c, t, p) = IF current[c] # t /\ p > PrioOf(current[c]) THEN {c} ELSE {}
<1>1. Core = {0} /\ c = 0
  BY DEF Core
<1>2. Allowed(t, c)
  BY ConfigAssumption DEF Allowed, IInv, TypeOK
<1>3. current[c] = None => p > PrioOf(current[c])
  BY ConfigAssumption DEF PrioOf, Prio
<1>4. \A S \in SUBSET (Core \ {c}) : S = {}
  BY <1>1
<1> QED
  BY <1>2, <1>3, <1>4 DEF Nudge

\* A step that moves no core and drops no request keeps the preemption requested,
\* if it asks for those it makes necessary.
LEMMA PreemptionFrame ==
    ASSUME PreemptionRequested, UNCHANGED <<current, phase, lockCount>>,
           \A c \in Core : /\ pendsv[c] => pendsv'[c]
                           /\ switchPending[c] => switchPending'[c],
           \A c \in Core :
              phase[c] = "thread" /\ (\E p \in bitmap' : p > PrioOf(current[c])')
              => \/ \E p \in bitmap : p > PrioOf(current[c])
                 \/ pendsv'[c]
                 \/ lockCount[c] > 0 /\ switchPending'[c]
    PROVE  PreemptionRequested'
BY DEF PreemptionRequested

\* A switch request reaches the core it is made on.
LEMMA RequestHere ==
    ASSUME NumCores = 1, IInv, NEW c \in Core, NEW targets, RequestIfRunning(c, targets)
    PROVE  /\ \A d \in Core : /\ pendsv[d] => pendsv'[d]
                              /\ switchPending[d] => switchPending'[d]
           /\ running /\ c \in targets => pendsv'[c] \/ (lockCount[c] > 0 /\ switchPending'[c])
<1>1. TypeOK
  BY DEF IInv
<1>2. Request(c, IF running THEN targets ELSE {})
  BY DEF RequestIfRunning
<1>3. c \in Core /\ pendsv \in [Core -> BOOLEAN] /\ switchPending \in [Core -> BOOLEAN]
  BY <1>1 DEF TypeOK
<1>4. lockCount[c] # 0 => lockCount[c] > 0
  BY <1>1, ConfigAssumption DEF TypeOK
<1>5. running /\ c \in targets => pendsv'[c] \/ (lockCount[c] > 0 /\ switchPending'[c])
  BY <1>2, <1>3, <1>4 DEF Request
<1> QED
  BY <1>1, <1>2, <1>5, RequestsAdd

\* On one core a task that becomes ready and outranks the one that executes has
\* the switch requested, whoever readied it.
LEMMA MadeReadyRequested ==
    ASSUME NumCores = 1, IInv, PreemptionRequested, NEW c \in Core, NEW t \in Task,
           NEW p \in Prio, MakeReady(t, p), RequestIfRunning(c, Nudge(c, t, p)),
           UNCHANGED <<current, phase, lockCount>>,
           \A u \in Task : u # t => prio'[u] = prio[u], prio'[t] = p,
           state[t] # "RUNNING"
    PROVE  PreemptionRequested'
<1>1. Core = {c} /\ bitmap' \subseteq bitmap \cup {p}
  BY DEF Core, MakeReady, UnlinkedBitmap
<1>2. /\ \A d \in Core : /\ pendsv[d] => pendsv'[d]
                         /\ switchPending[d] => switchPending'[d]
      /\ running /\ c \in Nudge(c, t, p) =>
            pendsv'[c] \/ (lockCount[c] > 0 /\ switchPending'[c])
  BY RequestHere
<1>3. ASSUME phase[c] = "thread", NEW q \in bitmap', q > PrioOf(current[c])'
      PROVE  \/ \E r \in bitmap : r > PrioOf(current[c])
             \/ pendsv'[c]
             \/ lockCount[c] > 0 /\ switchPending'[c]
  <2>1. running
    BY <1>3 DEF IInv, CoresExact, BootIsEmpty
  <2>2. CASE current[c] = t
    BY <1>2, <1>3, <2>2, SwitchIsPended
  <2>3. CASE current[c] # t
    <3>1. PrioOf(current[c])' = PrioOf(current[c])
      BY <2>3 DEF PrioOf
    <3>2. CASE q \in bitmap
      BY <1>3, <3>1, <3>2
    <3>3. CASE q = p
      BY <1>2, <1>3, <2>1, <2>3, <3>1, <3>3, NudgeHere
    <3> QED
      BY <1>1, <3>2, <3>3
  <2> QED
    BY <2>2, <2>3
<1> QED
  BY <1>1, <1>2, <1>3, PreemptionFrame

\* On one core every step keeps the preemption requested.
LEMMA PreemptionStep ==
    ASSUME NumCores = 1, IInv, SavedRemembers, PreemptionRequested, [Next]_vars
    PROVE  PreemptionRequested'
<1> USE DEF taskVars, queueVars, requestVars, coreVars
<1>1. /\ TypeOK /\ prio \in [Task -> Prio \cup {0}] /\ state \in [Task -> State]
      /\ current \in [Core -> Task \cup {Idle, None}] /\ bitmap \subseteq Prio
      /\ lockCount \in [Core -> 0 .. MaxLock] /\ phase \in [Core -> {"boot", "thread", "saved"}]
      /\ pendsv \in [Core -> BOOLEAN] /\ switchPending \in [Core -> BOOLEAN]
      /\ Core = {0}
  BY DEF IInv, TypeOK, Core
<1>2. /\ LockedRuns /\ TaskRuns /\ BootIsEmpty
      /\ None \notin Task /\ Idle \notin Task
  BY ConfigAssumption DEF IInv, CoresExact
<1>3. /\ \A q \in Prio : q \in Nat
      /\ \A u \in Task : prio[u] \in Nat
  <2>1. \A q \in Prio \cup {0} : q \in Nat
    BY DEF Prio
  <2>2. \A u \in Task : prio[u] \in Prio \cup {0}
    BY <1>1
  <2> QED
    BY <2>1, <2>2
<1>4. CASE KernelStart
  BY <1>4, <1>1, PreemptionFrame DEF KernelStart, PrioOf
<1>5. ASSUME NEW c \in Core, CoreStart(c)
      PROVE  PreemptionRequested'
  BY <1>5, <1>1, PreemptionFrame DEF CoreStart, PrioOf
<1>6. ASSUME NEW c \in Core, Yield(c)
      PROVE  PreemptionRequested'
  BY <1>6, <1>1, RequestsAdd, PreemptionFrame DEF Yield, PrioOf
<1>7. ASSUME NEW c \in Core, NEW timed \in BOOLEAN, Block(c, timed)
      PROVE  PreemptionRequested'
  BY <1>7, <1>1, RequestsAdd, PreemptionFrame DEF Block, PrioOf
<1>8. ASSUME NEW c \in Core, Lock(c)
      PROVE  PreemptionRequested'
  <2>1. /\ UNCHANGED <<current, phase, pendsv, switchPending, bitmap, prio>>
        /\ \A d \in Core : lockCount[d] > 0 => lockCount'[d] > 0
    BY <1>8, <1>1 DEF Lock
  <2> QED
    BY <2>1 DEF PreemptionRequested, PrioOf
<1>9. ASSUME NEW c \in Core, Unlock(c)
      PROVE  PreemptionRequested'
  <2>1. /\ running /\ lockCount[c] \in Nat /\ lockCount[c] > 0 /\ Core = {c}
        /\ UNCHANGED <<current, phase, bitmap, prio>>
        /\ lockCount'[c] = lockCount[c] - 1
    BY <1>9, <1>1, <1>2 DEF Unlock, InTask, BootIsEmpty
  <2>2. CASE lockCount[c] = 1
    <3>1. pendsv'[c] <=> pendsv[c] \/ switchPending[c]
      BY <1>9, <1>1, <2>1, <2>2 DEF Unlock
    <3> QED
      BY <2>1, <2>2, <3>1 DEF PreemptionRequested, PrioOf
  <2>3. CASE lockCount[c] # 1
    <3>1. lockCount'[c] > 0 /\ pendsv' = pendsv /\ switchPending' = switchPending
      BY <1>9, <2>1, <2>3 DEF Unlock
    <3> QED
      BY <2>1, <3>1 DEF PreemptionRequested, PrioOf
  <2> QED
    BY <2>2, <2>3
<1>10. ASSUME NEW c \in Core, NEW due \in SUBSET delayed, Tick(c, due)
      PROVE  PreemptionRequested'
  <2> DEFINE nudged == UNION {Nudge(c, t, prio[t]) : t \in due}
  <2>1. PICK more : Request(c, nudged \cup more)
    BY <1>10 DEF Tick
  <2>2. /\ running /\ UNCHANGED <<current, phase, lockCount, prio>>
        /\ bitmap' = bitmap \cup {prio[t] : t \in due} /\ Core = {c}
    BY <1>10, <1>1 DEF Tick, InIsr
  <2>3. \A t \in due : t \in Task /\ state[t] = "BLOCKED" /\ prio[t] \in Prio
    BY DEF IInv, TypeOK, QueuesExact, LivePrio, Live
  <2>4. /\ \A d \in Core : /\ pendsv[d] => pendsv'[d]
                           /\ switchPending[d] => switchPending'[d]
        /\ c \in nudged => pendsv'[c] \/ (lockCount[c] > 0 /\ switchPending'[c])
    <3> HIDE DEF nudged
    <3>1. RequestIfRunning(c, nudged \cup more)
      BY <2>1, <2>2 DEF RequestIfRunning
    <3> QED
      BY <2>2, <3>1, RequestHere
  <2>5. ASSUME phase[c] = "thread", NEW t \in due, prio[t] > PrioOf(current[c])
        PROVE  pendsv'[c] \/ (lockCount[c] > 0 /\ switchPending'[c])
    <3>1. CASE current[c] = t
      BY <2>3, <2>4, <2>5, <3>1, SwitchIsPended
    <3>2. CASE current[c] # t
      <4>1. c \in Nudge(c, t, prio[t])
        BY <2>3, <2>5, <3>2, NudgeHere
      <4> QED
        BY <2>4, <4>1
    <3> QED
      BY <3>1, <3>2
  <2>6. PrioOf(current[c])' = PrioOf(current[c])
    BY <2>2 DEF PrioOf
  <2> QED
    BY <2>2, <2>4, <2>5, <2>6, PreemptionFrame
<1>11. ASSUME NEW c \in Core, IpiDeliver(c)
      PROVE  PreemptionRequested'
  BY <1>11, <1>1, PreemptionFrame DEF IpiDeliver, PrioOf
<1>12. ASSUME NEW c \in Core, FirstPendSV(c)
      PROVE  PreemptionRequested'
  <2>1. \A d \in Core : phase'[d] = "saved"
    BY <1>12, <1>1 DEF FirstPendSV
  <2> QED
    BY <2>1 DEF PreemptionRequested
<1>13. ASSUME NEW c \in Core, Save(c)
      PROVE  PreemptionRequested'
  <2>1. \A d \in Core : phase'[d] = "saved"
    BY <1>13, <1>1 DEF Save
  <2> QED
    BY <2>1 DEF PreemptionRequested
<1>14. ASSUME NEW c \in Core, SelectPinned(c)
      PROVE  PreemptionRequested'
  <2>1. /\ UNCHANGED <<lockCount, switchPending>> /\ Core = {c}
        /\ lockCount[c] > 0 /\ switchPending[c]
    BY <1>14, <1>1, ConfigAssumption DEF SelectPinned, Pinned, SavedRemembers
  <2> QED
    BY <2>1 DEF PreemptionRequested
<1>15. ASSUME NEW c \in Core, SelectTask(c)
      PROVE  PreemptionRequested'
  <2>1. PICK p \in bitmap, t \in Task :
           /\ t \in Members(ready[p])
           /\ \A q \in bitmap : q > p => \A u \in Members(ready[q]) : ~Eligible(c, u)
           /\ bitmap' \subseteq bitmap /\ Dispatch(c, t)
    <3>1. PICK p \in bitmap : \E i \in DOMAIN ready[p] :
             /\ \A q \in bitmap : q > p => \A u \in Members(ready[q]) : ~Eligible(c, u)
             /\ bitmap' = IF ListRemove(ready[p], ready[p][i]) = << >>
                          THEN bitmap \ {p} ELSE bitmap
             /\ Dispatch(c, ready[p][i])
      BY <1>15 DEF SelectTask
    <3>2. Members(ready[p]) \subseteq Task
      BY MembersOfSeq DEF IInv, TypeOK
    <3> QED
      BY <3>1, <3>2 DEF Members
  <2>2. ASSUME NEW q \in bitmap
        PROVE  Members(ready[q]) # {}
    BY MembersOfSeq DEF IInv, TypeOK, QueuesExact
  <2>3. \A q \in bitmap : ~(q > p)
    BY <2>1, <2>2 DEF Eligible
  <2>4. prio[t] = p
    BY <1>1, <2>1 DEF IInv, TypeOK, QueuesExact
  <2>5. current'[c] = t /\ prio' = prio /\ Core = {c}
    BY <1>15, <1>1, <2>1 DEF SelectTask, Dispatch
  <2> QED
    BY <2>1, <2>3, <2>4, <2>5 DEF PreemptionRequested, PrioOf
<1>16. ASSUME NEW c \in Core, SelectIdle(c)
      PROVE  PreemptionRequested'
  <2>1. \A q \in bitmap : Members(ready[q]) # {}
    BY MembersOfSeq DEF IInv, TypeOK, QueuesExact
  <2>2. bitmap' = {}
    BY <1>16, <2>1 DEF SelectIdle, Eligible
  <2> QED
    BY <2>2 DEF PreemptionRequested
<1>17. ASSUME NEW c \in Core, NEW t \in Task, NEW p \in Prio, NEW mask \in AffinityMask,
              Create(c, t, p, mask)
       PROVE  PreemptionRequested'
  <2>1. /\ UNCHANGED <<current, phase, lockCount, pendsv, switchPending, bitmap>>
        /\ state[t] = "INACTIVE" /\ \A u \in Task : u # t => prio'[u] = prio[u]
    BY <1>17, <1>1 DEF Create
  <2>2. ASSUME NEW d \in Core, phase[d] = "thread", current[d] = t
        PROVE  pendsv[d]
    BY <2>1, <2>2, SwitchIsPended
  <2> QED
    BY <2>1, <2>2, PreemptionFrame DEF PrioOf
<1>18. ASSUME NEW c \in Core, NEW t \in Task, Start(c, t)
       PROVE  PreemptionRequested'
  <2>1. /\ UNCHANGED <<current, phase, lockCount, prio>> /\ prio[t] \in Prio
        /\ RequestIfRunning(c, Nudge(c, t, prio[t]))
    BY <1>18 DEF Start, IInv, LivePrio
  <2>2. CASE IsCurrent(t)
    <3>1. bitmap' \subseteq bitmap
      BY <1>18, <2>2 DEF Start, Unlink, UnlinkedBitmap
    <3>2. \A d \in Core : /\ pendsv[d] => pendsv'[d]
                          /\ switchPending[d] => switchPending'[d]
      BY <2>1, RequestHere
    <3> QED
      BY <2>1, <3>1, <3>2, PreemptionFrame DEF PrioOf
  <2>3. CASE ~IsCurrent(t)
    <3>1. MakeReady(t, prio[t])
      BY <1>18, <2>3 DEF Start
    <3>2. /\ bitmap' \subseteq bitmap \cup {prio[t]} /\ Core = {c}
          /\ current[c] # t
      BY <1>1, <2>3, <3>1 DEF MakeReady, UnlinkedBitmap, IsCurrent
    <3>3. /\ \A d \in Core : /\ pendsv[d] => pendsv'[d]
                             /\ switchPending[d] => switchPending'[d]
          /\ running /\ c \in Nudge(c, t, prio[t]) =>
                pendsv'[c] \/ (lockCount[c] > 0 /\ switchPending'[c])
      BY <2>1, RequestHere
    <3>4. phase[c] = "thread" => running
      BY <1>2 DEF BootIsEmpty
    <3>5. prio[t] > PrioOf(current[c]) => c \in Nudge(c, t, prio[t])
      BY <2>1, <3>2, NudgeHere
    <3> QED
      BY <2>1, <3>2, <3>3, <3>4, <3>5, PreemptionFrame DEF PrioOf
  <2> QED
    BY <2>2, <2>3
<1>19. ASSUME NEW c \in Core, NEW t \in Task, Pause(c, t)
       PROVE  PreemptionRequested'
  <2>1. /\ UNCHANGED <<current, phase, lockCount, prio>> /\ bitmap' \subseteq bitmap
        /\ RequestIfRunning(c, IF current[c] = t THEN {c} ELSE {})
    BY <1>19 DEF Pause, Unlink, UnlinkedBitmap
  <2>2. \A d \in Core : /\ pendsv[d] => pendsv'[d]
                        /\ switchPending[d] => switchPending'[d]
    BY <2>1, RequestHere
  <2> QED
    BY <2>1, <2>2, PreemptionFrame DEF PrioOf
<1>20. ASSUME NEW c \in Core, NEW t \in Task, Delete(c, t)
       PROVE  PreemptionRequested'
  <2>1. /\ UNCHANGED <<phase, lockCount>> /\ bitmap' \subseteq bitmap /\ Core = {c}
        /\ \A u \in Task : u # t => prio'[u] = prio[u]
        /\ current'[c] = IF current[c] = t THEN None ELSE current[c]
        /\ RequestIfRunning(c, IF current[c] = t THEN {c} ELSE {})
    BY <1>20, <1>1 DEF Delete, Unlink, UnlinkedBitmap
  <2>2. /\ \A d \in Core : /\ pendsv[d] => pendsv'[d]
                           /\ switchPending[d] => switchPending'[d]
        /\ running /\ current[c] = t => pendsv'[c] \/ (lockCount[c] > 0 /\ switchPending'[c])
    BY <2>1, RequestHere
  <2>3. phase[c] = "thread" => running
    BY <1>2 DEF BootIsEmpty
  <2> QED
    BY <2>1, <2>2, <2>3 DEF PreemptionRequested, PrioOf
<1>21. ASSUME NEW c \in Core, NEW t \in Task, NEW p \in Prio, PrioritySet(c, t, p)
       PROVE  PreemptionRequested'
  <2>1. /\ UNCHANGED <<current, phase, lockCount>> /\ Core = {c} /\ prio'[t] = p
        /\ \A u \in Task : u # t => prio'[u] = prio[u]
    BY <1>21, <1>1 DEF PrioritySet
  <2>2. prio[t] \in Prio
    BY <1>21 DEF PrioritySet, IInv, LivePrio
  <2>3. phase[c] = "thread" => running
    BY <1>2 DEF BootIsEmpty
  <2>4. CASE state[t] = "READY" /\ p > prio[t]
    BY <1>21, <2>1, <2>4, MadeReadyRequested DEF PrioritySet
  <2>5. CASE state[t] = "READY" /\ ~(p > prio[t])
    <3>1. MakeReady(t, p) /\ RequestIfRunning(c, {})
      BY <1>21, <2>5 DEF PrioritySet
    <3>2. /\ bitmap' \subseteq bitmap \cup {p} /\ prio[t] \in bitmap
      <4>1. t \in Members(ready[prio[t]])
        BY <2>2, <2>5 DEF IInv, QueuesExact
      <4>2. ready[prio[t]] # << >>
        BY <4>1, <2>2, MembersOfSeq DEF IInv, TypeOK
      <4> QED
        BY <3>1, <2>2, <4>2 DEF MakeReady, UnlinkedBitmap, IInv, QueuesExact
    <3>3. \A d \in Core : /\ pendsv[d] => pendsv'[d]
                          /\ switchPending[d] => switchPending'[d]
      BY <3>1, RequestHere
    <3>4. ASSUME phase[c] = "thread", NEW q \in bitmap', q > PrioOf(current[c])'
          PROVE  \/ \E r \in bitmap : r > PrioOf(current[c])
                 \/ pendsv'[c]
      <4>1. CASE current[c] = t
        BY <2>5, <3>3, <3>4, <4>1, SwitchIsPended
      <4>2. CASE current[c] # t
        <5>1. PrioOf(current[c])' = PrioOf(current[c]) /\ PrioOf(current[c]) \in Nat
          BY <1>3, <2>1, <4>2 DEF PrioOf
        <5>2. CASE q \in bitmap
          BY <3>4, <5>1, <5>2
        <5>3. CASE q = p
          <6>1. prio[t] > PrioOf(current[c])
            BY <1>21, <1>3, <2>5, <3>4, <5>1, <5>3
          <6> QED
            BY <3>2, <6>1
        <5> QED
          BY <3>2, <5>2, <5>3
      <4> QED
        BY <4>1, <4>2
    <3> QED
      BY <2>1, <3>3, <3>4, PreemptionFrame
  <2>6. CASE state[t] # "READY"
    <3>1. /\ bitmap' = bitmap
          /\ RequestIfRunning(c, IF state[t] = "RUNNING" THEN LoweredNudge(t, p) ELSE {})
      BY <1>21, <2>6 DEF PrioritySet
    <3>2. /\ \A d \in Core : /\ pendsv[d] => pendsv'[d]
                             /\ switchPending[d] => switchPending'[d]
          /\ running /\ state[t] = "RUNNING" /\ c \in LoweredNudge(t, p) =>
                pendsv'[c] \/ (lockCount[c] > 0 /\ switchPending'[c])
      BY <3>1, RequestHere
    <3>3. ASSUME phase[c] = "thread", NEW q \in bitmap, q > PrioOf(current[c])'
          PROVE  \/ \E r \in bitmap : r > PrioOf(current[c])
                 \/ pendsv'[c]
                 \/ lockCount[c] > 0 /\ switchPending'[c]
      <4>1. CASE current[c] # t
        BY <2>1, <3>3, <4>1 DEF PrioOf
      <4>2. CASE current[c] = t /\ state[t] # "RUNNING"
        BY <3>2, <3>3, <4>2, SwitchIsPended
      <4>3. CASE current[c] = t /\ state[t] = "RUNNING"
        <5>1. q > p /\ PrioOf(current[c]) = prio[t]
          BY <2>1, <3>3, <4>3 DEF PrioOf
        <5>2. CASE p < prio[t]
          <6>1. c \in LoweredNudge(t, p)
            BY <4>3, <5>1, <5>2 DEF LoweredNudge
          <6> QED
            BY <2>3, <3>2, <3>3, <4>3, <6>1
        <5>3. CASE ~(p < prio[t])
          <6>1. q > prio[t]
            BY <1>21, <1>1, <1>3, <3>3, <5>1, <5>3
          <6> QED
            BY <5>1, <6>1
        <5> QED
          BY <5>2, <5>3
      <4> QED
        BY <4>1, <4>2, <4>3
    <3> QED
      BY <2>1, <3>1, <3>2, <3>3, PreemptionFrame
  <2> QED
    BY <2>4, <2>5, <2>6
<1>22. ASSUME NEW c \in Core, NEW t \in Task, NEW mask \in AffinityMask, AffinitySet(c, t, mask)
       PROVE  PreemptionRequested'
  <2>1. PICK targets : RequestIfRunning(c, targets)
    BY <1>22 DEF AffinitySet
  <2>2. UNCHANGED <<current, phase, lockCount, prio, bitmap>>
    BY <1>22 DEF AffinitySet
  <2>3. \A d \in Core : /\ pendsv[d] => pendsv'[d]
                        /\ switchPending[d] => switchPending'[d]
    BY <2>1, RequestHere
  <2> QED
    BY <2>2, <2>3, PreemptionFrame DEF PrioOf
<1>23. ASSUME NEW c \in Core, NEW t \in Task, Wake(c, t)
       PROVE  PreemptionRequested'
  <2>1. prio[t] \in Prio /\ running
    BY <1>23, <1>2 DEF Wake, IInv, LivePrio, Live, InTask, InIsr, BootIsEmpty
  <2>2. RequestIfRunning(c, Nudge(c, t, prio[t]))
    BY <1>23, <2>1 DEF Wake, RequestIfRunning
  <2> QED
    BY <1>23, <1>1, <2>1, <2>2, MadeReadyRequested DEF Wake
<1>24. CASE UNCHANGED vars
  BY <1>24, PreemptionFrame DEF vars, PrioOf
<1> QED
  BY <1>4, <1>5, <1>6, <1>7, <1>8, <1>9, <1>10, <1>11, <1>12, <1>13, <1>14, <1>15, <1>16,
     <1>17, <1>18, <1>19, <1>20, <1>21, <1>22, <1>23, <1>24
  DEF Next, CoreStep, TaskApi, Select

\* On one core a ready task that outranks the one that executes has a switch
\* requested for it, whichever of os_task_start, os_task_priority_set, a wake, the
\* tick and the scheduler lock brought the two together.
THEOREM PreemptionAlwaysRequested ==
    ASSUME NumCores = 1
    PROVE  Spec => []PreemptionRequested
<1>1. Init => PreemptionRequested
  BY DEF Init, PreemptionRequested
<1>2. IInv /\ SavedRemembers /\ PreemptionRequested /\ [Next]_vars => PreemptionRequested'
  BY PreemptionStep
<1>3. Spec => [](SavedRemembers /\ AffinityRequested)
  BY InitRequests, AffinityStep, Invariance, PTL DEF Spec
<1> QED
  BY <1>1, <1>2, <1>3, Invariance, PTL DEF Spec
=============================================================================
