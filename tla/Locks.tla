-------------------------------- MODULE Locks --------------------------------
(***************************************************************************)
(* Mutexes and semaphores together: a task may wait for a semaphore while  *)
(* it holds a mutex that others wait for.                                  *)
(***************************************************************************)
EXTENDS Sem, Mutex

ASSUME LocksAssumption == WaitList = Semaphore \cup Mutex /\ Semaphore \cap Mutex = {}

vars == <<waitingVars, semCount, mutexVars>>

Init == WaitingInit /\ SemaphoresInit /\ MutexesInit

\* The steps that leave the mutexes alone.
PlainStep(t) ==
    \/ TakeStep(t)
    \/ /\ \/ \E s \in WaitList, limit \in Timeout : Call(t, s, limit)
          \/ Resume(t) \/ Dispatch(t) \/ SwitchOut(t)
       /\ UNCHANGED semCount

Next ==
    \/ Quiet /\ UNCHANGED mutexVars /\ \E s \in Semaphore : SemStep(s)
    \/ SectionStep /\ UNCHANGED semCount
    \/ \E t \in Task :
          \/ Quiet /\ UNCHANGED mutexVars /\ PlainStep(t)
          \/ (MutexCallStep(t) \/ TaskStep(t)) /\ UNCHANGED semCount

Spec == Init /\ [][Next]_vars

-----------------------------------------------------------------------------
\* The variables keep their types.
TypeOK == WaitingTypeOK /\ SemTypeOK /\ MutexTypeOK
=============================================================================
