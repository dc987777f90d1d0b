-------------------------------- MODULE Event --------------------------------
(***************************************************************************)
(* Event flags, kernel/os_event.c, over the waiting machinery of module    *)
(* Waiting: a set of bits, and tasks that wait for any or all of some bits *)
(* and may consume them.  os_event_set_bits decides every waiter's         *)
(* condition against one snapshot and hands each its delivery.             *)
(*                                                                         *)
(* What a wait asks for is chosen when the call is made, and is also what  *)
(* os_task_wait_data_set publishes before the task blocks.                 *)
(***************************************************************************)
EXTENDS Waiting

CONSTANTS
    EventId,        \* the event objects, each named by its waiter list
    Bit,            \* the flag bits
    Request         \* the waits that tasks ask for

ASSUME EventAssumption ==
    /\ EventId \subseteq WaitList
    /\ Request \subseteq [bits : (SUBSET Bit) \ {{}}, all : BOOLEAN, clear : BOOLEAN]
    /\ Request # {}

VARIABLES
    flags,          \* event->flags
    request,        \* bits, wait_all and clear_on_exit of the task's wait
    result          \* tcb->wait_result

eventVars == <<flags, request, result>>

EventsInit ==
    /\ flags \in [EventId -> SUBSET Bit]
    /\ request \in [Task -> Request]
    /\ result = [t \in Task |-> {}]

\* What of the bits now the wait r is satisfied with: not at all if empty.
Match(r, now) == IF r.all /\ ~ r.bits \subseteq now THEN {} ELSE r.bits \cap now

Satisfied(r, now) == Match(r, now) # {}

\* What a satisfied wait takes out of the flags.
Taken(r) == IF r.clear THEN r.bits ELSE {}

-----------------------------------------------------------------------------
(* From tasks and interrupt handlers.                                      *)

\* os_event_init on an event that exists already; BUSY while it has waiters.
EventInit(e) ==
    /\ waiters[e] = << >>
    /\ flags' = [flags EXCEPT ![e] = {}]
    /\ UNCHANGED <<waitingVars, request, result>>

\* Mutant: only the first satisfied waiter is woken.
FirstMatching(e, now) ==
    LET hits == {i \in DOMAIN waiters[e] : Satisfied(request[waiters[e][i]], now)}
    IN  {waiters[e][i] : i \in {j \in hits : \A k \in hits : j <= k}}

\* The waiters os_event_waiter_match accepts.
Matching(e, now) == {t \in Members(waiters[e]) : Satisfied(request[t], now)}

SetBits(e, bits) ==
    LET now == flags[e] \cup bits
        hits == Matching(e, now)
    IN  /\ WakeAll(hits, {})
        /\ result' = [t \in Task |-> IF t \in hits THEN Match(request[t], now) ELSE result[t]]
        /\ flags' = [flags EXCEPT ![e] = now \ UNION {Taken(request[t]) : t \in hits}]
        /\ UNCHANGED <<callVars, request>>

ClearBits(e, bits) ==
    /\ flags' = [flags EXCEPT ![e] = @ \ bits]
    /\ UNCHANGED <<waitingVars, request, result>>

-----------------------------------------------------------------------------
(* os_event_wait_bits.                                                     *)

EventCall(t, e, limit, r) ==
    /\ Call(t, e, limit)
    /\ request' = [request EXCEPT ![t] = r]
    /\ UNCHANGED <<flags, result>>

Matched(t, e) == Satisfied(request[t], flags[e])

WaitOk(t, e) ==
    /\ Trying(t) /\ target[t] = e /\ Matched(t, e)
    /\ flags' = [flags EXCEPT ![e] = @ \ Taken(request[t])]
    /\ Finish(t)
    /\ UNCHANGED <<request, result>>

\* OS_ERR_BUSY, or OS_ERR_TIMEOUT when a spurious wakeup came too late.
WaitFail(t, e) ==
    /\ Trying(t) /\ target[t] = e /\ ~Matched(t, e)
    /\ GivesUp(t)
    /\ Finish(t)
    /\ UNCHANGED eventVars

\* Mutant: os_task_wait_data_set leaves the last delivery in place.
WaitBlockKeepsResult(t, e) ==
    /\ Trying(t) /\ target[t] = e /\ ~Matched(t, e)
    /\ WaitBegin(t)
    /\ UNCHANGED eventVars

\* os_task_wait_data_set and os_task_wait_begin.
WaitBlock(t, e) ==
    /\ Trying(t) /\ target[t] = e /\ ~Matched(t, e)
    /\ WaitBegin(t)
    /\ result' = [result EXCEPT ![t] = {}]
    /\ UNCHANGED <<flags, request>>

\* Signaled with a delivery: reported as it is.
WaitDelivered(t, e) ==
    /\ Executing(t) /\ pc[t] = "wait" /\ target[t] = e
    /\ signaled[t] /\ result[t] # {}
    /\ Finish(t)
    /\ UNCHANGED eventVars

\* Signaled without one, or not signaled.
WaitResume(t, e) ==
    /\ target[t] = e
    /\ ~(signaled[t] /\ result[t] # {})
    /\ Resume(t)
    /\ UNCHANGED eventVars

WaitTimedOut(t, e) ==
    /\ target[t] = e
    /\ TimedOut(t)
    /\ UNCHANGED eventVars

\* In an interrupt handler, which never waits.
IsrWaitOk(e, r) ==
    /\ Satisfied(r, flags[e])
    /\ flags' = [flags EXCEPT ![e] = @ \ Taken(r)]
    /\ UNCHANGED <<waitingVars, request, result>>

-----------------------------------------------------------------------------
EventStep(e) ==
    \/ EventInit(e)
    \/ \E bits \in SUBSET Bit : SetBits(e, bits) \/ ClearBits(e, bits)
    \/ \E r \in Request : IsrWaitOk(e, r)

\* The steps of t's own wait.
EventWaitStep(t) ==
    \E e \in EventId :
        \/ \E limit \in Timeout, r \in Request : EventCall(t, e, limit, r)
        \/ WaitOk(t, e) \/ WaitFail(t, e) \/ WaitBlock(t, e)
        \/ WaitDelivered(t, e) \/ WaitResume(t, e) \/ WaitTimedOut(t, e)

\* os_task_tcb_clear resets the result of a deleted task.
EventForgets(t) ==
    /\ result' = IF state'[t] = "INACTIVE" THEN [result EXCEPT ![t] = {}] ELSE result
    /\ UNCHANGED <<flags, request>>

-----------------------------------------------------------------------------
(* Properties.                                                             *)

EventTypeOK ==
    /\ flags \in [EventId -> SUBSET Bit]
    /\ request \in [Task -> Request]
    /\ result \in [Task -> SUBSET Bit]

\* No task waits for bits that are there: whoever sets or clears bits, and
\* whatever ends a wait, a satisfied waiter has been woken in the same step.
NoSatisfiedWaiter ==
    \A e \in EventId : \A t \in Members(waiters[e]) : ~Satisfied(request[t], flags[e])

\* What a woken task will report satisfies the wait it is in: it is never the
\* delivery of an earlier wait, nor bits the task did not ask for.
DeliveryFits ==
    \A t \in Task :
        pc[t] = "wait" /\ target[t] \in EventId /\ result[t] # {}
            => signaled[t] /\ result[t] = Match(request[t], result[t])
=============================================================================
