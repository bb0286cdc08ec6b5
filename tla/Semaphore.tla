------------------------------ MODULE Semaphore ------------------------------
(***************************************************************************)
(* Counting semaphores (semaphore.c) on the kernel: threads take with any  *)
(* timeout, threads and interrupt handlers give, threads cancel the waits, *)
(* under a preemptive tick.  A semaphore is named by its wait queue.       *)
(***************************************************************************)
EXTENDS Kernel

CONSTANTS
  Limit,          \* semaphore -> sem.limit
  Initial,        \* semaphore -> the initial_count given to k_sem_init()
  Sleepers,       \* threads that also call k_sleep()
  TimedTakers,    \* threads that take with a finite timeout
  MAX_TIMEOUT     \* bound on the timeouts (ticks)

ASSUME SemaphoreAssumption ==
  /\ Limit \in [Queues -> 1 .. 255]
  /\ Initial \in [Queues -> 0 .. 255]
  /\ Sleepers \subseteq Threads
  /\ TimedTakers \subseteq Threads
  /\ MAX_TIMEOUT \in Nat

VARIABLES
  count,          \* semaphore -> sem.count
  credit          \* semaphore -> units put in minus units handed out (history)

vars == <<k, ctx, count, credit>>

Take(s)   == credit' = [credit EXCEPT ![s] = @ - 1]
Accept(s) == credit' = [credit EXCEPT ![s] = @ + 1]

-------------------------------------------------------------------------------
\* k_sem_init
Count0(s) == IF Initial[s] < Limit[s] THEN Initial[s] ELSE Limit[s]

\* k_sem_take that tests for a unit without taking it.
k_sem_take_NoDecrement(t, s, timeout) ==
  /\ Running(t)
  /\ IF count[s] > 0
       THEN Take(s) /\ UNCHANGED <<k, count>>
       ELSE /\ k' = z_pend_current_on(k, s, timeout)
            /\ UNCHANGED <<count, credit>>
  /\ UNCHANGED ctx

k_sem_take(t, s, timeout) ==
  /\ Running(t)
  /\ IF count[s] > 0
       THEN /\ count' = [count EXCEPT ![s] = @ - 1]
            /\ Take(s)
            /\ UNCHANGED k
       ELSE /\ k' = z_pend_current_on(k, s, timeout)
            /\ UNCHANGED <<count, credit>>
  /\ UNCHANGED ctx

\* The end of a k_sem_take that had to wait.
k_sem_take_return(t) ==
  /\ Returning(t)
  /\ k' = Returned(k, t)
  /\ IF PendResult(k, t) = "OK" THEN Take(k.on[t]) ELSE UNCHANGED credit
  /\ UNCHANGED <<ctx, count>>

\* k_sem_give that counts the unit it hands to a waiting thread.
k_sem_give_CountsTwice(s) ==
  /\ InterruptsEnabled
  /\ k' = z_unpend_first_thread(k, s)
  /\ IF count[s] < Limit[s]
       THEN count' = [count EXCEPT ![s] = @ + 1] /\ Accept(s)
       ELSE UNCHANGED <<count, credit>>
  /\ UNCHANGED ctx

\* k_sem_give that forgets the limit.
k_sem_give_NoLimit(s) ==
  /\ InterruptsEnabled
  /\ k' = z_unpend_first_thread(k, s)
  /\ count' = IF FirstPending(k, s) # NULL THEN count
              ELSE [count EXCEPT ![s] = (@ + 1) % 256]
  /\ Accept(s)
  /\ UNCHANGED ctx

\* Called by the running thread or by an interrupt handler.
k_sem_give(s) ==
  /\ InterruptsEnabled
  /\ k' = z_unpend_first_thread(k, s)
  /\ IF FirstPending(k, s) # NULL
       THEN Accept(s) /\ UNCHANGED count
       ELSE IF count[s] < Limit[s]
         THEN count' = [count EXCEPT ![s] = @ + 1] /\ Accept(s)
         ELSE UNCHANGED <<count, credit>>
  /\ UNCHANGED ctx

k_sem_cancel_wait(t, s) ==
  /\ Running(t)
  /\ ctx' = [in |-> "cancel", q |-> s]
  /\ UNCHANGED <<k, count, credit>>

k_sem_cancel_wait_end ==
  /\ ctx.in = "cancel"
  /\ DLIST_EMPTY(k.wq, ctx.q)
  /\ ctx' = InThread
  /\ UNCHANGED <<k, count, credit>>

-------------------------------------------------------------------------------
Init == /\ KernelInit
        /\ count = [s \in Queues |-> Count0(s)]
        /\ credit = count

TakeTimeouts(t) ==
  {K_NO_WAIT, K_FOREVER} \cup (IF t \in TimedTakers THEN 1 .. MAX_TIMEOUT ELSE {})

Thread(t) ==
  \/ /\ \/ k_yield(t)
        \/ t \in Sleepers /\ \E n \in 0 .. MAX_TIMEOUT : k_sleep(t, n)
     /\ UNCHANGED <<count, credit>>
  \/ k_sem_take_return(t)
  \/ \E s \in Queues : \/ \E n \in TakeTimeouts(t) : k_sem_take(t, s, n)
                       \/ k_sem_cancel_wait(t, s)

Sys == (Tick \/ k_yield_from_isr \/ CancelStep) /\ UNCHANGED <<count, credit>>

Next ==
  \/ \E t \in Threads : Thread(t)
  \/ \E s \in Queues : k_sem_give(s)
  \/ k_sem_cancel_wait_end
  \/ Sys

Spec == Init /\ [][Next]_vars

\* The interrupt flag of the tick stays set until the tick is served, so it is
\* served however briefly the interrupts are enabled; the loops of the kernel
\* and the returns from a wait run to their end with the interrupts disabled.
FairSpec ==
  /\ Spec
  /\ SF_vars(SysTick /\ UNCHANGED <<count, credit>>)
  /\ WF_vars((SchedEnterExpire \/ SchedEnterExit \/ CancelStep) /\ UNCHANGED <<count, credit>>)
  /\ WF_vars(k_sem_cancel_wait_end)
  /\ WF_vars(\E t \in Threads : k_sem_take_return(t))

-------------------------------------------------------------------------------
(* Properties *)

\* The type invariant.
TypeOK ==
  /\ KernelTypeOK
  /\ count \in [Queues -> 0 .. 255]
  /\ \A s \in Queues : count[s] <= Limit[s]
  /\ credit \in [Queues -> Nat]

\* The threads that were handed a unit of s and have not returned with it yet.
InFlight(s) ==
  {t \in Threads : k.on[t] = s /\ k.state[t] # "PENDING" /\ PendResult(k, t) = "OK"}

\* No unit is lost or made up, whatever the order of takes, gives from threads
\* and interrupts, timeouts and cancellations: what was put in and not handed
\* out is either counted or on its way to a woken thread.
Conservation ==
  \A s \in Queues : credit[s] = count[s] + Cardinality(InFlight(s))

\* No lost wake-up: while a thread waits on a semaphore, no unit is available.
NoLostWakeUp ==
  \A s \in Queues : count[s] > 0 => Waiting(k, s) = {}

\* A wait with a timeout ends: the thread is made ready again (it then runs
\* when the scheduler lets it), even if no unit is ever given.
TimedWaitEnds ==
  \A t \in Threads : t \in k.wakeup ~> t \notin k.wakeup

-------------------------------------------------------------------------------
(* The inductive invariant *)

\* A kernel loop is entered from application code, never on the way out of
\* z_pend_current_on: the result flags of the current thread may be cleared.
ContextOK ==
  /\ ctx \in {InThread, [in |-> "sched_enter", q |-> NULL]}
               \cup {[in |-> "cancel", q |-> s] : s \in Queues}
  /\ ctx # InThread => (k.current \in Threads => k.on[k.current] = NULL)

\* A pending thread has no result yet.
FlagsOK ==
  \A t \in Threads : k.state[t] = "PENDING" => t \notin k.expired \cup k.canceled

\* A semaphore take, a give or a cancellation leaves the kernel state consistent,
\* and no unit is lost in any of them.
IInv == /\ KernelOK(k, Sleepers)
        /\ CurrentOK(k)
        /\ ContextOK
        /\ FlagsOK
        /\ TypeOK
        /\ Conservation
        /\ NoLostWakeUp
===============================================================================
