-------------------------------- MODULE Mutex --------------------------------
(***************************************************************************)
(* Mutexes and condition variables (mutex.c, condvar.c) on the kernel, in  *)
(* the configuration CONFIG_KERNEL_REENTRANCY == 0.  A mutex and a         *)
(* condition variable are named by their wait queues.  The threads use     *)
(* them as the headers ask: a thread locks only a mutex it does not hold,  *)
(* unlocks and waits on a condition variable only with a mutex it holds.   *)
(***************************************************************************)
EXTENDS Waiters

CONSTANTS
  Mutexes,        \* the mutexes
  Condvars,       \* the condition variables
  CondMutex       \* condition variable -> the mutex it is used with

ASSUME MutexAssumption ==
  /\ Mutexes \cup Condvars \subseteq Queues
  /\ Mutexes \cap Condvars = {}
  /\ CondMutex \in [Condvars -> Mutexes]

VARIABLES
  lock,           \* mutex -> mutex.lock
  owner,          \* mutex -> mutex.owner
  relock,         \* thread -> the mutex that its k_condvar_wait() must lock again
  has,            \* thread -> the mutexes it was told it has locked (history)
  reclaimed       \* the mutexes locked again by the thread that was handing
                  \* them over, before the new owner ran (history)

mutexVars == <<lock, owner, relock, has, reclaimed>>

Free(t) == Running(t) /\ relock[t] = NULL

Acquire(t, m) == has' = [has EXCEPT ![t] = @ \cup {m}]
Release(t, m) == has' = [has EXCEPT ![t] = @ \ {m}]

-------------------------------------------------------------------------------
\* The body of k_mutex_lock up to its return or its wait; the relock variable
\* is left to the callers.
LockBody(t, m, timeout) ==
  \/ /\ lock[m] = 0
     /\ lock' = [lock EXCEPT ![m] = 1]
     /\ owner' = [owner EXCEPT ![m] = t]
     /\ Acquire(t, m)
     /\ UNCHANGED <<k, reclaimed>>
  \/ /\ lock[m] # 0
     /\ owner[m] = t
     /\ Acquire(t, m)
     /\ reclaimed' = reclaimed \cup {m}
     /\ UNCHANGED <<k, lock, owner>>
  \/ /\ lock[m] # 0
     /\ owner[m] # t
     /\ k' = z_pend_current_on(k, m, timeout)
     /\ UNCHANGED <<lock, owner, has, reclaimed>>

k_mutex_lock(t, m, timeout) ==
  /\ Free(t)
  /\ m \notin has[t]
  /\ LockBody(t, m, timeout)
  /\ UNCHANGED <<ctx, swap_data, relock>>

\* The end of a k_mutex_lock that had to wait.
k_mutex_lock_return(t) ==
  LET m == k.on[t]
  IN  /\ m \in Mutexes
      /\ PendReturn(t, m)
      /\ IF PendResult(k, t) = "OK"
           THEN owner' = [owner EXCEPT ![m] = t] /\ Acquire(t, m)
           ELSE UNCHANGED <<owner, has>>
      /\ UNCHANGED <<lock, relock, reclaimed>>

\* k_mutex_unlock that unlocks the mutex although it is handed over.
UnlockBody_AlwaysFrees(t, m) ==
  IF owner[m] # t
    THEN UNCHANGED <<lock, owner>>
    ELSE lock' = [lock EXCEPT ![m] = 0] /\ owner' = [owner EXCEPT ![m] = NULL]

\* What k_mutex_unlock does to the mutex ...
UnlockBody(t, m) ==
  IF owner[m] # t \/ FirstPending(k, m) # NULL
    THEN UNCHANGED <<lock, owner>>
    ELSE lock' = [lock EXCEPT ![m] = 0] /\ owner' = [owner EXCEPT ![m] = NULL]

\* ... and to the kernel.
UnlockKernel(t, m) == IF owner[m] # t THEN k ELSE z_unpend_first_thread(k, m)

k_mutex_unlock(t, m) ==
  /\ Free(t)
  /\ m \in has[t]
  /\ UnlockBody(t, m)
  /\ k' = UnlockKernel(t, m)
  /\ Release(t, m)
  /\ UNCHANGED <<ctx, swap_data, relock, reclaimed>>

k_mutex_cancel_wait(t, m) ==
  Free(t) /\ z_cancel_all_pending(t, m) /\ UNCHANGED mutexVars

-------------------------------------------------------------------------------
\* k_condvar_wait up to its wait: one step, under one irq_lock.
k_condvar_wait(t, c, timeout) ==
  LET m == CondMutex[c]
  IN  /\ Free(t)
      /\ m \in has[t]
      /\ UnlockBody(t, m)
      /\ k' = z_pend_current_on(UnlockKernel(t, m), c, timeout)
      /\ Release(t, m)
      /\ UNCHANGED <<ctx, swap_data, relock, reclaimed>>

k_condvar_wait_return(t) ==
  LET cv == k.on[t]
  IN  /\ cv \in Condvars
      /\ PendReturn(t, cv)
      /\ relock' = IF PendResult(k, t) = "OK"
                     THEN [relock EXCEPT ![t] = CondMutex[cv]] ELSE relock
      /\ UNCHANGED <<lock, owner, has, reclaimed>>

\* The k_mutex_lock(mutex, K_FOREVER) at the end of k_condvar_wait.
k_condvar_wait_relock(t) ==
  /\ Running(t)
  /\ relock[t] # NULL
  /\ LockBody(t, relock[t], K_FOREVER)
  /\ relock' = [relock EXCEPT ![t] = NULL]
  /\ UNCHANGED <<ctx, swap_data>>

\* Called by the running thread or by an interrupt handler.
k_condvar_broadcast(c) ==
  /\ InterruptsEnabled
  /\ ctx' = [in |-> "drain", q |-> c]
  /\ UNCHANGED <<k, swap_data, mutexVars>>

k_condvar_broadcast_end ==
  /\ ctx.in = "drain"
  /\ DLIST_EMPTY(k.wq, ctx.q)
  /\ ctx' = InThread
  /\ UNCHANGED <<k, swap_data, mutexVars>>

\* The services of the mutexes and of the condition variables, and their ends.
MutexNext ==
  \/ \E t \in Threads :
       \/ \E m \in Mutexes : \/ \E n \in Timeouts(t) : k_mutex_lock(t, m, n)
                             \/ k_mutex_unlock(t, m) \/ k_mutex_cancel_wait(t, m)
       \/ \E cv \in Condvars, n \in Timeouts(t) : k_condvar_wait(t, cv, n)
       \/ k_mutex_lock_return(t) \/ k_condvar_wait_return(t) \/ k_condvar_wait_relock(t)
  \/ \E cv \in Condvars : k_condvar_broadcast(cv)
  \/ k_condvar_broadcast_end
  \/ \E m \in Mutexes : CancelEnd(m) /\ UNCHANGED mutexVars

-------------------------------------------------------------------------------
MutexInit == /\ lock = [m \in Mutexes |-> 0]
             /\ owner = [m \in Mutexes |-> NULL]
             /\ relock = [t \in Threads |-> NULL]
             /\ has = [t \in Threads |-> {}]
             /\ reclaimed = {}

Holders(m) == {t \in Threads : m \in has[t]}

\* While no mutex is reclaimed during a hand-over, a locked mutex has exactly one
\* holder or one thread it is handed to, an unlocked one has none, and owner
\* names the holder: no two threads in the critical section, and no mutex left
\* locked for nobody, whatever the order of unlocks, timeouts, cancellations,
\* condition variable waits and preemptions.
OneHolder ==
  \A m \in Mutexes \ reclaimed :
    /\ Cardinality(Holders(m) \cup HandedOver(m)) = lock[m]
    /\ Holders(m) \cap HandedOver(m) = {}
    /\ \A t \in Holders(m) : owner[m] = t

\* At most one thread holds a mutex.
MutualExclusion == \A m \in Mutexes : Cardinality(Holders(m)) <= 1

\* When its wait on a condition variable ends, a thread locks the mutex again
\* before k_condvar_wait() returns.
CondvarReacquires ==
  [][\A t \in Threads : (k.on[t] \in Condvars /\ k'.on[t] = NULL)
                          => relock'[t] = CondMutex[k.on[t]]]_<<k, relock>>
===============================================================================
