--------------------------- MODULE SemaphoreProofs ---------------------------
(***************************************************************************)
(* The semaphores of semaphore.c keep their invariants and implement       *)
(* SemaphoreAbs for any number of threads and semaphores and any timeouts, *)
(* provided that a thread that takes with a timeout never sleeps (see      *)
(* LinksOK in Kernel).                                                     *)
(***************************************************************************)
EXTENDS SemaphoreRefinement, KernelProofs

\* The threads that sleep and the threads that take with a timeout are different.
Discipline == Sleepers \cap TimedTakers = {}

KernelPart == KernelOK(k, Sleepers) /\ CurrentOK(k) /\ ContextOK /\ FlagsOK

\* What a step that touches no semaphore has to do to keep the invariant.
Neutral == \A s \in Queues : InFlight(s)' = InFlight(s) /\ Waiting(k', s) \subseteq Waiting(k, s)

LEMMA SleepersType == Sleepers \in SUBSET Threads
BY Zenon, SemaphoreAssumption

\* A thread of InFlight(s), spelled out.
LEMMA InFlightDef ==
  \A s, t : t \in InFlight(s) <=> /\ t \in Threads
                                  /\ k.on[t] = s
                                  /\ k.state[t] # "PENDING"
                                  /\ t \notin k.expired
                                  /\ t \notin k.canceled
BY Zenon DEF InFlight, PendResult

LEMMA InFlightDefNext ==
  \A s, t : t \in InFlight(s)' <=> /\ t \in Threads
                                   /\ k'.on[t] = s
                                   /\ k'.state[t] # "PENDING"
                                   /\ t \notin k'.expired
                                   /\ t \notin k'.canceled
BY Zenon DEF InFlight, PendResult

LEMMA InFlightFinite ==
  \A s : IsFiniteSet(InFlight(s)) /\ Cardinality(InFlight(s)) \in Nat
<1> SUFFICES ASSUME NEW s
             PROVE  IsFiniteSet(InFlight(s)) /\ Cardinality(InFlight(s)) \in Nat
  BY Zenon
<1>1. InFlight(s) \in SUBSET Threads
  BY Zenon DEF InFlight
<1> QED BY <1>1, Countable

\* TypeOK is implied by the rest of the invariant, once the counters are natural
\* numbers.
LEMMA KernelPartType == KernelPart => KernelTypeOK
<1> SUFFICES ASSUME KernelPart PROVE KernelTypeOK
  BY Zenon
<1>1. k \in KernelStates /\ IdleOK(k)
  BY Zenon DEF KernelPart, KernelOK
<1>2. ctx \in [in : {"thread", "sched_enter", "drain", "cancel"}, q : Queues \cup {NULL}]
  BY DEF KernelPart, ContextOK, InThread
<1> QED BY Zenon, <1>1, <1>2 DEF KernelTypeOK

\* A step that touches no semaphore keeps the invariant.
LEMMA NeutralStep ==
  ASSUME IInv, KernelPart', Neutral, UNCHANGED <<count, credit>>
  PROVE  IInv'
<1>1. TypeOK'
  <2>1. KernelTypeOK'
    BY KernelPartType, PTL
  <2> QED BY Zenon, <2>1 DEF TypeOK, IInv
<1>2. Conservation'
  BY Zenon DEF IInv, Conservation, Neutral
<1>3. NoLostWakeUp'
  BY Zenon DEF IInv, NoLostWakeUp, Neutral
<1> QED BY Zenon, <1>1, <1>2, <1>3 DEF IInv, KernelPart

-----------------------------------------------------------------------------
(* The steps that touch no semaphore *)

\* z_scheduler clears the flags of the current thread only, which has no result
\* to return.
LEMMA SwitchStep ==
  ASSUME IInv, k' = z_scheduler(k), ctx' = InThread,
         k.current \in Threads => k.on[k.current] = NULL
  PROVE  KernelPart' /\ Neutral
<1>1. /\ KernelOK(k', Sleepers) /\ CurrentOK(k')
      /\ k'.state = k.state /\ k'.on = k.on
      /\ k'.expired = k.expired \ {k.current}
      /\ k'.canceled = k.canceled \ {k.current}
  BY Zenon, SwitchOK DEF IInv
<1>2. ContextOK' /\ FlagsOK'
  BY Zenon, <1>1 DEF ContextOK, FlagsOK, IInv
<1>3. Neutral
  <2> SUFFICES ASSUME NEW s \in Queues
               PROVE  InFlight(s)' = InFlight(s) /\ Waiting(k', s) \subseteq Waiting(k, s)
    BY Zenon DEF Neutral
  <2>1. ASSUME NEW t PROVE t \in InFlight(s)' <=> t \in InFlight(s)
    BY <1>1, InFlightDef, InFlightDefNext, Disjoint
  <2> QED BY ZenonT(30), <1>1, <2>1 DEF Waiting
<1> QED BY Zenon, <1>1, <1>2, <1>3 DEF KernelPart

\* k_sleep by one of the Sleepers.
LEMMA SleepStep ==
  ASSUME IInv, NEW t \in Sleepers, NEW n \in Nat, k_sleep(t, n)
  PROVE  KernelPart' /\ Neutral
<1>1. k.current = t /\ k.on[t] = NULL /\ ctx = InThread /\ ctx' = InThread
      /\ k' = z_pend_current(k, n) /\ t \in Threads
  BY Zenon DEF k_sleep, Running
<1>2. /\ KernelOK(k', Sleepers) /\ CurrentOK(k')
      /\ k.state[t] = "READY"
      /\ k'.state = [k.state EXCEPT ![t] = "PENDING"]
      /\ k'.expired = k.expired \ {t} /\ k'.canceled = k.canceled \ {t}
      /\ k'.on = k.on
  BY ZenonT(30), <1>1, SleepersType, SleepCurrent DEF IInv
<1>3. k \in KernelStates
  BY Zenon DEF IInv, KernelOK
<1>4. ContextOK'
  BY Zenon, <1>1 DEF ContextOK
<1>5. FlagsOK'
  BY Zenon, <1>2, <1>3 DEF FlagsOK, IInv, KernelStates, ThreadStates
<1>6. Neutral
  <2> SUFFICES ASSUME NEW s \in Queues
               PROVE  InFlight(s)' = InFlight(s) /\ Waiting(k', s) \subseteq Waiting(k, s)
    BY Zenon DEF Neutral
  <2>1. ASSUME NEW u PROVE u \in InFlight(s)' <=> u \in InFlight(s)
    BY <1>1, <1>2, <1>3, InFlightDef, InFlightDefNext, Disjoint DEF KernelStates, ThreadStates
  <2>2. ASSUME NEW u \in Waiting(k', s) PROVE u \in Waiting(k, s)
    BY <1>1, <1>2, <1>3, Disjoint DEF Waiting, KernelStates, ThreadStates
  <2>3. InFlight(s)' = InFlight(s)
    BY Zenon, <2>1
  <2> QED BY Zenon, <2>2, <2>3
<1> QED BY Zenon, <1>2, <1>4, <1>5, <1>6 DEF KernelPart

\* SysTick leaves the threads as they are.
LEMMA TickStep ==
  ASSUME IInv, SysTick
  PROVE  KernelPart' /\ Neutral
<1>1. /\ KernelOK(k', Sleepers) /\ CurrentOK(k')
      /\ k'.state = k.state /\ k'.on = k.on
      /\ k'.expired = k.expired /\ k'.canceled = k.canceled
      /\ ctx' \in {InThread, [in |-> "sched_enter", q |-> NULL]}
  BY Zenon, TickOK DEF IInv
<1>2. k'.current = k.current
  BY ZenonT(30) DEF SysTick, IInv, KernelOK, KernelStates
<1>3. ContextOK'
  BY Zenon, <1>1, <1>2 DEF ContextOK, SysTick, InterruptsEnabled
<1>4. FlagsOK'
  BY Zenon, <1>1 DEF FlagsOK, IInv
<1>5. Neutral
  <2> SUFFICES ASSUME NEW s \in Queues
               PROVE  InFlight(s)' = InFlight(s) /\ Waiting(k', s) \subseteq Waiting(k, s)
    BY Zenon DEF Neutral
  <2>1. ASSUME NEW t PROVE t \in InFlight(s)' <=> t \in InFlight(s)
    BY <1>1, InFlightDef, InFlightDefNext
  <2> QED BY ZenonT(30), <1>1, <2>1 DEF Waiting
<1> QED BY Zenon, <1>1, <1>3, <1>4, <1>5 DEF KernelPart

\* A thread woken by its timeout or by a cancellation has no unit.
LEMMA WokenEmptyHanded ==
  ASSUME IInv, NEW t \in Threads, k.state[t] = "PENDING",
         KernelOK(k', Sleepers), ctx' = ctx, ctx # InThread,
         Ready(k') = Ready(k) \cup {t},
         k'.state = [k.state EXCEPT ![t] = "READY"],
         k'.run_queue = IF Ready(k) = {} THEN t ELSE k.run_queue,
         k'.expired \cup k'.canceled = k.expired \cup k.canceled \cup {t},
         k'.current = k.current, k'.on = k.on
  PROVE  KernelPart' /\ Neutral
<1>1. k \in KernelStates
  BY Zenon DEF IInv, KernelOK
<1>2. CurrentOK(k')
  BY Zenon DEF CurrentOK, IInv
<1>3. ContextOK'
  BY Zenon DEF ContextOK, IInv
<1>4. FlagsOK'
  BY Zenon, <1>1 DEF FlagsOK, IInv, KernelStates, ThreadStates
<1>5. Neutral
  <2> SUFFICES ASSUME NEW s \in Queues
               PROVE  InFlight(s)' = InFlight(s) /\ Waiting(k', s) \subseteq Waiting(k, s)
    BY Zenon DEF Neutral
  <2>1. ASSUME NEW u PROVE u \in InFlight(s)' <=> u \in InFlight(s)
    <3>1. CASE u = t
      BY Zenon, <3>1, InFlightDef, InFlightDefNext
    <3>2. CASE u # t
      BY <1>1, <3>2, InFlightDef, InFlightDefNext DEF KernelStates, ThreadStates
    <3> QED BY Zenon, <3>1, <3>2
  <2> QED BY ZenonT(30), <1>1, <2>1 DEF Waiting, KernelStates, ThreadStates
<1> QED BY Zenon, <1>2, <1>3, <1>4, <1>5 DEF KernelPart

LEMMA ExpireStep ==
  ASSUME IInv, SchedEnterExpire
  PROVE  KernelPart' /\ Neutral
<1> DEFINE t == k.timeouts[1].item
<1>1. k' = Expire(k) /\ ctx' = ctx /\ ctx # InThread /\ HasExpired(k.timeouts)
  BY DEF SchedEnterExpire, InThread
<1>2. /\ t \in Threads /\ k.state[t] = "PENDING"
      /\ KernelOK(k', Sleepers)
      /\ Ready(k') = Ready(k) \cup {t}
      /\ k'.state = [k.state EXCEPT ![t] = "READY"]
      /\ k'.run_queue = IF Ready(k) = {} THEN t ELSE k.run_queue
      /\ k'.expired = k.expired \cup {t} /\ k'.canceled = k.canceled
      /\ k'.current = k.current /\ k'.on = k.on
  BY ZenonT(30), <1>1, SleepersType, ExpireFirst DEF IInv
<1> HIDE DEF t
<1>3. k'.expired \cup k'.canceled = k.expired \cup k.canceled \cup {t}
  BY Zenon, <1>2
<1> QED BY Zenon, <1>1, <1>2, <1>3, WokenEmptyHanded

LEMMA CancelStepOK ==
  ASSUME IInv, CancelStep
  PROVE  KernelPart' /\ Neutral
<1> DEFINE q == ctx.q
           t == k.wq.next[q]
<1>1. k' = z_cancel_first_pending(k, q) /\ ctx' = ctx /\ ctx # InThread
      /\ ~ DLIST_EMPTY(k.wq, q) /\ q \in Queues
  BY DEF CancelStep, InThread, IInv, ContextOK
<1> HIDE DEF q
<1> DEFINE r == z_cancel_first_pending(k, q)
<1>0. /\ t \in Waiting(k, q)
      /\ KernelOK(r, Sleepers)
      /\ Ready(r) = Ready(k) \cup {t}
      /\ r.state = [k.state EXCEPT ![t] = "READY"]
      /\ r.run_queue = IF Ready(k) = {} THEN t ELSE k.run_queue
      /\ r.wakeup = k.wakeup \ {t}
      /\ r.expired = k.expired /\ r.canceled = k.canceled \cup {t}
      /\ r.current = k.current /\ r.on = k.on
  <2>1. KernelOK(k, Sleepers)
    BY Zenon DEF IInv
  <2> QED BY ZenonT(30), <1>1, <2>1, SleepersType, CancelFirst
<1>2. /\ t \in Waiting(k, q)
      /\ KernelOK(k', Sleepers)
      /\ Ready(k') = Ready(k) \cup {t}
      /\ k'.state = [k.state EXCEPT ![t] = "READY"]
      /\ k'.run_queue = IF Ready(k) = {} THEN t ELSE k.run_queue
      /\ k'.expired = k.expired /\ k'.canceled = k.canceled \cup {t}
      /\ k'.current = k.current /\ k'.on = k.on
  BY Zenon, <1>0, <1>1
<1> HIDE DEF t
<1>3. t \in Threads /\ k.state[t] = "PENDING"
  BY Zenon, <1>2 DEF Waiting
<1>4. k'.expired \cup k'.canceled = k.expired \cup k.canceled \cup {t}
  BY Zenon, <1>2
<1> QED BY Zenon, <1>1, <1>2, <1>3, <1>4, WokenEmptyHanded

\* The end of the tick interrupt.
LEMMA ExitStep ==
  ASSUME IInv, SchedEnterExit
  PROVE  KernelPart' /\ Neutral
<1>1. ctx # InThread /\ ctx' = InThread
  BY DEF SchedEnterExit, InThread
<1>2. k.current \in Threads => k.on[k.current] = NULL
  BY Zenon, <1>1 DEF IInv, ContextOK
<1>3. CASE Preemptible(k)
  BY Zenon, <1>1, <1>2, <1>3, SwitchStep DEF SchedEnterExit
<1>4. CASE ~ Preemptible(k)
  <2>1. k' = k
    BY Zenon, <1>4 DEF SchedEnterExit
  <2>2. ContextOK'
    BY Zenon, <1>1 DEF ContextOK
  <2>3. FlagsOK' /\ Neutral
    BY Zenon, <2>1 DEF FlagsOK, Neutral, IInv, InFlight, PendResult
  <2> QED BY Zenon, <2>1, <2>2, <2>3 DEF IInv, KernelPart
<1> QED BY Zenon, <1>3, <1>4

-----------------------------------------------------------------------------
(* The operations of semaphore.c *)

\* k_sem_take that finds a unit takes it off the count.
LEMMA TakeUnit ==
  ASSUME IInv, NEW s \in Queues, count[s] > 0, UNCHANGED <<k, ctx>>,
         count' = [count EXCEPT ![s] = @ - 1], Take(s)
  PROVE  IInv'
<1>1. /\ KernelTypeOK' /\ KernelOK(k', Sleepers) /\ CurrentOK(k')
      /\ ContextOK' /\ FlagsOK'
  BY Zenon DEF IInv, TypeOK, KernelTypeOK, ContextOK, FlagsOK
<1>2. \A q \in Queues : InFlight(q)' = InFlight(q) /\ Waiting(k', q) = Waiting(k, q)
  BY Zenon DEF InFlight, PendResult
<1>3. /\ count \in [Queues -> 0 .. 255] /\ credit \in [Queues -> Nat]
      /\ Limit \in [Queues -> 1 .. 255]
  BY ZenonT(30), SemaphoreAssumption DEF IInv, TypeOK
<1>4. \A q \in Queues : credit[q] = count[q] + Cardinality(InFlight(q))
  BY Zenon DEF IInv, Conservation
<1>5. /\ count' \in [Queues -> 0 .. 255] /\ credit' \in [Queues -> Nat]
      /\ \A q \in Queues : count'[q] <= Limit[q]
  <2>1. \A q \in Queues : count[q] <= Limit[q]
    BY Zenon DEF IInv, TypeOK
  <2>2. count[s] - 1 \in 0 .. 255 /\ count[s] - 1 <= Limit[s]
    <3>1. count[s] \in 0 .. 255 /\ Limit[s] \in 1 .. 255 /\ count[s] <= Limit[s]
      BY Zenon, <1>3, <2>1
    <3> DEFINE c == count[s]
               l == Limit[s]
    <3>2. c \in 0 .. 255 /\ l \in 1 .. 255 /\ c <= l /\ c > 0
      BY Zenon, <3>1
    <3> HIDE DEF c, l
    <3>3. c - 1 \in 0 .. 255 /\ c - 1 <= l
      BY <3>2
    <3> QED BY SMTT(30), <3>3 DEF c, l
  <2>3. credit[s] - 1 \in Nat
    BY <1>3, <1>4, InFlightFinite
  <2>4. credit' = [credit EXCEPT ![s] = credit[s] - 1]
    BY Zenon DEF Take
  <2>5. count' = [count EXCEPT ![s] = count[s] - 1]
    BY Zenon
  <2> QED BY <1>3, <2>1, <2>2, <2>3, <2>4, <2>5
<1>6. Conservation'
  <2> SUFFICES ASSUME NEW q \in Queues
               PROVE  credit'[q] = count'[q] + Cardinality(InFlight(q)')
    BY Zenon DEF Conservation
  <2>1. credit[q] \in Nat /\ count[q] \in 0 .. 255 /\ Cardinality(InFlight(q)) \in Nat
        /\ Cardinality(InFlight(q)') = Cardinality(InFlight(q))
    BY Zenon, <1>2, <1>3, InFlightFinite
  <2>2. CASE q = s
    BY <1>3, <1>4, <2>1, <2>2 DEF Take
  <2>3. CASE q # s
    BY Zenon, <1>3, <1>4, <2>1, <2>3 DEF Take
  <2> QED BY Zenon, <2>2, <2>3
<1>7. NoLostWakeUp'
  BY Zenon, <1>2, <1>3 DEF IInv, NoLostWakeUp
<1> QED BY Zenon, <1>1, <1>5, <1>6, <1>7 DEF IInv, TypeOK

\* k_sem_take that finds no unit and waits.
LEMMA TakeWait ==
  ASSUME IInv, NEW s \in Queues, NEW t \in Threads, Running(t), count[s] = 0,
         NEW timeout \in Nat \cup {K_FOREVER}, timeout # K_NO_WAIT,
         timeout # K_FOREVER => t \notin Sleepers,
         k' = z_pend_current_on(k, s, timeout), UNCHANGED <<ctx, count, credit>>
  PROVE  IInv'
<1>1. k.current = t /\ k.on[t] = NULL /\ ctx' = InThread
  BY Zenon DEF Running
<1>2. /\ KernelOK(k', Sleepers) /\ CurrentOK(k')
      /\ k.state[t] = "READY"
      /\ k'.state = [k.state EXCEPT ![t] = "PENDING"]
      /\ k'.expired = k.expired \ {t} /\ k'.canceled = k.canceled \ {t}
      /\ k'.on = [k.on EXCEPT ![t] = s]
  <2>1. KernelOK(k, Sleepers) /\ CurrentOK(k)
    BY Zenon DEF IInv
  <2> DEFINE r == z_pend_current_on(k, s, timeout)
  <2>2. k.current \in Threads /\ k.on[k.current] = NULL
        /\ (timeout # K_FOREVER => k.current \notin Sleepers)
    BY Zenon, <1>1
  <2>3. KernelOK(r, Sleepers) /\ CurrentOK(r) /\ WaitsOn(k, r, s)
    BY Zenon, <2>1, <2>2, SleepersType, PendOn
  <2> QED BY Zenon, <1>1, <2>3 DEF WaitsOn
<1>3. k \in KernelStates
  BY Zenon DEF IInv, KernelOK
<1>4. ContextOK' /\ FlagsOK'
  <2>1. ContextOK'
    BY Zenon, <1>1 DEF ContextOK
  <2>2. FlagsOK'
    BY Zenon, <1>2, <1>3 DEF FlagsOK, IInv, KernelStates, ThreadStates
  <2> QED BY Zenon, <2>1, <2>2
<1>5. ASSUME NEW q \in Queues PROVE InFlight(q)' = InFlight(q)
  <2>1. ASSUME NEW u PROVE u \in InFlight(q)' <=> u \in InFlight(q)
    <3>1. CASE u = t
      BY <1>1, <1>2, <1>3, <3>1, InFlightDef, InFlightDefNext, Disjoint
         DEF KernelStates, ThreadStates
    <3>2. CASE u # t
      BY <1>2, <1>3, <3>2, InFlightDef, InFlightDefNext DEF KernelStates, ThreadStates
    <3> QED BY Zenon, <3>1, <3>2
  <2> QED BY ZenonT(30), <2>1
<1>6. ASSUME NEW q \in Queues, q # s PROVE Waiting(k', q) = Waiting(k, q)
  BY <1>1, <1>2, <1>3, <1>6, Disjoint DEF Waiting, KernelStates, ThreadStates
<1>7. KernelTypeOK'
  <2>1. KernelPart'
    BY Zenon, <1>2, <1>4 DEF KernelPart
  <2> QED BY <2>1, KernelPartType, PTL
<1>8. TypeOK'
  BY Zenon, <1>7 DEF TypeOK, IInv
<1>9. Conservation'
  BY Zenon, <1>5 DEF IInv, Conservation
<1>10. NoLostWakeUp'
  BY <1>6 DEF IInv, NoLostWakeUp
<1> QED BY Zenon, <1>2, <1>4, <1>8, <1>9, <1>10 DEF IInv

\* k_sem_take returns to the thread that waited, with or without a unit.
LEMMA TakeReturn ==
  ASSUME IInv, NEW t \in Threads, k_sem_take_return(t)
  PROVE  IInv'
<1>1. /\ k.current = t /\ k.on[t] # NULL /\ ctx = InThread /\ ctx' = InThread
      /\ k' = Returned(k, t) /\ count' = count
  BY Zenon DEF k_sem_take_return, Returning
<1>2. k \in KernelStates /\ t \in Ready(k) /\ k.state[t] = "READY"
  <2>1. k \in KernelStates
    BY Zenon DEF IInv, KernelOK
  <2>2. t \in Ready(k)
    BY Zenon, <1>1, Disjoint DEF IInv, CurrentOK
  <2> QED BY Zenon, <1>1, <2>1, <2>2 DEF Ready, KernelStates
<1>0. PICK s \in Queues : k.on[t] = s
  BY Zenon, <1>1, <1>2 DEF KernelStates
<1>3. /\ KernelOK(k', Sleepers)
      /\ Ready(k') = Ready(k)
      /\ k'.state = k.state
      /\ k'.run_queue = k.run_queue /\ k'.current = k.current
      /\ k'.expired = k.expired /\ k'.canceled = k.canceled
      /\ k'.on = [k.on EXCEPT ![t] = NULL]
  <2>1. KernelOK(k, Sleepers)
    BY Zenon DEF IInv
  <2> QED BY <1>1, <1>2, <2>1, SleepersType, ReturnThread
<1>4. CurrentOK(k')
  BY Zenon, <1>3 DEF CurrentOK, IInv
<1>5. ContextOK' /\ FlagsOK'
  BY Zenon, <1>1, <1>3 DEF ContextOK, FlagsOK, IInv
<1>6. KernelTypeOK'
  <2>1. KernelPart'
    BY Zenon, <1>3, <1>4, <1>5 DEF KernelPart
  <2> QED BY <2>1, KernelPartType, PTL
<1>7. ASSUME NEW q \in Queues PROVE Waiting(k', q) = Waiting(k, q)
  BY Zenon, <1>2, <1>3 DEF Waiting, KernelStates
<1>8. NoLostWakeUp'
  BY Zenon, <1>1, <1>7 DEF IInv, NoLostWakeUp
<1>9. ASSUME NEW q \in Queues PROVE InFlight(q)' = InFlight(q) \ {t}
  <2>1. ASSUME NEW u PROVE u \in InFlight(q)' <=> u \in InFlight(q) /\ u # t
    <3>1. CASE u = t
      BY <1>2, <1>3, <3>1, InFlightDef, InFlightDefNext, Disjoint DEF KernelStates
    <3>2. CASE u # t
      BY <1>2, <1>3, <3>2, InFlightDef, InFlightDefNext DEF KernelStates
    <3> QED BY Zenon, <3>1, <3>2
  <2> QED BY Zenon, <2>1
<1>10. ASSUME NEW q \in Queues, q # s PROVE t \notin InFlight(q)
  BY Zenon, <1>0, <1>10, InFlightDef
<1>11. \A q \in Queues : credit[q] = count[q] + Cardinality(InFlight(q))
  BY Zenon DEF IInv, Conservation
<1>12. /\ count \in [Queues -> 0 .. 255] /\ credit \in [Queues -> Nat]
       /\ \A q \in Queues : count[q] <= Limit[q]
  BY Zenon DEF IInv, TypeOK
<1>13. CASE PendResult(k, t) = "OK"
  <2>1. credit' = [credit EXCEPT ![s] = @ - 1]
    BY Zenon, <1>0, <1>13 DEF k_sem_take_return, Take
  <2>2. t \in InFlight(s)
    BY Zenon, <1>0, <1>2, <1>13 DEF InFlight
  <2>3. Cardinality(InFlight(s)') = Cardinality(InFlight(s)) - 1
    <3> DEFINE A == InFlight(s)
    <3>1. IsFiniteSet(A) /\ t \in A /\ InFlight(s)' = A \ {t}
      BY Zenon, <1>2, <1>9, <2>2, InFlightFinite
    <3> HIDE DEF A
    <3>2. Cardinality(A \ {t}) = Cardinality(A) - 1
      BY ZenonT(30), <3>1, FS_RemoveElement
    <3> QED BY Zenon, <3>1, <3>2 DEF A
  <2>4. Cardinality(InFlight(s)) \in Nat /\ Cardinality(InFlight(s)') \in Nat
    <3>1. InFlight(s)' \in SUBSET Threads
      BY Zenon DEF InFlight
    <3> QED BY <3>1, Countable, InFlightFinite
  <2>5. credit[s] >= 1
    BY <1>2, <1>11, <1>12, <2>3, <2>4
  <2>6. credit' \in [Queues -> Nat]
    BY <1>2, <1>12, <2>1, <2>5
  <2>7. TypeOK'
    BY Zenon, <1>1, <1>6, <1>12, <2>6 DEF TypeOK
  <2>8. Conservation'
    <3> SUFFICES ASSUME NEW q \in Queues
                 PROVE  credit'[q] = count'[q] + Cardinality(InFlight(q)')
      BY Zenon DEF Conservation
    <3>1. CASE q = s
      <4> DEFINE a == Cardinality(InFlight(s))
                 b == Cardinality(InFlight(s)')
      <4>1. credit[s] = count[s] + a /\ b = a - 1 /\ a \in Nat
        BY Zenon, <1>2, <1>11, <2>3, <2>4
      <4>2. credit'[s] = credit[s] - 1 /\ count'[s] = count[s]
            /\ count[s] \in Nat /\ credit[s] \in Nat
        BY <1>1, <1>2, <1>12, <2>1
      <4> HIDE DEF a, b
      <4>3. credit'[s] = count'[s] + b
        BY <4>1, <4>2
      <4> QED BY Zenon, <3>1, <4>3 DEF b
    <3>2. CASE q # s
      <4>1. InFlight(q)' = InFlight(q)
        BY <1>9, <1>10, <3>2
      <4> QED BY Zenon, <1>1, <1>2, <1>11, <1>12, <2>1, <3>2, <4>1
    <3> QED BY Zenon, <3>1, <3>2
  <2> QED BY Zenon, <1>3, <1>4, <1>5, <1>8, <2>7, <2>8 DEF IInv
<1>14. CASE PendResult(k, t) # "OK"
  <2>1. credit' = credit
    BY Zenon, <1>14 DEF k_sem_take_return
  <2>2. ASSUME NEW q \in Queues PROVE InFlight(q)' = InFlight(q)
    <3>1. t \notin InFlight(q)
      BY Zenon, <1>14 DEF InFlight
    <3> QED BY Zenon, <1>9, <3>1
  <2>3. TypeOK'
    BY Zenon, <1>1, <1>6, <1>12, <2>1 DEF TypeOK
  <2>4. Conservation'
    BY Zenon, <1>1, <1>11, <2>1, <2>2 DEF Conservation
  <2> QED BY <1>3, <1>4, <1>5, <1>8, <2>3, <2>4 DEF IInv
<1> QED BY Zenon, <1>13, <1>14

\* Nothing the invariant is about changes.
LEMMA Stutter ==
  ASSUME IInv, UNCHANGED <<k, count, credit>>,
         ContextOK'
  PROVE  IInv'
<1>1. KernelPart' /\ Neutral
  BY Zenon DEF KernelPart, Neutral, IInv, FlagsOK, InFlight, PendResult
<1> QED BY Zenon, <1>1, NeutralStep

LEMMA TakeOK ==
  ASSUME IInv, Discipline, NEW t \in Threads, NEW s \in Queues,
         NEW n \in TakeTimeouts(t), k_sem_take(t, s, n)
  PROVE  IInv'
<1>1. Running(t) /\ ctx' = ctx
  BY Zenon DEF k_sem_take
<1>2. count[s] \in 0 .. 255
  BY Zenon DEF IInv, TypeOK
<1>3. CASE count[s] > 0
  BY Zenon, <1>1, <1>3, TakeUnit DEF k_sem_take
<1>4. CASE ~ (count[s] > 0) /\ n = K_NO_WAIT
  <2>1. UNCHANGED <<k, count, credit>>
    BY Zenon, <1>4 DEF k_sem_take, z_pend_current_on
  <2>2. ContextOK'
    BY Zenon, <1>1, <2>1 DEF IInv, ContextOK
  <2> QED BY Zenon, <2>1, <2>2, Stutter
<1>5. CASE ~ (count[s] > 0) /\ n # K_NO_WAIT
  <2>1. k' = z_pend_current_on(k, s, n) /\ UNCHANGED <<ctx, count, credit>>
    BY Zenon, <1>5 DEF k_sem_take
  <2>2. n \in Nat \cup {K_FOREVER} /\ (n # K_FOREVER => t \in TimedTakers)
    BY <1>5, SemaphoreAssumption DEF TakeTimeouts
  <2>3. n # K_FOREVER => t \notin Sleepers
    BY Zenon, <2>2 DEF Discipline
  <2>4. count[s] = 0
    BY <1>2, <1>5
  <2> QED BY Zenon, <1>1, <1>5, <2>1, <2>2, <2>3, <2>4, TakeWait
<1> QED BY Zenon, <1>3, <1>4, <1>5

\* k_sem_give that finds a waiting thread hands the unit to it.
LEMMA GiveThread ==
  ASSUME IInv, NEW s \in Queues, ~ DLIST_EMPTY(k.wq, s), InterruptsEnabled,
         k' = z_unpend_first_thread(k, s), UNCHANGED <<ctx, count>>, Accept(s)
  PROVE  IInv'
<1>1. PICK t : t = k.wq.next[s]
  BY Zenon
<1>2. /\ t \in Waiting(k, s)
      /\ KernelOK(k', Sleepers)
      /\ Ready(k') = Ready(k) \cup {t}
      /\ k'.state = [k.state EXCEPT ![t] = "READY"]
      /\ k'.run_queue = IF Ready(k) = {} THEN t ELSE k.run_queue
      /\ k'.expired = k.expired /\ k'.canceled = k.canceled
      /\ k'.current = k.current /\ k'.on = k.on
  <2>1. KernelOK(k, Sleepers)
    BY Zenon DEF IInv
  <2> DEFINE r == z_unpend_first_thread(k, s)
             h == k.wq.next[s]
  <2>2. /\ h \in Waiting(k, s)
        /\ KernelOK(r, Sleepers)
        /\ Ready(r) = Ready(k) \cup {h}
        /\ r.state = [k.state EXCEPT ![h] = "READY"]
        /\ r.run_queue = IF Ready(k) = {} THEN h ELSE k.run_queue
        /\ r.wakeup = k.wakeup \ {h}
        /\ r.expired = k.expired /\ r.canceled = k.canceled
        /\ r.current = k.current /\ r.on = k.on
    BY ZenonT(30), <2>1, SleepersType, UnpendFirst
  <2> HIDE DEF r, h
  <2>3. k' = r /\ t = h
    BY Zenon, <1>1 DEF r, h
  <2> QED BY Zenon, <2>2, <2>3
<1>3. k \in KernelStates /\ t \in Threads /\ k.state[t] = "PENDING" /\ k.on[t] = s
      /\ t \notin k.expired /\ t \notin k.canceled
  BY Zenon, <1>2 DEF IInv, KernelOK, Waiting, FlagsOK
<1>4. CurrentOK(k')
  BY Zenon, <1>2 DEF CurrentOK, IInv
<1>5. ContextOK'
  BY Zenon, <1>2 DEF ContextOK, InterruptsEnabled, IInv
<1>6. FlagsOK'
  BY Zenon, <1>2, <1>3 DEF FlagsOK, IInv, KernelStates, ThreadStates
<1>7. KernelTypeOK'
  <2>1. KernelPart'
    BY Zenon, <1>2, <1>4, <1>5, <1>6 DEF KernelPart
  <2> QED BY <2>1, KernelPartType, PTL
<1>8. NoLostWakeUp'
  <2>1. ASSUME NEW q \in Queues PROVE Waiting(k', q) \subseteq Waiting(k, q)
    BY Zenon, <1>2, <1>3 DEF Waiting, KernelStates, ThreadStates
  <2> QED BY Zenon, <2>1 DEF IInv, NoLostWakeUp
<1>9. InFlight(s)' = InFlight(s) \cup {t} /\ t \notin InFlight(s)
  <2>1. ASSUME NEW u PROVE u \in InFlight(s)' <=> u \in InFlight(s) \/ u = t
    <3>1. CASE u = t
      BY Zenon, <1>2, <1>3, <3>1, InFlightDef, InFlightDefNext DEF KernelStates, ThreadStates
    <3>2. CASE u # t
      BY <1>2, <1>3, <3>2, InFlightDef, InFlightDefNext DEF KernelStates, ThreadStates
    <3> QED BY Zenon, <3>1, <3>2
  <2>2. t \notin InFlight(s)
    BY Zenon, <1>3, InFlightDef
  <2> QED BY Zenon, <2>1, <2>2
<1>10. ASSUME NEW q \in Queues, q # s PROVE InFlight(q)' = InFlight(q)
  <2>1. ASSUME NEW u PROVE u \in InFlight(q)' <=> u \in InFlight(q)
    <3>1. CASE u = t
      BY <1>2, <1>3, <1>10, <3>1, InFlightDef, InFlightDefNext
    <3>2. CASE u # t
      BY <1>2, <1>3, <3>2, InFlightDef, InFlightDefNext DEF KernelStates, ThreadStates
    <3> QED BY Zenon, <3>1, <3>2
  <2> QED BY Zenon, <2>1
<1>11. Cardinality(InFlight(s)') = Cardinality(InFlight(s)) + 1
  <2> DEFINE A == InFlight(s)
  <2>1. IsFiniteSet(A) /\ t \notin A /\ InFlight(s)' = A \cup {t}
    BY Zenon, <1>9, InFlightFinite
  <2> HIDE DEF A
  <2>2. Cardinality(A \cup {t}) = Cardinality(A) + 1
    BY Zenon, <2>1, FS_AddElement
  <2> QED BY Zenon, <2>1, <2>2 DEF A
<1>12. /\ count \in [Queues -> 0 .. 255] /\ credit \in [Queues -> Nat]
       /\ \A q \in Queues : count[q] <= Limit[q]
       /\ \A q \in Queues : credit[q] = count[q] + Cardinality(InFlight(q))
  BY Zenon DEF IInv, TypeOK, Conservation
<1>13. credit' = [credit EXCEPT ![s] = credit[s] + 1]
  BY Zenon DEF Accept
<1>14. TypeOK'
  BY <1>7, <1>12, <1>13 DEF TypeOK
<1>15. Conservation'
  <2> SUFFICES ASSUME NEW q \in Queues
               PROVE  credit'[q] = count'[q] + Cardinality(InFlight(q)')
    BY Zenon DEF Conservation
  <2>1. CASE q = s
    <3> DEFINE a == Cardinality(InFlight(s))
               b == Cardinality(InFlight(s)')
    <3>1. credit[s] = count[s] + a /\ b = a + 1 /\ a \in Nat
      BY Zenon, <1>11, <1>12, InFlightFinite
    <3>2. credit'[s] = credit[s] + 1 /\ count'[s] = count[s]
          /\ count[s] \in Nat /\ credit[s] \in Nat
      BY <1>12, <1>13
    <3> HIDE DEF a, b
    <3>3. credit'[s] = count'[s] + b
      BY <3>1, <3>2
    <3> QED BY Zenon, <2>1, <3>3 DEF b
  <2>2. CASE q # s
    BY Zenon, <1>10, <1>12, <1>13, <2>2
  <2> QED BY Zenon, <2>1, <2>2
<1> QED BY Zenon, <1>2, <1>4, <1>5, <1>6, <1>8, <1>14, <1>15 DEF IInv

\* k_sem_give that finds no waiting thread and room for a unit counts it.
LEMMA GiveCount ==
  ASSUME IInv, NEW s \in Queues, DLIST_EMPTY(k.wq, s), count[s] < Limit[s],
         UNCHANGED <<k, ctx>>, count' = [count EXCEPT ![s] = @ + 1], Accept(s)
  PROVE  IInv'
<1>1. /\ KernelTypeOK' /\ KernelOK(k', Sleepers) /\ CurrentOK(k')
      /\ ContextOK' /\ FlagsOK'
  BY Zenon DEF IInv, TypeOK, KernelTypeOK, ContextOK, FlagsOK
<1>2. \A q \in Queues : InFlight(q)' = InFlight(q) /\ Waiting(k', q) = Waiting(k, q)
  BY Zenon DEF InFlight, PendResult
<1>3. /\ count \in [Queues -> 0 .. 255] /\ credit \in [Queues -> Nat]
      /\ Limit \in [Queues -> 1 .. 255]
      /\ \A q \in Queues : count[q] <= Limit[q]
      /\ \A q \in Queues : credit[q] = count[q] + Cardinality(InFlight(q))
  BY ZenonT(30), SemaphoreAssumption DEF IInv, TypeOK, Conservation
<1>4. credit' = [credit EXCEPT ![s] = credit[s] + 1]
      /\ count' = [count EXCEPT ![s] = count[s] + 1]
  BY Zenon DEF Accept
<1>5. count[s] + 1 \in 0 .. 255 /\ count[s] + 1 <= Limit[s]
  <2> DEFINE c == count[s]
             l == Limit[s]
  <2>1. c \in 0 .. 255 /\ l \in 1 .. 255 /\ c < l
    BY Zenon, <1>3
  <2> HIDE DEF c, l
  <2>2. c + 1 \in 0 .. 255 /\ c + 1 <= l
    BY <2>1
  <2> QED BY Zenon, <2>2 DEF c, l
<1>6. TypeOK'
  BY <1>1, <1>3, <1>4, <1>5 DEF TypeOK
<1>7. Conservation'
  <2> SUFFICES ASSUME NEW q \in Queues
               PROVE  credit'[q] = count'[q] + Cardinality(InFlight(q)')
    BY Zenon DEF Conservation
  <2>1. Cardinality(InFlight(q)') = Cardinality(InFlight(q)) /\ Cardinality(InFlight(q)) \in Nat
        /\ credit[q] \in Nat /\ count[q] \in Nat
    BY <1>2, <1>3, InFlightFinite
  <2>2. CASE q = s
    BY <1>3, <1>4, <2>1, <2>2
  <2>3. CASE q # s
    BY Zenon, <1>3, <1>4, <2>1, <2>3
  <2> QED BY Zenon, <2>2, <2>3
<1>8. Waiting(k, s) = {}
  BY Zenon, NobodyWaits DEF IInv, KernelOK
<1>9. NoLostWakeUp'
  BY Zenon, <1>2, <1>3, <1>4, <1>8 DEF IInv, NoLostWakeUp
<1> QED BY Zenon, <1>1, <1>6, <1>7, <1>9 DEF IInv

LEMMA GiveOK ==
  ASSUME IInv, NEW s \in Queues, k_sem_give(s)
  PROVE  IInv'
<1>1. InterruptsEnabled /\ k' = z_unpend_first_thread(k, s) /\ ctx' = ctx
  BY SMTT(30) DEF k_sem_give
<1>2. CASE ~ DLIST_EMPTY(k.wq, s)
  <2>1. k.wq.next[s] \in Threads
    BY Zenon, <1>2, FirstWaits DEF IInv, KernelOK, Waiting
  <2>2. FirstPending(k, s) # NULL
    BY Zenon, <1>2, <2>1, Disjoint DEF FirstPending
  <2>3. Accept(s) /\ count' = count
    BY Zenon, <2>2 DEF k_sem_give
  <2> QED BY Zenon, <1>1, <1>2, <2>3, GiveThread
<1>3. CASE DLIST_EMPTY(k.wq, s)
  <2>1. FirstPending(k, s) = NULL /\ k' = k
    BY Zenon, <1>1, <1>3 DEF FirstPending, z_unpend_first_thread
  <2>2. CASE count[s] < Limit[s]
    BY Zenon, <1>1, <1>3, <2>1, <2>2, GiveCount DEF k_sem_give
  <2>3. CASE ~ (count[s] < Limit[s])
    <3>1. UNCHANGED <<k, count, credit>> /\ ContextOK'
      BY Zenon, <1>1, <2>1, <2>3 DEF k_sem_give, IInv, ContextOK
    <3> QED BY Zenon, <3>1, Stutter
  <2> QED BY Zenon, <2>2, <2>3
<1> QED BY Zenon, <1>2, <1>3

\* k_sem_cancel_wait enters and leaves its loop.
LEMMA CancelWaitOK ==
  ASSUME IInv,
         \/ \E t \in Threads, s \in Queues : k_sem_cancel_wait(t, s)
         \/ k_sem_cancel_wait_end
  PROVE  IInv'
<1>1. ASSUME NEW t \in Threads, NEW s \in Queues, k_sem_cancel_wait(t, s)
      PROVE  UNCHANGED <<k, count, credit>> /\ ContextOK'
  BY Zenon, <1>1 DEF k_sem_cancel_wait, Running, ContextOK
<1>2. ASSUME k_sem_cancel_wait_end
      PROVE  UNCHANGED <<k, count, credit>> /\ ContextOK'
  BY Zenon, <1>2 DEF k_sem_cancel_wait_end, ContextOK
<1> QED BY Zenon, <1>1, <1>2, Stutter

-----------------------------------------------------------------------------
(* The invariant *)

LEMMA InitInvariant == Init => IInv
<1> SUFFICES ASSUME Init PROVE IInv
  BY Zenon
<1>1. /\ KernelOK(k, Sleepers) /\ CurrentOK(k) /\ ctx = InThread
      /\ k.on = [t \in Threads |-> NULL]
      /\ k.state = [t \in Threads \cup {Idle} |->
                      IF t = Idle THEN "IDLE"
                      ELSE IF t \in AutoStart THEN "READY" ELSE "STOPPED"]
      /\ k.expired = {} /\ k.canceled = {}
  BY Zenon, SleepersType, InitKernel DEF Init
<1>2. ContextOK /\ FlagsOK
  BY Zenon, <1>1 DEF ContextOK, FlagsOK
<1>3. KernelTypeOK
  BY Zenon, <1>1, <1>2, KernelPartType DEF KernelPart
<1>4. /\ count \in [Queues -> 0 .. 255]
      /\ \A s \in Queues : count[s] <= Limit[s]
      /\ credit = count
  <2>1. ASSUME NEW s \in Queues PROVE Count0(s) \in 0 .. 255 /\ Count0(s) <= Limit[s]
    <3> DEFINE i == Initial[s]
               l == Limit[s]
    <3>1. i \in 0 .. 255 /\ l \in 1 .. 255
      BY Zenon, SemaphoreAssumption
    <3>2. Count0(s) = IF i < l THEN i ELSE l
      BY Zenon DEF Count0
    <3> HIDE DEF i, l
    <3>3. Count0(s) \in 0 .. 255 /\ Count0(s) <= l
      BY <3>1, <3>2
    <3> QED BY Zenon, <3>3 DEF l
  <2>2. count = [s \in Queues |-> Count0(s)] /\ credit = count
    BY Zenon DEF Init
  <2> QED BY Zenon, <2>1, <2>2
<1>5. \A s \in Queues : InFlight(s) = {}
  <2>1. ASSUME NEW s \in Queues, NEW t PROVE t \notin InFlight(s)
    BY <1>1, InFlightDef, Disjoint
  <2> QED BY Zenon, <2>1
<1>6. TypeOK
  BY <1>3, <1>4 DEF TypeOK
<1>7. Conservation
  BY <1>4, <1>5, FS_EmptySet DEF Conservation
<1>8. NoLostWakeUp
  BY Zenon, <1>1 DEF NoLostWakeUp, Waiting
<1> QED BY Zenon, <1>1, <1>2, <1>6, <1>7, <1>8 DEF IInv

LEMMA StepInvariant ==
  ASSUME Discipline
  PROVE  IInv /\ [Next]_vars => IInv'
<1> SUFFICES ASSUME IInv, [Next]_vars PROVE IInv'
  BY Zenon
<1>1. ASSUME NEW t \in Threads, Thread(t) PROVE IInv'
  <2>1. ASSUME k_yield(t), UNCHANGED <<count, credit>> PROVE IInv'
    BY Zenon, <2>1, SwitchStep, NeutralStep DEF k_yield, Running
  <2>2. ASSUME t \in Sleepers, NEW n \in 0 .. MAX_TIMEOUT, k_sleep(t, n),
               UNCHANGED <<count, credit>>
        PROVE  IInv'
    <3>1. n \in Nat
      BY SemaphoreAssumption
    <3> QED BY Zenon, <2>2, <3>1, SleepStep, NeutralStep
  <2>3. ASSUME k_sem_take_return(t) PROVE IInv'
    BY Zenon, <2>3, TakeReturn
  <2>4. ASSUME NEW s \in Queues, NEW n \in TakeTimeouts(t), k_sem_take(t, s, n)
        PROVE  IInv'
    BY Zenon, <2>4, TakeOK
  <2>5. ASSUME NEW s \in Queues, k_sem_cancel_wait(t, s) PROVE IInv'
    BY Zenon, <2>5, CancelWaitOK
  <2> QED BY Zenon, <1>1, <2>1, <2>2, <2>3, <2>4, <2>5 DEF Thread
<1>2. ASSUME NEW s \in Queues, k_sem_give(s) PROVE IInv'
  BY <1>2, GiveOK
<1>3. ASSUME k_sem_cancel_wait_end PROVE IInv'
  BY Zenon, <1>3, CancelWaitOK
<1>4. ASSUME Sys PROVE IInv'
  <2>1. UNCHANGED <<count, credit>>
    BY Zenon, <1>4 DEF Sys
  <2>2. CASE SysTick
    BY Zenon, <2>1, <2>2, TickStep, NeutralStep
  <2>3. CASE SchedEnterExpire
    BY Zenon, <2>1, <2>3, ExpireStep, NeutralStep
  <2>4. CASE SchedEnterExit
    BY <2>1, <2>4, ExitStep, NeutralStep
  <2>5. CASE k_yield_from_isr
    BY Zenon, <2>1, <2>5, SwitchStep, NeutralStep DEF k_yield_from_isr, InterruptsEnabled
  <2>6. CASE CancelStep
    BY <2>1, <2>6, CancelStepOK, NeutralStep
  <2> QED BY Zenon, <1>4, <2>2, <2>3, <2>4, <2>5, <2>6 DEF Sys, Tick
<1>5. ASSUME UNCHANGED vars PROVE IInv'
  <2>1. UNCHANGED <<k, count, credit>> /\ ContextOK'
    BY Zenon, <1>5 DEF vars, IInv, ContextOK
  <2> QED BY Zenon, <2>1, Stutter
<1> QED BY Zenon, <1>1, <1>2, <1>3, <1>4, <1>5 DEF Next

\* The inductive invariant holds in every reachable state.
THEOREM Invariant ==
  ASSUME Discipline
  PROVE  Spec => []IInv
<1>1. Init => IInv
  BY Zenon, InitInvariant
<1>2. IInv /\ [Next]_vars => IInv'
  BY Zenon, StepInvariant
<1> QED BY <1>1, <1>2, PTL DEF Spec

\* Type correctness: in particular the count of a semaphore never exceeds its
\* limit, and ready_count never overflows its uint8_t.
THEOREM TypeCorrect ==
  ASSUME Discipline
  PROVE  Spec => []TypeOK
<1>1. IInv => TypeOK
  BY Zenon DEF IInv
<1> QED BY <1>1, Invariant, PTL

\* No unit is lost or made up, for any number of threads and semaphores.
THEOREM UnitsConserved ==
  ASSUME Discipline
  PROVE  Spec => []Conservation
<1>1. IInv => Conservation
  BY Zenon DEF IInv
<1> QED BY <1>1, Invariant, PTL

\* No thread waits on a semaphore that has a unit.
THEOREM NoWakeUpLost ==
  ASSUME Discipline
  PROVE  Spec => []NoLostWakeUp
<1>1. IInv => NoLostWakeUp
  BY Zenon DEF IInv
<1> QED BY <1>1, Invariant, PTL

\* The run queue is one circular list of exactly the READY threads, counted by
\* ready_count, and the CPU executes its first thread.
THEOREM RunQueueCorrect ==
  ASSUME Discipline
  PROVE  Spec => [](RunQueueInv /\ CurrentInv)
<1>1. IInv => RunQueueInv /\ CurrentInv
  BY Zenon DEF IInv, KernelOK, RunQueueInv, CurrentInv
<1> QED BY <1>1, Invariant, PTL

\* A wait queue is one circular list of its head and exactly the threads pending
\* on it, and the timeouts queue holds exactly the threads with a wake-up.
THEOREM WaitQueuesCorrect ==
  ASSUME Discipline
  PROVE  Spec => [](WaitQueueInv /\ TimeoutsInv)
<1>1. IInv => WaitQueueInv /\ TimeoutsInv
  BY Zenon DEF IInv, KernelOK, WaitQueueInv, TimeoutsInv
<1> QED BY <1>1, Invariant, PTL

-----------------------------------------------------------------------------
(* What the kernel functions do to the wait queues *)

LEMMA PendLinks ==
  ASSUME NEW S \in SUBSET Threads, NEW s, KernelOK(s, S), CurrentOK(s),
         s.current \in Threads, s.on[s.current] = NULL,
         NEW q \in Queues, NEW timeout \in Nat \cup {K_FOREVER}, timeout # K_NO_WAIT
  PROVE  z_pend_current_on(s, q, timeout).wq = dlist_append(s.wq, q, s.current)
<1> DEFINE t == s.current
           r == z_pend_current_on(s, q, timeout)
           d == s.wq
           e == dlist_append(d, q, t)
           o == [s.on EXCEPT ![t] = q]
           c == [s EXCEPT !.wq = e, !.on = o]
<1>1. s \in KernelStates /\ IdleOK(s) /\ RunQueueOK(s) /\ WaitQueuesOK(s) /\ TimeoutsOK(s)
  BY Zenon DEF KernelOK
<1>2. r = z_pend_current(c, timeout)
  BY Zenon DEF z_pend_current_on
<1>3. t \in Threads /\ s.on[t] = NULL
  BY Zenon
<1>4. e \in Structures(WqNodes)
  <2>1. /\ d \in Structures(WqNodes) /\ q \in WqNodes /\ t \in WqNodes /\ t # q
        /\ d.prev[q] # t
    <3>1. d \in Structures(WqNodes)
      BY Zenon, <1>1 DEF KernelStates, WqNodes
    <3>2. q \in WqNodes /\ t \in WqNodes /\ t # q
      BY Zenon, <1>3, Disjoint DEF WqNodes
    <3>3. Ring(d, {q} \cup Waiting(s, q))
      BY Zenon, <1>1 DEF WaitQueuesOK
    <3>4. d.prev[q] \in {q} \cup Waiting(s, q) /\ t \notin {q} \cup Waiting(s, q)
      BY Zenon, <1>3, <3>2, <3>3, Disjoint DEF Ring, Waiting
    <3> QED BY Zenon, <3>1, <3>2, <3>4
  <2> HIDE DEF d, t
  <2>2. LET f == dlist_append(d, q, t)
            p == d.prev[q]
        IN  /\ f \in Structures(WqNodes)
            /\ f.next = [d.next EXCEPT ![p] = t, ![t] = q]
            /\ f.prev = [d.prev EXCEPT ![t] = p, ![q] = t]
    BY <2>1, AppendPointers
  <2> QED BY Zenon, <2>2
<1>5. o \in [Threads -> Queues \cup {NULL}]
  BY Zenon, <1>1, <1>3 DEF KernelStates
<1> HIDE DEF e, o, r
<1>6. c \in KernelStates
  <2>1. e \in Structures(Threads \cup Queues \cup {NULL})
    BY Zenon, <1>4 DEF WqNodes
  <2> QED BY ZenonT(30), <1>1, <1>5, <2>1 DEF KernelStates
<1>7. /\ c.wq = e /\ c.on = o
      /\ c.state = s.state /\ c.run_queue = s.run_queue
      /\ c.rq = s.rq /\ c.ready_count = s.ready_count
      /\ c.wakeup = s.wakeup /\ c.timeouts = s.timeouts /\ c.current = s.current
  BY Zenon, <1>1 DEF KernelStates
<1> HIDE DEF c
<1>8. /\ Ready(c) = Ready(s) /\ IdleOK(c) /\ RunQueueOK(c) /\ TimeoutsOK(c)
      /\ CurrentOK(c) /\ c.current \in Threads
  BY <1>1, <1>7 DEF Ready, IdleOK, RunQueueOK, TimeoutsOK, CurrentOK
<1>9. LET u == c.current
          f == z_pend_current(c, timeout)
      IN  /\ f \in KernelStates /\ IdleOK(f) /\ RunQueueOK(f) /\ TimeoutsOK(f)
          /\ CurrentOK(f)
          /\ c.state[u] = "READY"
          /\ f.state = [c.state EXCEPT ![u] = "PENDING"]
          /\ f.wakeup = IF timeout = K_FOREVER THEN c.wakeup ELSE c.wakeup \cup {u}
          /\ f.expired = c.expired \ {u} /\ f.canceled = c.canceled \ {u}
          /\ f.wq = c.wq /\ f.on = c.on
  BY Zenon, <1>6, <1>8, PendCurrent
<1>10. r.wq = e
  BY Zenon, <1>2, <1>7, <1>9
<1> QED BY Zenon, <1>10 DEF r, e

\* dlist_remove and dlist_init, along the next fields.
LEMMA RemoveLinks ==
  ASSUME NEW d \in Structures(WqNodes), NEW t \in WqNodes
  PROVE  /\ dlist_remove(d, t) \in Structures(WqNodes)
         /\ dlist_init(dlist_remove(d, t), t) \in Structures(WqNodes)
         /\ \A x \in WqNodes \ {t} :
              /\ dlist_remove(d, t).next[x] = IF x = d.prev[t] THEN d.next[t] ELSE d.next[x]
              /\ dlist_init(dlist_remove(d, t), t).next[x] =
                   IF x = d.prev[t] THEN d.next[t] ELSE d.next[x]
<1> DEFINE f == dlist_remove(d, t)
           g == dlist_init(f, t)
<1>1. /\ f \in Structures(WqNodes)
      /\ f.next = [d.next EXCEPT ![d.prev[t]] = d.next[t]]
      /\ f.prev = [d.prev EXCEPT ![d.next[t]] = d.prev[t]]
  BY RemovePointers
<1>2. d.next \in [WqNodes -> WqNodes] /\ d.prev[t] \in WqNodes
  BY Zenon DEF Structures
<1> HIDE DEF f
<1>3. /\ g \in Structures(WqNodes)
      /\ \A x \in WqNodes \ {t} : g.next[x] = f.next[x]
  <2>1. g \in Structures(WqNodes)
    BY ZenonT(30), <1>1 DEF Structures, dlist_init, SetNext, SetPrev
  <2>2. ASSUME NEW x \in WqNodes \ {t}
        PROVE  g.next[x] = f.next[x]
    BY ZenonT(30), <1>1 DEF Structures, dlist_init, SetNext, SetPrev
  <2> QED BY Zenon, <2>1, <2>2
<1> HIDE DEF g
<1>4. ASSUME NEW x \in WqNodes \ {t}
      PROVE  /\ f.next[x] = IF x = d.prev[t] THEN d.next[t] ELSE d.next[x]
             /\ g.next[x] = IF x = d.prev[t] THEN d.next[t] ELSE d.next[x]
  BY Zenon, <1>1, <1>2, <1>3
<1> QED BY Zenon, <1>1, <1>3, <1>4 DEF f, g

LEMMA UnpendLinks ==
  ASSUME NEW S \in SUBSET Threads, NEW s, KernelOK(s, S), NEW q \in Queues,
         ~ DLIST_EMPTY(s.wq, q)
  PROVE  Unlinked(s, z_unpend_first_thread(s, q), s.wq.next[q])
<1> DEFINE t == s.wq.next[q]
           r == z_unpend_first_thread(s, q)
           e == dlist_init(dlist_remove(s.wq, t), t)
           c == [s EXCEPT !.wq = e]
<1>1. s \in KernelStates /\ IdleOK(s) /\ RunQueueOK(s) /\ WaitQueuesOK(s) /\ TimeoutsOK(s)
  BY Zenon DEF KernelOK
<1>2. t \in Waiting(s, q)
  BY Zenon, <1>1, FirstWaits
<1>3. r = z_wake_up(c, t)
  BY Zenon DEF z_unpend_first_thread
<1> HIDE DEF t
<1>4. t \in Threads /\ t \notin Ready(s) /\ t \in WqNodes /\ s.wq \in Structures(WqNodes)
  BY Zenon, <1>1, <1>2 DEF Waiting, Ready, WqNodes, KernelStates
<1>5. /\ e \in Structures(WqNodes)
      /\ \A x \in WqNodes \ {t} :
           e.next[x] = IF x = s.wq.prev[t] THEN s.wq.next[t] ELSE s.wq.next[x]
  BY Zenon, <1>4, RemoveLinks
<1> HIDE DEF e, r
<1>6. c \in KernelStates
  BY ZenonT(30), <1>1, <1>5 DEF KernelStates, WqNodes
<1>7. /\ c.wq = e /\ c.state = s.state /\ c.run_queue = s.run_queue
      /\ c.rq = s.rq /\ c.ready_count = s.ready_count
      /\ c.wakeup = s.wakeup /\ c.timeouts = s.timeouts
  BY Zenon, <1>1 DEF KernelStates
<1> HIDE DEF c
<1>8. Ready(c) = Ready(s) /\ IdleOK(c) /\ RunQueueOK(c) /\ TimeoutsOK(c)
  BY <1>1, <1>7 DEF Ready, IdleOK, RunQueueOK, TimeoutsOK
<1>9. LET f == z_wake_up(c, t)
      IN  /\ f \in KernelStates /\ IdleOK(f) /\ RunQueueOK(f) /\ TimeoutsOK(f)
          /\ Ready(f) = Ready(c) \cup {t}
          /\ f.state = [c.state EXCEPT ![t] = "READY"]
          /\ f.run_queue = IF Ready(c) = {} THEN t ELSE c.run_queue
          /\ f.wakeup = c.wakeup \ {t}
          /\ f.expired = c.expired /\ f.canceled = c.canceled
          /\ f.current = c.current /\ f.wq = c.wq /\ f.on = c.on
  BY Zenon, <1>4, <1>6, <1>8, WakeUpThread
<1>10. r.wq = e
  BY Zenon, <1>3, <1>7, <1>9
<1>11. Unlinked(s, r, t)
  BY Zenon, <1>5, <1>10 DEF Unlinked
<1> QED BY Zenon, <1>11 DEF r, t

LEMMA CancelLinks ==
  ASSUME NEW S \in SUBSET Threads, NEW s, KernelOK(s, S), NEW q \in Queues,
         ~ DLIST_EMPTY(s.wq, q)
  PROVE  Unlinked(s, z_cancel_first_pending(s, q), s.wq.next[q])
<1> DEFINE t == s.wq.next[q]
           c == z_unpend_first_thread(s, q)
           r == z_cancel_first_pending(s, q)
<1>1. /\ t \in Waiting(s, q)
      /\ KernelOK(c, S)
      /\ Ready(c) = Ready(s) \cup {t}
      /\ c.state = [s.state EXCEPT ![t] = "READY"]
      /\ c.run_queue = IF Ready(s) = {} THEN t ELSE s.run_queue
      /\ c.wakeup = s.wakeup \ {t}
      /\ c.expired = s.expired /\ c.canceled = s.canceled
      /\ c.current = s.current /\ c.on = s.on
  BY ZenonT(30), UnpendFirst
<1>2. r = [c EXCEPT !.canceled = c.canceled \cup {t}]
  BY Zenon DEF z_cancel_first_pending
<1>3. Unlinked(s, c, t)
  BY Zenon, UnpendLinks
<1> HIDE DEF c, r, t
<1>4. r.wq = c.wq
  BY Zenon, <1>1, <1>2 DEF KernelOK, KernelStates
<1>5. Unlinked(s, r, t)
  BY Zenon, <1>3, <1>4 DEF Unlinked
<1> QED BY <1>5 DEF r, t

LEMMA ExpireLinks ==
  ASSUME NEW S \in SUBSET Threads, NEW s, KernelOK(s, S), HasExpired(s.timeouts)
  PROVE  Unlinked(s, Expire(s), s.timeouts[1].item)
<1> DEFINE t == s.timeouts[1].item
           l == Tail(s.timeouts)
           e == dlist_remove(s.wq, t)
           w == s.wakeup \ {t}
           xp == s.expired \cup {t}
           c == [s EXCEPT !.timeouts = l, !.expired = xp, !.wakeup = w, !.wq = e]
           r == Expire(s)
<1>1. s \in KernelStates /\ IdleOK(s) /\ RunQueueOK(s) /\ TimeoutsOK(s)
  BY Zenon DEF KernelOK
<1>2. /\ t \in Threads /\ t \in Items(s.timeouts) /\ l \in TimeoutLists
  BY ZenonT(30), <1>1, TailItems DEF KernelStates, TimeoutLists, Lists, HasExpired, TimeoutsOK
<1>3. r = z_schedule(c, t)
  BY Zenon DEF Expire
<1> HIDE DEF t, l
<1>4. t \notin Ready(s)
  BY Zenon, <1>1, <1>2 DEF TimeoutsOK, Ready
<1>5. w \in SUBSET Threads /\ xp \in SUBSET Threads
      /\ s.wq \in Structures(WqNodes) /\ t \in WqNodes
  BY Zenon, <1>1, <1>2 DEF KernelStates, WqNodes
<1>6. /\ e \in Structures(WqNodes)
      /\ \A x \in WqNodes \ {t} :
           e.next[x] = IF x = s.wq.prev[t] THEN s.wq.next[t] ELSE s.wq.next[x]
  BY Zenon, <1>5, RemoveLinks
<1> HIDE DEF w, xp, e, c, r
<1>7. c \in KernelStates
  BY ZenonT(30), <1>1, <1>2, <1>5, <1>6 DEF KernelStates, WqNodes, c
<1>8. /\ c.wq = e /\ c.state = s.state /\ c.run_queue = s.run_queue
      /\ c.rq = s.rq /\ c.ready_count = s.ready_count
  BY Zenon, <1>1 DEF KernelStates, c
<1>9. Ready(c) = Ready(s) /\ IdleOK(c) /\ RunQueueOK(c)
  BY Zenon, <1>1, <1>8 DEF Ready, IdleOK, RunQueueOK
<1>10. /\ r \in KernelStates /\ IdleOK(r) /\ RunQueueOK(r)
       /\ Ready(r) = Ready(c) \cup {t}
       /\ r.state = [c.state EXCEPT ![t] = "READY"]
       /\ r.run_queue = IF Ready(c) = {} THEN t ELSE c.run_queue
       /\ r.expired = c.expired /\ r.canceled = c.canceled
       /\ r.wakeup = c.wakeup /\ r.timeouts = c.timeouts
       /\ r.current = c.current /\ r.wq = c.wq /\ r.on = c.on
  BY Zenon, <1>2, <1>3, <1>4, <1>7, <1>9, ScheduleThread
<1>11. Unlinked(s, r, t)
  BY Zenon, <1>6, <1>8, <1>10 DEF Unlinked
<1> QED BY Zenon, <1>11 DEF r, t

-----------------------------------------------------------------------------
(* The steps of the semaphores are steps of SemaphoreAbs *)

SameOutcomes(s, r) == \A q \in Queues, t \in Threads : Outcome(r, q, t) = Outcome(s, q, t)

LEMMA OutcomeFrame ==
  ASSUME NEW s, NEW r, NEW t, r.state[t] = s.state[t], r.on[t] = s.on[t],
         t \in r.expired <=> t \in s.expired, t \in r.canceled <=> t \in s.canceled
  PROVE  \A q : Outcome(r, q, t) = Outcome(s, q, t)
BY Zenon DEF Outcome, PendResult

LEMMA NoOutcome ==
  ASSUME NEW s, NEW t, s.on[t] = NULL \/ s.state[t] = "PENDING", NEW q \in Queues
  PROVE  Outcome(s, q, t) = "none"
BY Zenon, Disjoint DEF Outcome

\* A step that changes neither the units, the lines nor the outcomes.
LEMMA AbsStutter ==
  ASSUME SameLines(k, k'), SameOutcomes(k, k'), count' = count
  PROVE  UNCHANGED Abs!vars
<1>1. [q \in Queues |-> Line(k', q)] = [q \in Queues |-> Line(k, q)]
  BY Zenon DEF SameLines
<1>2. [q \in Queues |-> [t \in Threads |-> Outcome(k', q, t)]]
        = [q \in Queues |-> [t \in Threads |-> Outcome(k, q, t)]]
  BY Zenon DEF SameOutcomes
<1> QED BY Zenon, <1>1, <1>2 DEF Abs!vars

\* A wait that ends.
LEMMA AbsEndWait ==
  ASSUME NEW q \in Queues, NEW i, NEW how, LeavesLine(k, k', q, i),
         NEW t \in Threads, Line(k, q)[i] = t,
         Outcome(k', q, t) = how,
         \A p \in Queues, u \in Threads :
           p # q \/ u # t => Outcome(k', p, u) = Outcome(k, p, u),
         count' = count
  PROVE  Abs!EndWait(q, i, how)
<1> DEFINE line == [p \in Queues |-> Line(k, p)]
           Row(s, p) == [u \in Threads |-> Outcome(s, p, u)]
           out  == [p \in Queues |-> Row(k, p)]
<1>1. [p \in Queues |-> Line(k', p)] = [line EXCEPT ![q] = Removed(@, i)]
  BY Zenon DEF LeavesLine
<1>2. Row(k', q) = [Row(k, q) EXCEPT ![t] = how]
  BY Zenon
<1>3. \A p \in Queues : p # q => Row(k', p) = Row(k, p)
  BY Zenon
<1>4. [p \in Queues |-> Row(k', p)] = [out EXCEPT ![q] = [@ EXCEPT ![line[q][i]] = how]]
  <2>1. line[q][i] = t
    BY Zenon
  <2> HIDE DEF Row, line
  <2> QED BY Zenon, <1>2, <1>3, <2>1
<1>5. i \in DOMAIN line[q]
  BY Zenon DEF LeavesLine
<1> QED BY Zenon, <1>1, <1>4, <1>5 DEF Abs!EndWait, Removed

\* The wait of the thread t on q ends.
LEMMA EndRefines ==
  ASSUME k \in KernelStates, WaitQueuesOK(k), LinesOK(k), NEW q \in Queues,
         NEW t \in Waiting(k, q), Unlinked(k, k', t),
         k'.state = [k.state EXCEPT ![t] = "READY"], k'.on = k.on,
         \A u \in Threads \ {t} : /\ u \in k'.expired <=> u \in k.expired
                                  /\ u \in k'.canceled <=> u \in k.canceled,
         count' = count
  PROVE  /\ LinesOK(k')
         /\ \E i \in DOMAIN Line(k, q) : Abs!EndWait(q, i, PendResult(k', t))
         /\ t = k.wq.next[q] => Abs!EndWait(q, 1, PendResult(k', t))
<1>1. /\ t \in Threads /\ k.state[t] = "PENDING" /\ k.on[t] = q
      /\ k'.state[t] = "READY" /\ k'.on[t] = q
      /\ \A u \in Threads \ {t} : k'.state[u] = k.state[u] /\ k'.on[u] = k.on[u]
  BY Zenon DEF Waiting, KernelStates, ThreadStates
<1>2. Outcome(k', q, t) = PendResult(k', t)
  BY Zenon, <1>1 DEF Outcome
<1>3. ASSUME NEW p \in Queues, NEW u \in Threads, p # q \/ u # t
      PROVE  Outcome(k', p, u) = Outcome(k, p, u)
  <2>1. CASE u # t
    <3>1. /\ k'.state[u] = k.state[u] /\ k'.on[u] = k.on[u]
          /\ u \in k'.expired <=> u \in k.expired
          /\ u \in k'.canceled <=> u \in k.canceled
      BY Zenon, <1>1, <2>1
    <3> QED BY ONLY <3>1, OutcomeFrame
  <2>2. CASE u = t /\ p # q
    BY Zenon, <1>1, <2>2 DEF Outcome
  <2> QED BY Zenon, <1>3, <2>1, <2>2
<1>4. /\ LinesOK(k')
      /\ \E i \in DOMAIN Line(k, q) : Line(k, q)[i] = t /\ LeavesLine(k, k', q, i)
      /\ t = k.wq.next[q] => Line(k, q)[1] = t /\ LeavesLine(k, k', q, 1)
  BY Zenon, LeaveLines
<1>5. ASSUME NEW i, Line(k, q)[i] = t, LeavesLine(k, k', q, i)
      PROVE  Abs!EndWait(q, i, PendResult(k', t))
  BY Zenon, <1>1, <1>2, <1>3, <1>5, AbsEndWait
<1> QED BY Zenon, <1>4, <1>5

\* A thread switch ends no wait: the current thread has no outcome to lose.
LEMMA SwitchRefines ==
  ASSUME IInv, LinesOK(k), k' = z_scheduler(k), count' = count,
         k.current \in Threads => k.on[k.current] = NULL
  PROVE  LinesOK(k') /\ UNCHANGED Abs!vars
<1> DEFINE r == z_scheduler(k)
<1>1. k \in KernelStates /\ IdleOK(k) /\ RunQueueOK(k)
  BY Zenon DEF IInv, KernelOK
<1>2. /\ r \in KernelStates /\ IdleOK(r) /\ RunQueueOK(r)
      /\ CurrentOK(r)
      /\ Ready(r) = Ready(k)
      /\ r.state = k.state /\ r.wakeup = k.wakeup
      /\ r.timeouts = k.timeouts /\ r.wq = k.wq /\ r.on = k.on
      /\ r.expired = k.expired \ {k.current}
      /\ r.canceled = k.canceled \ {k.current}
  BY Zenon, <1>1, SwitchThread
<1> HIDE DEF r
<1>3. k' = r
  BY Zenon DEF r
<1>4. \A q \in Queues : Waiting(r, q) = Waiting(k, q)
  BY Zenon, <1>2 DEF Waiting
<1>5. LinesOK(r) /\ SameLines(k, r)
  BY Zenon, <1>2, <1>4, LinesFrame
<1>6. ASSUME NEW q \in Queues, NEW t \in Threads
      PROVE  Outcome(r, q, t) = Outcome(k, q, t)
  <2>1. CASE t = k.current
    BY <1>2, <2>1, NoOutcome
  <2>2. CASE t # k.current
    BY <1>2, <2>2, OutcomeFrame
  <2> QED BY Zenon, <2>1, <2>2
<1> QED BY Zenon, <1>3, <1>5, <1>6, AbsStutter DEF SameOutcomes

LEMMA SleepRefines ==
  ASSUME IInv, LinesOK(k), NEW t \in Sleepers, NEW n \in Nat, k_sleep(t, n), count' = count
  PROVE  LinesOK(k') /\ UNCHANGED Abs!vars
<1> DEFINE r == z_pend_current(k, n)
<1>1. k.current = t /\ k.on[t] = NULL /\ t \in Threads /\ k' = r
  BY Zenon DEF k_sleep, Running
<1>2. k \in KernelStates /\ IdleOK(k) /\ RunQueueOK(k) /\ TimeoutsOK(k) /\ CurrentOK(k)
  BY Zenon DEF IInv, KernelOK
<1>3. /\ r \in KernelStates /\ IdleOK(r) /\ RunQueueOK(r) /\ TimeoutsOK(r)
      /\ CurrentOK(r)
      /\ k.state[k.current] = "READY"
      /\ r.state = [k.state EXCEPT ![k.current] = "PENDING"]
      /\ r.wakeup = IF n = K_FOREVER THEN k.wakeup ELSE k.wakeup \cup {k.current}
      /\ r.expired = k.expired \ {k.current} /\ r.canceled = k.canceled \ {k.current}
      /\ r.wq = k.wq /\ r.on = k.on
  <2>1. n \in Nat \cup {K_FOREVER} /\ k.current \in Threads
    BY Zenon, <1>1
  <2> QED BY Zenon, <1>2, <2>1, PendCurrent
<1> HIDE DEF r
<1>4. /\ r.state[t] = "PENDING" /\ r.on[t] = NULL
      /\ \A u \in Threads \ {t} : r.state[u] = k.state[u] /\ r.on[u] = k.on[u]
  BY <1>1, <1>2, <1>3 DEF KernelStates, ThreadStates
<1>5. \A q \in Queues : Waiting(r, q) = Waiting(k, q)
  BY <1>1, <1>3, <1>4, Disjoint DEF Waiting
<1>6. LinesOK(r) /\ SameLines(k, r)
  BY Zenon, <1>3, <1>5, LinesFrame
<1>7. ASSUME NEW q \in Queues, NEW u \in Threads
      PROVE  Outcome(r, q, u) = Outcome(k, q, u)
  <2>1. CASE u = t
    BY <1>1, <1>4, <2>1, NoOutcome
  <2>2. CASE u # t
    <3>1. /\ r.state[u] = k.state[u] /\ r.on[u] = k.on[u]
          /\ u \in r.expired <=> u \in k.expired
          /\ u \in r.canceled <=> u \in k.canceled
      BY Zenon, <1>1, <1>3, <1>4, <2>2
    <3> QED BY ONLY <3>1, OutcomeFrame
  <2> QED BY Zenon, <2>1, <2>2
<1> QED BY Zenon, <1>1, <1>6, <1>7, AbsStutter DEF SameOutcomes

LEMMA TickRefines ==
  ASSUME IInv, LinesOK(k), SysTick, count' = count
  PROVE  LinesOK(k') /\ UNCHANGED Abs!vars
<1>1. /\ k'.state = k.state /\ k'.on = k.on
      /\ k'.expired = k.expired /\ k'.canceled = k.canceled
  BY Zenon, TickOK DEF IInv
<1>2. k'.wq = k.wq
  BY ZenonT(30) DEF SysTick, IInv, KernelOK, KernelStates
<1>3. \A q \in Queues : Waiting(k', q) = Waiting(k, q)
  BY Zenon, <1>1 DEF Waiting
<1>4. LinesOK(k') /\ SameLines(k, k')
  BY Zenon, <1>2, <1>3, LinesFrame
<1>5. SameOutcomes(k, k')
  BY <1>1, OutcomeFrame DEF SameOutcomes
<1> QED BY Zenon, <1>4, <1>5, AbsStutter

\* A timeout ends the wait of a thread, or only its sleep.
LEMMA ExpireRefines ==
  ASSUME IInv, LinesOK(k), SchedEnterExpire, count' = count
  PROVE  LinesOK(k') /\ [Abs!Next]_Abs!vars
<1>1. k' = Expire(k) /\ HasExpired(k.timeouts) /\ KernelOK(k, Sleepers)
  BY Zenon DEF SchedEnterExpire, IInv
<1>2. PICK t : t = k.timeouts[1].item
  BY Zenon
<1>3. /\ t \in Threads /\ k.state[t] = "PENDING" /\ t \in k.wakeup
      /\ k'.state = [k.state EXCEPT ![t] = "READY"]
      /\ k'.expired = k.expired \cup {t} /\ k'.canceled = k.canceled
      /\ k'.on = k.on /\ Unlinked(k, k', t)
  <2> DEFINE u == k.timeouts[1].item
             r == Expire(k)
  <2>1. /\ u \in Threads /\ k.state[u] = "PENDING" /\ u \in k.wakeup
        /\ KernelOK(r, Sleepers)
        /\ Ready(r) = Ready(k) \cup {u}
        /\ r.state = [k.state EXCEPT ![u] = "READY"]
        /\ r.run_queue = IF Ready(k) = {} THEN u ELSE k.run_queue
        /\ r.wakeup = k.wakeup \ {u}
        /\ r.expired = k.expired \cup {u} /\ r.canceled = k.canceled
        /\ r.current = k.current /\ r.on = k.on
    BY ZenonT(30), <1>1, SleepersType, ExpireFirst
  <2>2. Unlinked(k, r, u)
    BY Zenon, <1>1, SleepersType, ExpireLinks
  <2> HIDE DEF u, r
  <2>3. k' = r /\ t = u
    BY Zenon, <1>1, <1>2 DEF u, r
  <2> QED BY Zenon, <2>1, <2>2, <2>3
<1>4. k \in KernelStates /\ WaitQueuesOK(k) /\ LinksOK(k, Sleepers)
  BY Zenon, <1>1 DEF KernelOK
<1>5. CASE k.on[t] \in Queues
  <2>1. PICK q \in Queues : q = k.on[t]
    BY Zenon, <1>5
  <2>2. t \in Waiting(k, q)
    BY Zenon, <1>3, <2>1 DEF Waiting
  <2>3. \A u \in Threads \ {t} : /\ u \in k'.expired <=> u \in k.expired
                                 /\ u \in k'.canceled <=> u \in k.canceled
    BY Zenon, <1>3
  <2>4. /\ LinesOK(k')
        /\ \E i \in DOMAIN Line(k, q) : Abs!EndWait(q, i, PendResult(k', t))
    BY Zenon, <1>3, <1>4, <2>2, <2>3, EndRefines
  <2>5. PendResult(k', t) = "ETIMEDOUT"
    BY Zenon, <1>3 DEF PendResult
  <2>6. Abs!TimeOut(q)
    BY Zenon, <2>4, <2>5 DEF Abs!TimeOut
  <2> QED BY Zenon, <2>4, <2>6 DEF Abs!Next
<1>6. CASE k.on[t] = NULL
  <2>1. k.wq.next[t] = k.wq.prev[t] /\ k.wq.next[t] \in {t, NULL}
    BY Zenon, <1>3, <1>4, <1>6 DEF LinksOK
  <2>2. /\ k'.state[t] = "READY" /\ k'.on[t] = NULL
        /\ \A u \in Threads \ {t} : k'.state[u] = k.state[u] /\ k'.on[u] = k.on[u]
    BY Zenon, <1>3, <1>4, <1>6 DEF KernelStates, ThreadStates
  <2>3. \A q \in Queues : Waiting(k', q) = Waiting(k, q) /\ t \notin Waiting(k, q)
    BY <1>3, <1>6, <2>2, Disjoint DEF Waiting
  <2>4. ASSUME NEW q \in Queues, NEW x \in {q} \cup Waiting(k, q)
        PROVE  k'.wq.next[x] = k.wq.next[x]
    <3>1. x \in WqNodes \ {t} /\ x # k.wq.prev[t]
      BY <1>3, <2>1, <2>3, <2>4, Disjoint DEF WqNodes, Waiting
    <3> QED BY Zenon, <1>3, <3>1 DEF Unlinked
  <2>5. LinesOK(k') /\ SameLines(k, k')
    BY Zenon, <2>3, <2>4, LinesFrame
  <2>6. ASSUME NEW q \in Queues, NEW u \in Threads
        PROVE  Outcome(k', q, u) = Outcome(k, q, u)
    <3>1. CASE u = t
      BY Zenon, <1>6, <2>2, <3>1, NoOutcome
    <3>2. CASE u # t
      <4>1. /\ k'.state[u] = k.state[u] /\ k'.on[u] = k.on[u]
            /\ u \in k'.expired <=> u \in k.expired
            /\ u \in k'.canceled <=> u \in k.canceled
        BY Zenon, <1>3, <2>2, <3>2
      <4> QED BY ONLY <4>1, OutcomeFrame
    <3> QED BY Zenon, <3>1, <3>2
  <2>7. UNCHANGED Abs!vars
    BY Zenon, <2>5, <2>6, AbsStutter DEF SameOutcomes
  <2> QED BY Zenon, <2>5, <2>7
<1> QED BY Zenon, <1>3, <1>4, <1>5, <1>6 DEF KernelStates

\* The loop of k_sem_cancel_wait ends the wait of the first thread of the line.
LEMMA CancelRefines ==
  ASSUME IInv, LinesOK(k), CancelStep, count' = count
  PROVE  LinesOK(k') /\ Abs!Next
<1>1. PICK q : q = ctx.q
  BY Zenon
<1>2. k' = z_cancel_first_pending(k, q) /\ ~ DLIST_EMPTY(k.wq, q) /\ q \in Queues
      /\ KernelOK(k, Sleepers)
  BY <1>1 DEF CancelStep, IInv, ContextOK, InThread
<1>3. PICK t : t = k.wq.next[q]
  BY Zenon
<1>4. /\ t \in Waiting(k, q)
      /\ k'.state = [k.state EXCEPT ![t] = "READY"]
      /\ k'.expired = k.expired /\ k'.canceled = k.canceled \cup {t}
      /\ k'.on = k.on /\ Unlinked(k, k', t)
  <2> DEFINE u == k.wq.next[q]
             r == z_cancel_first_pending(k, q)
  <2>1. /\ u \in Waiting(k, q)
        /\ KernelOK(r, Sleepers)
        /\ Ready(r) = Ready(k) \cup {u}
        /\ r.state = [k.state EXCEPT ![u] = "READY"]
        /\ r.run_queue = IF Ready(k) = {} THEN u ELSE k.run_queue
        /\ r.wakeup = k.wakeup \ {u}
        /\ r.expired = k.expired /\ r.canceled = k.canceled \cup {u}
        /\ r.current = k.current /\ r.on = k.on
    BY ZenonT(30), <1>2, SleepersType, CancelFirst
  <2>2. Unlinked(k, r, u)
    BY Zenon, <1>2, SleepersType, CancelLinks
  <2> HIDE DEF u, r
  <2>3. k' = r /\ t = u
    BY Zenon, <1>2, <1>3 DEF u, r
  <2> QED BY Zenon, <2>1, <2>2, <2>3
<1>5. k \in KernelStates /\ WaitQueuesOK(k)
  BY Zenon, <1>2 DEF KernelOK
<1>6. \A u \in Threads \ {t} : /\ u \in k'.expired <=> u \in k.expired
                               /\ u \in k'.canceled <=> u \in k.canceled
  BY Zenon, <1>4
<1>7. LinesOK(k') /\ Abs!EndWait(q, 1, PendResult(k', t))
  BY Zenon, <1>2, <1>3, <1>4, <1>5, <1>6, EndRefines
<1>8. PendResult(k', t) = "ECANCELED"
  <2>1. t \notin k.expired
    BY Zenon, <1>4 DEF IInv, FlagsOK, Waiting
  <2> QED BY Zenon, <1>4, <2>1 DEF PendResult
<1>9. Abs!Cancel(q)
  BY Zenon, <1>7, <1>8 DEF Abs!Cancel
<1> QED BY Zenon, <1>2, <1>7, <1>9 DEF Abs!Next

\* k_sem_give hands the unit to the first thread of the line, or counts it.
LEMMA GiveRefines ==
  ASSUME IInv, LinesOK(k), NEW q \in Queues, k_sem_give(q)
  PROVE  LinesOK(k') /\ [Abs!Next]_Abs!vars
<1>1. k' = z_unpend_first_thread(k, q) /\ KernelOK(k, Sleepers)
  BY SMTT(30) DEF k_sem_give, IInv
<1>2. k \in KernelStates /\ WaitQueuesOK(k)
  BY Zenon, <1>1 DEF KernelOK
<1>3. CASE ~ DLIST_EMPTY(k.wq, q)
  <2>1. PICK t : t = k.wq.next[q]
    BY Zenon
  <2>2. /\ t \in Waiting(k, q)
        /\ k'.state = [k.state EXCEPT ![t] = "READY"]
        /\ k'.expired = k.expired /\ k'.canceled = k.canceled
        /\ k'.on = k.on /\ Unlinked(k, k', t)
    <3> DEFINE u == k.wq.next[q]
               r == z_unpend_first_thread(k, q)
    <3>1. /\ u \in Waiting(k, q)
          /\ KernelOK(r, Sleepers)
          /\ Ready(r) = Ready(k) \cup {u}
          /\ r.state = [k.state EXCEPT ![u] = "READY"]
          /\ r.run_queue = IF Ready(k) = {} THEN u ELSE k.run_queue
          /\ r.wakeup = k.wakeup \ {u}
          /\ r.expired = k.expired /\ r.canceled = k.canceled
          /\ r.current = k.current /\ r.on = k.on
      BY ZenonT(30), <1>1, <1>3, SleepersType, UnpendFirst
    <3>2. Unlinked(k, r, u)
      BY Zenon, <1>1, <1>3, SleepersType, UnpendLinks
    <3> HIDE DEF u, r
    <3>3. k' = r /\ t = u
      BY Zenon, <1>1, <2>1 DEF u, r
    <3> QED BY Zenon, <3>1, <3>2, <3>3
  <2>3. t \in Threads /\ t \notin k.expired /\ t \notin k.canceled
    BY Zenon, <2>2 DEF IInv, FlagsOK, Waiting
  <2>4. count' = count
    <3>1. FirstPending(k, q) # NULL
      BY Zenon, <1>3, <2>1, <2>3, Disjoint DEF FirstPending
    <3> QED BY Zenon, <3>1 DEF k_sem_give
  <2>5. \A u \in Threads \ {t} : /\ u \in k'.expired <=> u \in k.expired
                                 /\ u \in k'.canceled <=> u \in k.canceled
    BY Zenon, <2>2
  <2>6. LinesOK(k') /\ Abs!EndWait(q, 1, PendResult(k', t))
    BY Zenon, <1>2, <2>1, <2>2, <2>4, <2>5, EndRefines
  <2>7. PendResult(k', t) = "OK"
    BY Zenon, <2>2, <2>3 DEF PendResult
  <2>8. Abs!Give(q)
    BY Zenon, <2>6, <2>7 DEF Abs!Give
  <2> QED BY Zenon, <2>6, <2>8 DEF Abs!Next
<1>4. CASE DLIST_EMPTY(k.wq, q)
  <2>1. FirstPending(k, q) = NULL /\ k' = k
    BY Zenon, <1>1, <1>4 DEF FirstPending, z_unpend_first_thread
  <2>2. LinesOK(k') /\ SameLines(k, k') /\ SameOutcomes(k, k')
    BY Zenon, <2>1 DEF SameLines, SameOutcomes
  <2>3. CASE count[q] < Limit[q]
    <3>1. count' = [count EXCEPT ![q] = @ + 1]
      BY Zenon, <2>1, <2>3 DEF k_sem_give
    <3>2. Line(k, q) = <<>>
      <4>1. Len(Line(k, q)) = 0 /\ Line(k, q) \in Seq(Threads)
        <5>1. /\ Line(k, q) \in Seq(Threads) /\ Len(Line(k, q)) \in Nat
              /\ k.wq.next[q] = IF Len(Line(k, q)) = 0 THEN q ELSE Line(k, q)[1]
          BY DEF LinesOK, Lined
        <5>2. Len(Line(k, q)) # 0 => Line(k, q)[1] \in Threads
          BY <5>1
        <5> QED BY Zenon, <1>4, <5>1, <5>2, Disjoint DEF DLIST_EMPTY
      <4> QED BY <4>1
    <3>3. Abs!Give(q)
      BY Zenon, <2>1, <2>3, <3>1, <3>2 DEF Abs!Give
    <3> QED BY Zenon, <2>2, <3>3 DEF Abs!Next
  <2>4. CASE ~ (count[q] < Limit[q])
    <3>1. count' = count
      BY Zenon, <2>1, <2>4 DEF k_sem_give
    <3> QED BY Zenon, <2>2, <3>1, AbsStutter
  <2> QED BY Zenon, <2>3, <2>4
<1> QED BY Zenon, <1>3, <1>4

LEMMA ExitRefines ==
  ASSUME IInv, LinesOK(k), SchedEnterExit, count' = count
  PROVE  LinesOK(k') /\ UNCHANGED Abs!vars
<1>1. k.current \in Threads => k.on[k.current] = NULL
  BY DEF SchedEnterExit, InThread, IInv, ContextOK
<1>2. CASE Preemptible(k)
  BY Zenon, <1>1, <1>2, SwitchRefines DEF SchedEnterExit
<1>3. CASE ~ Preemptible(k)
  BY Zenon, <1>3, AbsStutter DEF SchedEnterExit, SameLines, SameOutcomes
<1> QED BY Zenon, <1>2, <1>3

\* A k_sem_take that finds no unit joins the end of the line.
LEMMA WaitRefines ==
  ASSUME IInv, LinesOK(k), NEW q \in Queues, NEW t \in Threads, Running(t),
         NEW timeout \in Nat \cup {K_FOREVER}, timeout # K_NO_WAIT,
         timeout # K_FOREVER => t \notin Sleepers,
         k' = z_pend_current_on(k, q, timeout), count[q] = 0, count' = count
  PROVE  LinesOK(k') /\ Abs!Wait(q, t)
<1> DEFINE r == z_pend_current_on(k, q, timeout)
<1>1. /\ k.current = t /\ k.on[t] = NULL
      /\ KernelOK(k, Sleepers) /\ CurrentOK(k)
      /\ k \in KernelStates /\ WaitQueuesOK(k)
  BY Zenon DEF Running, IInv, KernelOK
<1>2. /\ k.state[t] = "READY"
      /\ r.state = [k.state EXCEPT ![t] = "PENDING"]
      /\ r.expired = k.expired \ {t} /\ r.canceled = k.canceled \ {t}
      /\ r.on = [k.on EXCEPT ![t] = q]
  <2>1. k.current \in Threads /\ k.on[k.current] = NULL
        /\ (timeout # K_FOREVER => k.current \notin Sleepers)
    BY Zenon, <1>1
  <2>2. KernelOK(r, Sleepers) /\ CurrentOK(r) /\ WaitsOn(k, r, q)
    BY Zenon, <1>1, <2>1, SleepersType, PendOn
  <2> QED BY Zenon, <1>1, <2>2 DEF WaitsOn
<1>3. r.wq = dlist_append(k.wq, q, t)
  BY Zenon, <1>1, SleepersType, PendLinks
<1> HIDE DEF r
<1>4. k' = r
  BY Zenon DEF r
<1>5. /\ r.state[t] = "PENDING" /\ r.on[t] = q
      /\ \A u \in Threads \ {t} : r.state[u] = k.state[u] /\ r.on[u] = k.on[u]
  BY <1>1, <1>2 DEF KernelStates, ThreadStates
<1>6. /\ \A p \in Queues : t \notin Waiting(k, p)
      /\ Waiting(r, q) = Waiting(k, q) \cup {t}
      /\ \A p \in Queues \ {q} : Waiting(r, p) = Waiting(k, p)
  BY <1>2, <1>5 DEF Waiting
<1>7. /\ LinesOK(r)
      /\ Line(r, q) = Append(Line(k, q), t)
      /\ \A p \in Queues \ {q} : Line(r, p) = Line(k, p)
  BY <1>1, <1>3, <1>6, JoinLines
<1>8. ASSUME NEW p \in Queues, NEW u \in Threads
      PROVE  Outcome(r, p, u) = Outcome(k, p, u)
  <2>1. CASE u = t
    BY <1>1, <1>5, <2>1, NoOutcome
  <2>2. CASE u # t
    <3>1. /\ r.state[u] = k.state[u] /\ r.on[u] = k.on[u]
          /\ u \in r.expired <=> u \in k.expired
          /\ u \in r.canceled <=> u \in k.canceled
      BY Zenon, <1>2, <1>5, <2>2
    <3> QED BY ONLY <3>1, OutcomeFrame
  <2> QED BY Zenon, <2>1, <2>2
<1>9. \A i \in DOMAIN Line(k, q) : Line(k, q)[i] # t
  <2>1. Line(k, q) \in Seq(Threads) /\ Elems(Line(k, q)) = Waiting(k, q)
    BY Zenon DEF LinesOK, Lined
  <2> QED BY <1>6, <2>1 DEF Elems
<1>10. Abs!NotWaiting(q, t)
  <2>1. Outcome(k, q, t) = "none"
    BY Zenon, <1>1, NoOutcome
  <2> QED BY Zenon, <1>9, <2>1 DEF Abs!NotWaiting
<1> DEFINE lines == [p \in Queues |-> Line(k, p)]
<1>11. [p \in Queues |-> Line(r, p)] = [lines EXCEPT ![q] = Append(@, t)]
  BY Zenon, <1>7
<1>12. [p \in Queues |-> [u \in Threads |-> Outcome(r, p, u)]]
         = [p \in Queues |-> [u \in Threads |-> Outcome(k, p, u)]]
  BY Zenon, <1>8
<1> QED BY <1>4, <1>7, <1>10, <1>11, <1>12 DEF Abs!Wait

LEMMA TakeRefines ==
  ASSUME IInv, Discipline, LinesOK(k), NEW t \in Threads, NEW q \in Queues,
         NEW n \in TakeTimeouts(t), k_sem_take(t, q, n)
  PROVE  LinesOK(k') /\ [Abs!Next]_Abs!vars
<1>1. count[q] \in 0 .. 255
  BY Zenon DEF IInv, TypeOK
<1>2. CASE count[q] > 0
  <2>1. k' = k /\ count' = [count EXCEPT ![q] = @ - 1]
    BY Zenon, <1>2 DEF k_sem_take
  <2>2. Abs!TakeUnit(q)
    BY Zenon, <1>2, <2>1 DEF Abs!TakeUnit
  <2> QED BY Zenon, <2>1, <2>2 DEF Abs!Next
<1>3. CASE ~ (count[q] > 0) /\ n = K_NO_WAIT
  <2>1. k' = k /\ count' = count
    BY Zenon, <1>3 DEF k_sem_take, z_pend_current_on
  <2> QED BY Zenon, <2>1, AbsStutter DEF SameLines, SameOutcomes
<1>4. CASE ~ (count[q] > 0) /\ n # K_NO_WAIT
  <2>1. k' = z_pend_current_on(k, q, n) /\ count' = count /\ Running(t) /\ count[q] = 0
    BY <1>1, <1>4 DEF k_sem_take
  <2>2. n \in Nat \cup {K_FOREVER} /\ (n # K_FOREVER => t \in TimedTakers)
    BY <1>4, SemaphoreAssumption DEF TakeTimeouts
  <2>3. n # K_FOREVER => t \notin Sleepers
    BY Zenon, <2>2 DEF Discipline
  <2>4. LinesOK(k') /\ Abs!Wait(q, t)
    BY Zenon, <1>4, <2>1, <2>2, <2>3, WaitRefines
  <2> QED BY Zenon, <2>4 DEF Abs!Next
<1> QED BY Zenon, <1>2, <1>3, <1>4

\* A thread returns from its wait with the outcome it was given.
LEMMA ReturnRefines ==
  ASSUME IInv, LinesOK(k), NEW t \in Threads, k_sem_take_return(t)
  PROVE  LinesOK(k') /\ Abs!Next
<1>1. k.current = t /\ k.on[t] # NULL /\ k' = Returned(k, t) /\ count' = count
  BY Zenon DEF k_sem_take_return, Returning
<1>2. k \in KernelStates /\ k.state[t] = "READY"
  <2>1. k \in KernelStates
    BY Zenon DEF IInv, KernelOK
  <2>2. t \in Ready(k)
    BY Zenon, <1>1, Disjoint DEF IInv, CurrentOK
  <2> QED BY Zenon, <1>1, <2>1, <2>2 DEF Ready, KernelStates
<1>3. PICK q \in Queues : k.on[t] = q
  BY Zenon, <1>1, <1>2 DEF KernelStates
<1>4. /\ k'.state = k.state /\ k'.wq = k.wq
      /\ k'.expired = k.expired /\ k'.canceled = k.canceled
      /\ k'.on[t] = NULL
      /\ \A u \in Threads \ {t} : k'.on[u] = k.on[u]
  BY Zenon, <1>1, <1>2 DEF Returned, KernelStates
<1>5. \A p \in Queues : Waiting(k', p) = Waiting(k, p)
  BY Zenon, <1>2, <1>4 DEF Waiting
<1>6. LinesOK(k') /\ SameLines(k, k')
  BY Zenon, <1>4, <1>5, LinesFrame
<1>7. Outcome(k, q, t) = PendResult(k, t) /\ Outcome(k', q, t) = "none"
  BY Zenon, <1>2, <1>3, <1>4, Disjoint DEF Outcome
<1>8. ASSUME NEW p \in Queues, NEW u \in Threads, p # q \/ u # t
      PROVE  Outcome(k', p, u) = Outcome(k, p, u)
  <2>1. CASE u # t
    <3>1. /\ k'.state[u] = k.state[u] /\ k'.on[u] = k.on[u]
          /\ u \in k'.expired <=> u \in k.expired
          /\ u \in k'.canceled <=> u \in k.canceled
      BY Zenon, <1>4, <2>1
    <3> QED BY ONLY <3>1, OutcomeFrame
  <2>2. CASE u = t /\ p # q
    BY Zenon, <1>3, <1>4, <2>2, Disjoint DEF Outcome
  <2> QED BY Zenon, <1>8, <2>1, <2>2
<1> DEFINE Row(s, p) == [u \in Threads |-> Outcome(s, p, u)]
           out == [p \in Queues |-> Row(k, p)]
<1>9. Row(k', q) = [Row(k, q) EXCEPT ![t] = "none"]
  BY Zenon, <1>7, <1>8
<1>10. \A p \in Queues : p # q => Row(k', p) = Row(k, p)
  BY Zenon, <1>8
<1>11. [p \in Queues |-> Row(k', p)] = [out EXCEPT ![q] = [@ EXCEPT ![t] = "none"]]
  <2> HIDE DEF Row
  <2> QED BY Zenon, <1>9, <1>10
<1>12. out[q][t] \in Abs!Outcomes
  BY Zenon, <1>7 DEF PendResult, Abs!Outcomes
<1>13. [p \in Queues |-> Line(k', p)] = [p \in Queues |-> Line(k, p)]
  BY Zenon, <1>6 DEF SameLines
<1>14. Abs!Return(q, t)
  BY Zenon, <1>1, <1>11, <1>12, <1>13 DEF Abs!Return
<1> QED BY Zenon, <1>6, <1>14 DEF Abs!Next

\* Every step of the semaphores is a step of SemaphoreAbs, or leaves it alone.
LEMMA StepRefines ==
  ASSUME Discipline
  PROVE  IInv /\ LinesOK(k) /\ [Next]_vars => LinesOK(k)' /\ [Abs!Next]_Abs!vars
<1> SUFFICES ASSUME IInv, LinesOK(k), [Next]_vars
             PROVE  LinesOK(k') /\ [Abs!Next]_Abs!vars
  BY Zenon
<1>1. ASSUME k' = k, count' = count PROVE LinesOK(k') /\ UNCHANGED Abs!vars
  BY Zenon, <1>1, AbsStutter DEF SameLines, SameOutcomes
<1>2. ASSUME NEW t \in Threads, Thread(t)
      PROVE  LinesOK(k') /\ [Abs!Next]_Abs!vars
  <2>1. ASSUME k_yield(t), count' = count
        PROVE  LinesOK(k') /\ UNCHANGED Abs!vars
    BY Zenon, <2>1, SwitchRefines DEF k_yield, Running
  <2>2. ASSUME t \in Sleepers, NEW n \in 0 .. MAX_TIMEOUT, k_sleep(t, n), count' = count
        PROVE  LinesOK(k') /\ UNCHANGED Abs!vars
    <3>1. n \in Nat
      BY SemaphoreAssumption
    <3> QED BY Zenon, <2>2, <3>1, SleepRefines
  <2>3. ASSUME k_sem_take_return(t) PROVE LinesOK(k') /\ Abs!Next
    BY Zenon, <2>3, ReturnRefines
  <2>4. ASSUME NEW s \in Queues, NEW n \in TakeTimeouts(t), k_sem_take(t, s, n)
        PROVE  LinesOK(k') /\ [Abs!Next]_Abs!vars
    BY Zenon, <2>4, TakeRefines
  <2>5. ASSUME NEW s \in Queues, k_sem_cancel_wait(t, s)
        PROVE  LinesOK(k') /\ UNCHANGED Abs!vars
    BY Zenon, <1>1, <2>5 DEF k_sem_cancel_wait
  <2> QED BY Zenon, <1>2, <2>1, <2>2, <2>3, <2>4, <2>5 DEF Thread
<1>3. ASSUME NEW s \in Queues, k_sem_give(s)
      PROVE  LinesOK(k') /\ [Abs!Next]_Abs!vars
  BY Zenon, <1>3, GiveRefines
<1>4. ASSUME k_sem_cancel_wait_end PROVE LinesOK(k') /\ UNCHANGED Abs!vars
  BY Zenon, <1>1, <1>4 DEF k_sem_cancel_wait_end
<1>5. ASSUME Sys PROVE LinesOK(k') /\ [Abs!Next]_Abs!vars
  <2>1. count' = count
    BY Zenon, <1>5 DEF Sys
  <2>2. CASE SysTick
    BY Zenon, <2>1, <2>2, TickRefines
  <2>3. CASE SchedEnterExpire
    BY Zenon, <2>1, <2>3, ExpireRefines
  <2>4. CASE SchedEnterExit
    BY <2>1, <2>4, ExitRefines
  <2>5. CASE k_yield_from_isr
    BY Zenon, <2>1, <2>5, SwitchRefines DEF k_yield_from_isr, InterruptsEnabled
  <2>6. CASE CancelStep
    BY Zenon, <2>1, <2>6, CancelRefines
  <2> QED BY Zenon, <1>5, <2>2, <2>3, <2>4, <2>5, <2>6 DEF Sys, Tick
<1>6. ASSUME UNCHANGED vars PROVE LinesOK(k') /\ UNCHANGED Abs!vars
  BY Zenon, <1>1, <1>6 DEF vars
<1> QED BY Zenon, <1>2, <1>3, <1>4, <1>5, <1>6 DEF Next

\* At first no thread waits.
LEMMA InitRefines == Init => LinesOK(k) /\ Abs!Init
<1> SUFFICES ASSUME Init PROVE LinesOK(k) /\ Abs!Init
  BY Zenon
<1>1. IInv
  BY Zenon, InitInvariant
<1>2. /\ k.on = [t \in Threads |-> NULL]
      /\ \A q \in Queues : k.wq.next[q] = q
  BY DEF Init, KernelInit
<1>3. ASSUME NEW q \in Queues PROVE Lined(k, q, <<>>)
  <2>1. Waiting(k, q) = {}
    BY Zenon, <1>2, Disjoint DEF Waiting
  <2>2. Elems(<<>>) = {}
    BY DEF Elems
  <2> QED BY <1>2, <2>1, <2>2 DEF Lined
<1>4. ASSUME NEW q \in Queues PROVE Line(k, q) = <<>>
  BY Zenon, <1>3, LineIs
<1>5. LinesOK(k)
  BY Zenon, <1>3, <1>4 DEF LinesOK
<1>6. \A q \in Queues, t \in Threads : Outcome(k, q, t) = "none"
  BY Zenon, <1>2, NoOutcome
<1>7. count \in [Queues -> Nat] /\ \A q \in Queues : count[q] <= Limit[q]
  BY <1>1 DEF IInv, TypeOK
<1> QED BY Zenon, <1>4, <1>5, <1>6, <1>7 DEF Abs!Init

\* The semaphores implement SemaphoreAbs, for any number of threads and
\* semaphores: a unit given goes to the thread that has waited longest or is
\* counted up to the limit, nobody waits while a unit is counted, and the wait
\* of a thread ends exactly once, by a unit, by its timeout or by a cancellation.
THEOREM Refines ==
  ASSUME Discipline
  PROVE  Spec => Implements
<1>1. Init => LinesOK(k) /\ Abs!Init
  BY Zenon, InitRefines
<1>2. IInv /\ LinesOK(k) /\ [Next]_vars => LinesOK(k)' /\ [Abs!Next]_Abs!vars
  BY Zenon, StepRefines
<1>3. Spec => []IInv
  BY Zenon, Invariant
<1>4. Spec => Abs!Init /\ [][Abs!Next]_Abs!vars
  BY <1>1, <1>2, <1>3, PTL DEF Spec
<1> QED BY Zenon, <1>4 DEF Implements, Abs!Spec

==============================================================================
