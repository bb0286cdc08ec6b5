---------------------------- MODULE ServiceProofs ----------------------------
(***************************************************************************)
(* What the services of the objects keep of the kernel: it is in order,    *)
(* and threads only wait on the objects of the program.  The services of   *)
(* the mutexes, the condition variables and the signal also preserve the   *)
(* invariant of their object, for any number of threads and mutexes.       *)
(***************************************************************************)
EXTENDS MemSlab, Signal, Msgq, Mutex, KernelProofs

-------------------------------------------------------------------------------
(* The waits: who waits on a wait queue, and who was woken up from it with       *)
(* something and has not returned yet                                            *)

\* The threads woken up by what they waited for on q, that have not returned yet.
Handed(s, q) ==
  {t \in Threads : /\ s.on[t] = q /\ s.state[t] # "PENDING"
                   /\ t \notin s.expired /\ t \notin s.canceled}

\* The kernel state, with no result for a thread that still waits.
Settled(s, S) ==
  /\ KernelOK(s, S)
  /\ CurrentOK(s)
  /\ \A t \in Threads : s.state[t] = "PENDING" => t \notin s.expired /\ t \notin s.canceled

\* From s to r nobody was handed anything, and nobody started to wait.
NoneHanded(s, r) ==
  \A q \in Queues : Handed(r, q) = Handed(s, q) /\ Waiting(r, q) \subseteq Waiting(s, q)

\* From s to r the thread t, which waited on q, was handed something.
HandedTo(s, r, q, t) ==
  /\ t \in Waiting(s, q) /\ t \notin Handed(s, q)
  /\ Handed(r, q) = Handed(s, q) \cup {t}
  /\ Waiting(r, q) = Waiting(s, q) \ {t}
  /\ \A p \in Queues \ {q} : Handed(r, p) = Handed(s, p) /\ Waiting(r, p) = Waiting(s, p)

\* From s to r the thread t started to wait on q.
StartsWait(s, r, q, t) ==
  /\ t \notin Waiting(s, q)
  /\ Waiting(r, q) = Waiting(s, q) \cup {t}
  /\ \A p \in Queues \ {q} : Waiting(r, p) = Waiting(s, p)
  /\ \A p \in Queues : Handed(r, p) = Handed(s, p) /\ t \notin Handed(s, p)

\* From s to r the thread t returned from its wait on q.
EndsWait(s, r, q, t) ==
  /\ Handed(r, q) = Handed(s, q) \ {t}
  /\ \A p \in Queues \ {q} : Handed(r, p) = Handed(s, p) /\ t \notin Handed(s, p)
  /\ \A p \in Queues : Waiting(r, p) = Waiting(s, p) /\ t \notin Waiting(s, p)

LEMMA HandedDef ==
  \A s, q, t : t \in Handed(s, q) <=> /\ t \in Threads /\ s.on[t] = q
                                      /\ s.state[t] # "PENDING"
                                      /\ t \notin s.expired /\ t \notin s.canceled
BY Zenon DEF Handed

LEMMA WaitingDef ==
  \A s, q, t : t \in Waiting(s, q) <=> t \in Threads /\ s.state[t] = "PENDING" /\ s.on[t] = q
BY Zenon DEF Waiting

\* The wait of a thread only depends on its own state, wait queue and result.
LEMMA SameWait ==
  ASSUME NEW s, NEW r, NEW t, NEW q,
         t \in Threads => r.state[t] = s.state[t] /\ r.on[t] = s.on[t],
         t \in r.expired \cup r.canceled <=> t \in s.expired \cup s.canceled
  PROVE  /\ t \in Handed(r, q) <=> t \in Handed(s, q)
         /\ t \in Waiting(r, q) <=> t \in Waiting(s, q)
BY HandedDef, WaitingDef

\* The waits do not change when neither the states, the queues nor the results do.
LEMMA SameWaits ==
  ASSUME NEW s, NEW r, r.state = s.state, r.on = s.on,
         \A t \in Threads : s.on[t] \in Queues =>
           (t \in r.expired <=> t \in s.expired) /\ (t \in r.canceled <=> t \in s.canceled)
  PROVE  \A q \in Queues : Handed(r, q) = Handed(s, q) /\ Waiting(r, q) = Waiting(s, q)
<1> SUFFICES ASSUME NEW q \in Queues
             PROVE  Handed(r, q) = Handed(s, q) /\ Waiting(r, q) = Waiting(s, q)
  BY Zenon
<1>1. ASSUME NEW t PROVE t \in Handed(r, q) <=> t \in Handed(s, q)
  BY HandedDef
<1>2. ASSUME NEW t PROVE t \in Waiting(r, q) <=> t \in Waiting(s, q)
  BY WaitingDef
<1> QED BY <1>1, <1>2, Zenon

\* A thread switch while the current thread waits for nothing.
LEMMA SwitchSettled ==
  ASSUME NEW S, NEW s, Settled(s, S), s.current \in Threads => s.on[s.current] = NULL
  PROVE  LET r == z_scheduler(s)
         IN  Settled(r, S) /\ NoneHanded(s, r) /\ r.on = s.on /\ r.state = s.state
<1> DEFINE r == z_scheduler(s)
<1>1. /\ KernelOK(r, S) /\ CurrentOK(r)
      /\ r.state = s.state /\ r.on = s.on
      /\ r.expired = s.expired \ {s.current}
      /\ r.canceled = s.canceled \ {s.current}
  BY Zenon, SwitchOK DEF Settled
<1> HIDE DEF r
<1>2. \A q \in Queues : Handed(r, q) = Handed(s, q) /\ Waiting(r, q) = Waiting(s, q)
  BY Zenon, <1>1, SameWaits, Disjoint
<1>3. Settled(r, S)
  BY Zenon, <1>1 DEF Settled
<1> QED BY Zenon, <1>1, <1>2, <1>3 DEF NoneHanded, r

\* The tick up to its loop.
LEMMA TickSettled ==
  ASSUME NEW S, Settled(k, S), SysTick
  PROVE  /\ Settled(k', S) /\ NoneHanded(k, k') /\ k'.on = k.on /\ k'.state = k.state
         /\ k'.current = k.current
         /\ ctx = InThread /\ (k.current \in Threads => k.on[k.current] = NULL)
         /\ ctx' \in {InThread, [in |-> "sched_enter", q |-> NULL]}
<1>1. /\ KernelOK(k', S) /\ CurrentOK(k')
      /\ k'.state = k.state /\ k'.on = k.on
      /\ k'.expired = k.expired /\ k'.canceled = k.canceled
      /\ ctx' \in {InThread, [in |-> "sched_enter", q |-> NULL]}
  BY Zenon, TickOK DEF Settled
<1>2. k'.current = k.current
  BY ZenonT(30) DEF SysTick, Settled, KernelOK, KernelStates
<1>3. \A q \in Queues : Handed(k', q) = Handed(k, q) /\ Waiting(k', q) = Waiting(k, q)
  BY Zenon, <1>1, SameWaits
<1>4. Settled(k', S)
  BY Zenon, <1>1 DEF Settled
<1> QED BY Zenon, <1>1, <1>2, <1>3, <1>4 DEF NoneHanded, SysTick, InterruptsEnabled

\* A thread woken up by its timeout or by a cancellation is handed nothing.
LEMMA WokenSettled ==
  ASSUME NEW S, NEW s, Settled(s, S), NEW t \in Threads, s.state[t] = "PENDING",
         NEW r, KernelOK(r, S),
         Ready(r) = Ready(s) \cup {t},
         r.state = [s.state EXCEPT ![t] = "READY"],
         r.run_queue = IF Ready(s) = {} THEN t ELSE s.run_queue,
         r.expired \cup r.canceled = s.expired \cup s.canceled \cup {t},
         r.current = s.current, r.on = s.on
  PROVE  Settled(r, S) /\ NoneHanded(s, r)
<1>1. s \in KernelStates
  BY Zenon DEF Settled, KernelOK
<1>2. CurrentOK(r)
  BY Zenon DEF CurrentOK, Settled
<1>3. \A u \in Threads \ {t} : r.state[u] = s.state[u]
  BY Zenon, <1>1 DEF KernelStates, ThreadStates
<1>4. r.state[t] = "READY"
  BY Zenon, <1>1 DEF KernelStates, ThreadStates
<1>5. \A u \in Threads : r.state[u] = "PENDING" => u \notin r.expired /\ u \notin r.canceled
  BY <1>3, <1>4 DEF Settled
<1>6. NoneHanded(s, r)
  <2> SUFFICES ASSUME NEW q \in Queues
               PROVE  Handed(r, q) = Handed(s, q) /\ Waiting(r, q) \subseteq Waiting(s, q)
    BY Zenon DEF NoneHanded
  <2>1. ASSUME NEW u PROVE u \in Handed(r, q) <=> u \in Handed(s, q)
    <3>1. CASE u = t
      BY <3>1, HandedDef
    <3>2. CASE u # t
      <4>1. u \in Threads => r.state[u] = s.state[u] /\ r.on[u] = s.on[u]
        BY Zenon, <1>3, <3>2
      <4>2. u \in r.expired \cup r.canceled <=> u \in s.expired \cup s.canceled
        BY Zenon, <3>2
      <4> QED BY Zenon, <4>1, <4>2, SameWait
    <3> QED BY Zenon, <3>1, <3>2
  <2>2. ASSUME NEW u \in Waiting(r, q) PROVE u \in Waiting(s, q)
    <3>1. u \in Threads /\ r.state[u] = "PENDING" /\ r.on[u] = q
      BY Zenon DEF Waiting
    <3>2. u # t /\ s.state[u] = "PENDING" /\ s.on[u] = q
      BY Zenon, <1>3, <1>4, <3>1
    <3> QED BY Zenon, <3>1, <3>2 DEF Waiting
  <2> QED BY <2>1, <2>2, Zenon
<1> QED BY Zenon, <1>2, <1>5, <1>6 DEF Settled

LEMMA ExpireSettled ==
  ASSUME NEW S \in SUBSET Threads, NEW s, Settled(s, S), HasExpired(s.timeouts)
  PROVE  LET r == Expire(s)
         IN  Settled(r, S) /\ NoneHanded(s, r) /\ r.on = s.on /\ r.current = s.current
<1> DEFINE t == s.timeouts[1].item
           r == Expire(s)
<1>1. /\ t \in Threads /\ s.state[t] = "PENDING"
      /\ KernelOK(r, S)
      /\ Ready(r) = Ready(s) \cup {t}
      /\ r.state = [s.state EXCEPT ![t] = "READY"]
      /\ r.run_queue = IF Ready(s) = {} THEN t ELSE s.run_queue
      /\ r.expired = s.expired \cup {t} /\ r.canceled = s.canceled
      /\ r.current = s.current /\ r.on = s.on
  BY ZenonT(30), ExpireFirst DEF Settled
<1> HIDE DEF t, r
<1>2. r.expired \cup r.canceled = s.expired \cup s.canceled \cup {t}
  BY Zenon, <1>1
<1>3. Settled(r, S) /\ NoneHanded(s, r)
  BY Zenon, <1>1, <1>2, WokenSettled
<1> QED BY Zenon, <1>1, <1>3 DEF r

LEMMA CancelSettled ==
  ASSUME NEW S \in SUBSET Threads, NEW s, Settled(s, S), NEW q \in Queues,
         ~ DLIST_EMPTY(s.wq, q)
  PROVE  LET r == z_cancel_first_pending(s, q)
         IN  Settled(r, S) /\ NoneHanded(s, r) /\ r.on = s.on /\ r.current = s.current
<1> DEFINE t == s.wq.next[q]
           r == z_cancel_first_pending(s, q)
<1>0. KernelOK(s, S)
  BY Zenon DEF Settled
<1>1. /\ t \in Waiting(s, q)
      /\ KernelOK(r, S)
      /\ Ready(r) = Ready(s) \cup {t}
      /\ r.state = [s.state EXCEPT ![t] = "READY"]
      /\ r.run_queue = IF Ready(s) = {} THEN t ELSE s.run_queue
      /\ r.wakeup = s.wakeup \ {t}
      /\ r.expired = s.expired /\ r.canceled = s.canceled \cup {t}
      /\ r.current = s.current /\ r.on = s.on
  BY ZenonT(30), <1>0, CancelFirst
<1> HIDE DEF t, r
<1>2. /\ t \in Threads /\ s.state[t] = "PENDING"
      /\ r.expired \cup r.canceled = s.expired \cup s.canceled \cup {t}
  BY <1>1, WaitingDef
<1>3. Settled(r, S) /\ NoneHanded(s, r)
  BY Zenon, <1>1, <1>2, WokenSettled
<1> QED BY Zenon, <1>1, <1>3 DEF r

\* A thread woken up by z_unpend_first_thread is handed what it waited for.
LEMMA UnpendSettled ==
  ASSUME NEW S \in SUBSET Threads, NEW s, Settled(s, S), NEW q \in Queues,
         ~ DLIST_EMPTY(s.wq, q)
  PROVE  LET t == s.wq.next[q]
             r == z_unpend_first_thread(s, q)
         IN  /\ Settled(r, S) /\ HandedTo(s, r, q, t) /\ t \in Threads
             /\ r.on = s.on /\ r.current = s.current
             /\ r.state = [s.state EXCEPT ![t] = "READY"]
<1> DEFINE t == s.wq.next[q]
           r == z_unpend_first_thread(s, q)
<1>0. KernelOK(s, S) /\ s \in KernelStates
  BY Zenon DEF Settled, KernelOK
<1>1. /\ t \in Waiting(s, q)
      /\ KernelOK(r, S)
      /\ Ready(r) = Ready(s) \cup {t}
      /\ r.state = [s.state EXCEPT ![t] = "READY"]
      /\ r.run_queue = IF Ready(s) = {} THEN t ELSE s.run_queue
      /\ r.wakeup = s.wakeup \ {t}
      /\ r.expired = s.expired /\ r.canceled = s.canceled
      /\ r.current = s.current /\ r.on = s.on
  BY ZenonT(30), <1>0, UnpendFirst
<1> HIDE DEF t, r
<1>2. /\ t \in Threads /\ s.state[t] = "PENDING" /\ s.on[t] = q
      /\ t \notin s.expired /\ t \notin s.canceled
  BY <1>1, WaitingDef DEF Settled
<1>3. CurrentOK(r)
  BY Zenon, <1>1 DEF CurrentOK, Settled
<1>4. (\A u \in Threads \ {t} : r.state[u] = s.state[u]) /\ r.state[t] = "READY"
  BY Zenon, <1>0, <1>1, <1>2 DEF KernelStates, ThreadStates
<1>5. Settled(r, S)
  BY Zenon, <1>1, <1>3, <1>4 DEF Settled
<1>6. ASSUME NEW p \in Queues, NEW u, u # t \/ p # q
      PROVE  /\ u \in Handed(r, p) <=> u \in Handed(s, p)
             /\ u \in Waiting(r, p) <=> u \in Waiting(s, p)
  <2>1. CASE u = t
    BY <1>1, <1>2, <1>4, <1>6, <2>1, HandedDef, WaitingDef
  <2>2. CASE u # t
    <3>1. u \in Threads => r.state[u] = s.state[u] /\ r.on[u] = s.on[u]
      BY Zenon, <1>1, <1>4, <2>2
    <3>2. u \in r.expired \cup r.canceled <=> u \in s.expired \cup s.canceled
      BY Zenon, <1>1
    <3> QED BY Zenon, <2>2, <3>1, <3>2, SameWait
  <2> QED BY Zenon, <2>1, <2>2
<1>7. t \in Handed(r, q) /\ t \notin Handed(s, q) /\ t \notin Waiting(r, q)
  BY <1>1, <1>2, <1>4, HandedDef, WaitingDef
<1>8. Handed(r, q) = Handed(s, q) \cup {t} /\ Waiting(r, q) = Waiting(s, q) \ {t}
  BY Zenon, <1>6, <1>7
<1>9. \A p \in Queues \ {q} : Handed(r, p) = Handed(s, p) /\ Waiting(r, p) = Waiting(s, p)
  BY Zenon, <1>6
<1> QED BY Zenon, <1>1, <1>2, <1>5, <1>7, <1>8, <1>9 DEF HandedTo, t, r

\* The current thread waits on q, after z_pend_current_on with a timeout that is
\* not K_NO_WAIT.
LEMMA PendSettled ==
  ASSUME NEW S \in SUBSET Threads, NEW s, Settled(s, S),
         s.current \in Threads, s.on[s.current] = NULL,
         NEW q \in Queues, NEW timeout \in Nat \cup {K_FOREVER}, timeout # K_NO_WAIT,
         timeout # K_FOREVER => s.current \notin S
  PROVE  LET r == z_pend_current_on(s, q, timeout)
         IN  Settled(r, S) /\ StartsWait(s, r, q, s.current) /\ WaitsOn(s, r, q)
<1> DEFINE r == z_pend_current_on(s, q, timeout)
           t == s.current
<1>0. KernelOK(s, S) /\ CurrentOK(s) /\ s \in KernelStates
  BY Zenon DEF Settled, KernelOK
<1>1. KernelOK(r, S) /\ CurrentOK(r) /\ WaitsOn(s, r, q)
  BY Zenon, <1>0, PendOn
<1> HIDE DEF r
<1>2. /\ t \in Threads /\ s.on[t] = NULL /\ s.state[t] = "READY"
      /\ r.state = [s.state EXCEPT ![t] = "PENDING"]
      /\ r.expired = s.expired \ {t} /\ r.canceled = s.canceled \ {t}
      /\ r.on = [s.on EXCEPT ![t] = q]
  BY Zenon, <1>1 DEF WaitsOn
<1> HIDE DEF t
<1>3. /\ \A u \in Threads \ {t} : r.state[u] = s.state[u] /\ r.on[u] = s.on[u]
      /\ r.state[t] = "PENDING" /\ r.on[t] = q
  BY <1>0, <1>2 DEF KernelStates, ThreadStates
<1>4. Settled(r, S)
  BY Zenon, <1>1, <1>2, <1>3 DEF Settled
<1>5. ASSUME NEW p \in Queues, NEW u
      PROVE  /\ u \in Handed(r, p) <=> u \in Handed(s, p)
             /\ u \in Waiting(r, p) <=> u \in Waiting(s, p) \/ (u = t /\ p = q)
  <2>1. CASE u = t
    BY <1>2, <1>3, <2>1, HandedDef, WaitingDef, Disjoint
  <2>2. CASE u # t
    <3>1. u \in Threads => r.state[u] = s.state[u] /\ r.on[u] = s.on[u]
      BY Zenon, <1>3, <2>2
    <3>2. u \in r.expired \cup r.canceled <=> u \in s.expired \cup s.canceled
      BY Zenon, <1>2, <2>2
    <3> QED BY Zenon, <2>2, <3>1, <3>2, SameWait
  <2> QED BY Zenon, <2>1, <2>2
<1>6. \A p \in Queues : t \notin Handed(s, p) /\ t \notin Waiting(s, p)
  BY <1>2, HandedDef, WaitingDef, Disjoint
<1>7. Waiting(r, q) = Waiting(s, q) \cup {t}
  BY Zenon, <1>5
<1>8. \A p \in Queues \ {q} : Waiting(r, p) = Waiting(s, p)
  BY Zenon, <1>5
<1>9. \A p \in Queues : Handed(r, p) = Handed(s, p)
  BY Zenon, <1>5
<1> QED BY Zenon, <1>1, <1>4, <1>6, <1>7, <1>8, <1>9 DEF StartsWait, r, t

\* A thread returns from its wait on q.
LEMMA ReturnSettled ==
  ASSUME NEW S \in SUBSET Threads, NEW s, Settled(s, S), s.current \in Threads,
         NEW q \in Queues, s.on[s.current] = q
  PROVE  LET r == Returned(s, s.current)
         IN  /\ Settled(r, S) /\ EndsWait(s, r, q, s.current)
             /\ r.on = [s.on EXCEPT ![s.current] = NULL]
             /\ r.current = s.current /\ r.state = s.state
<1> DEFINE r == Returned(s, s.current)
           t == s.current
<1>0. KernelOK(s, S) /\ s \in KernelStates /\ t \in Ready(s)
  BY Zenon, Disjoint DEF Settled, KernelOK, CurrentOK
<1>1. /\ KernelOK(r, S)
      /\ Ready(r) = Ready(s)
      /\ r.state = s.state
      /\ r.run_queue = s.run_queue /\ r.current = s.current
      /\ r.expired = s.expired /\ r.canceled = s.canceled
      /\ r.on = [s.on EXCEPT ![t] = NULL]
  BY Zenon, <1>0, ReturnThread
<1> HIDE DEF r
<1>2. s.state[t] # "PENDING" /\ t \in Threads /\ s.on[t] = q
  BY Zenon, <1>0 DEF Ready
<1>3. Settled(r, S)
  BY Zenon, <1>1 DEF Settled, CurrentOK
<1> HIDE DEF t
<1>4. (\A u \in Threads \ {t} : r.on[u] = s.on[u]) /\ r.on[t] = NULL
  BY Zenon, <1>0, <1>1, <1>2 DEF KernelStates
<1>5. ASSUME NEW p \in Queues, NEW u
      PROVE  /\ u \in Handed(r, p) <=> u \in Handed(s, p) /\ u # t
             /\ u \in Waiting(r, p) <=> u \in Waiting(s, p)
  <2>1. CASE u = t
    BY <1>1, <1>2, <1>4, <2>1, HandedDef, WaitingDef, Disjoint
  <2>2. CASE u # t
    <3>1. u \in Threads => r.state[u] = s.state[u] /\ r.on[u] = s.on[u]
      BY Zenon, <1>1, <1>4, <2>2
    <3>2. u \in r.expired \cup r.canceled <=> u \in s.expired \cup s.canceled
      BY Zenon, <1>1
    <3> QED BY Zenon, <2>2, <3>1, <3>2, SameWait
  <2> QED BY Zenon, <2>1, <2>2
<1>6. \A p \in Queues : t \notin Waiting(s, p) /\ (p # q => t \notin Handed(s, p))
  BY <1>2, HandedDef, WaitingDef
<1>7. Handed(r, q) = Handed(s, q) \ {t}
  BY Zenon, <1>5
<1>8. \A p \in Queues \ {q} : Handed(r, p) = Handed(s, p)
  BY Zenon, <1>5, <1>6
<1>9. \A p \in Queues : Waiting(r, p) = Waiting(s, p)
  BY Zenon, <1>5
<1> QED BY Zenon, <1>1, <1>3, <1>6, <1>7, <1>8, <1>9 DEF EndsWait, r, t

\* A loop of the kernel is entered from application code, never on the way out of
\* z_pend_current_on: the current thread has no result to lose.
LoopOK == ctx # InThread => (k.current \in Threads => k.on[k.current] = NULL)

\* The steps of the system that hand nothing to anybody.
LEMMA SystemSettled ==
  ASSUME NEW S \in SUBSET Threads, Settled(k, S), LoopOK,
         ctx.in = "cancel" => ctx.q \in Queues,
         Tick \/ k_yield_from_isr \/ CancelStep \/ \E t \in Threads : k_yield(t)
  PROVE  /\ Settled(k', S) /\ NoneHanded(k, k') /\ k'.on = k.on /\ LoopOK'
         /\ ctx' \in {ctx, InThread, [in |-> "sched_enter", q |-> NULL]}
         /\ ctx.in \in {"cancel", "drain"} => ctx' = ctx
<1> USE DEF InThread
<1>1. ASSUME k' = z_scheduler(k), ctx' = InThread, ctx.in # "cancel", ctx.in # "drain",
             k.current \in Threads => k.on[k.current] = NULL
      PROVE  /\ Settled(k', S) /\ NoneHanded(k, k') /\ k'.on = k.on /\ LoopOK'
             /\ ctx' \in {ctx, InThread, [in |-> "sched_enter", q |-> NULL]}
             /\ ctx.in \in {"cancel", "drain"} => ctx' = ctx
  <2>1. Settled(k', S) /\ NoneHanded(k, k') /\ k'.on = k.on
    BY Zenon, <1>1, SwitchSettled
  <2> QED BY Zenon, <1>1, <2>1 DEF LoopOK
<1>2. CASE SysTick
  <2>1. /\ Settled(k', S) /\ NoneHanded(k, k') /\ k'.on = k.on
        /\ k'.current = k.current
        /\ ctx = InThread /\ (k.current \in Threads => k.on[k.current] = NULL)
        /\ ctx' \in {InThread, [in |-> "sched_enter", q |-> NULL]}
    BY Zenon, <1>2, TickSettled
  <2> QED BY Zenon, <2>1 DEF LoopOK
<1>3. CASE SchedEnterExpire
  <2>1. k' = Expire(k) /\ ctx' = ctx /\ ctx.in = "sched_enter" /\ HasExpired(k.timeouts)
    BY Zenon, <1>3 DEF SchedEnterExpire
  <2>2. Settled(k', S) /\ NoneHanded(k, k') /\ k'.on = k.on /\ k'.current = k.current
    BY Zenon, <2>1, ExpireSettled
  <2> QED BY Zenon, <2>1, <2>2 DEF LoopOK
<1>4. CASE SchedEnterExit
  <2>1. /\ ctx' = InThread /\ ctx.in = "sched_enter" /\ ctx # InThread
        /\ k' = IF Preemptible(k) THEN z_scheduler(k) ELSE k
    BY <1>4 DEF SchedEnterExit
  <2>2. CASE Preemptible(k)
    BY Zenon, <1>1, <2>1, <2>2 DEF LoopOK
  <2>3. CASE ~ Preemptible(k)
    BY Zenon, <2>1, <2>3 DEF LoopOK, NoneHanded
  <2> QED BY Zenon, <2>2, <2>3
<1>5. CASE k_yield_from_isr
  BY Zenon, <1>1, <1>5 DEF k_yield_from_isr, InterruptsEnabled
<1>6. CASE \E t \in Threads : k_yield(t)
  BY <1>1, <1>6 DEF k_yield, Running
<1>7. CASE CancelStep
  <2>1. /\ k' = z_cancel_first_pending(k, ctx.q) /\ ctx' = ctx /\ ctx.in = "cancel"
        /\ ~ DLIST_EMPTY(k.wq, ctx.q) /\ ctx.q \in Queues
    BY Zenon, <1>7 DEF CancelStep
  <2>2. Settled(k', S) /\ NoneHanded(k, k') /\ k'.on = k.on /\ k'.current = k.current
    BY Zenon, <2>1, CancelSettled
  <2> QED BY Zenon, <2>1, <2>2 DEF LoopOK
<1> QED BY Zenon, <1>2, <1>3, <1>4, <1>5, <1>6, <1>7 DEF Tick

\* A loop that wakes up all the threads of a wait queue hands over to each of them.
LEMMA DrainSettled ==
  ASSUME NEW S \in SUBSET Threads, Settled(k, S), LoopOK, ctx.q \in Queues, DrainStep
  PROVE  /\ Settled(k', S) /\ HandedTo(k, k', ctx.q, k.wq.next[ctx.q])
         /\ k'.on = k.on /\ LoopOK' /\ ctx' = ctx /\ ctx.in = "drain"
<1>1. /\ k' = z_unpend_first_thread(k, ctx.q) /\ ctx' = ctx /\ ctx.in = "drain"
      /\ ~ DLIST_EMPTY(k.wq, ctx.q)
  BY Zenon DEF DrainStep
<1>2. /\ Settled(k', S) /\ HandedTo(k, k', ctx.q, k.wq.next[ctx.q])
      /\ k'.on = k.on /\ k'.current = k.current
  BY <1>1, UnpendSettled
<1> QED BY Zenon, <1>1, <1>2 DEF LoopOK

-------------------------------------------------------------------------------
(* The services of the objects in general *)

\* The loops with the interrupts enabled: they cancel the waits on the queues Q, or
\* wake up the threads of the queues D.
LoopsOf(Q, D) ==
  {InThread, [in |-> "sched_enter", q |-> NULL]}
    \cup {[in |-> "cancel", q |-> q] : q \in Q}
    \cup {[in |-> "drain", q |-> q] : q \in D}

\* The kernel is in order, and the threads only wait on the queues Q.
Serving(Q, D) ==
  /\ Q \subseteq Queues /\ D \subseteq Q
  /\ Settled(k, {}) /\ LoopOK
  /\ \A t \in Threads : k.on[t] \in Q \cup {NULL}
  /\ ctx \in LoopsOf(Q, D)

Served(Q, D) ==
  /\ Serving(Q, D)
  /\ swap_data \in [Threads -> Nodes \cup Messages \cup {NULL}]

\* The wait queues of the mutexes and of the condition variables.
Locks == Mutexes \cup Condvars

\* A mutex that is locked has one holder, or one thread it is handed to; owner is the
\* holder.
Owned(m) ==
  /\ lock[m] = 0 => \A t \in Threads : m \notin has[t] /\ t \notin Handed(k, m)
  /\ lock[m] # 0 => \E u \in Threads : \A t \in Threads :
                      (m \in has[t] \/ t \in Handed(k, m)) <=> t = u
  /\ \A t \in Threads : m \in has[t] => t \notin Handed(k, m) /\ owner[m] = t

MutexInv ==
  /\ lock \in [Mutexes -> {0, 1}]
  /\ owner \in [Mutexes -> Threads \cup {NULL}]
  /\ relock \in [Threads -> Mutexes \cup {NULL}]
  /\ has \in [Threads -> SUBSET Mutexes]
  /\ reclaimed \subseteq Mutexes
  /\ \A m \in Mutexes : Waiting(k, m) # {} => lock[m] # 0
  /\ \A m \in Mutexes \ reclaimed : Owned(m)

\* The signal is not raised while a thread waits for it, but for the threads that the
\* loop of k_signal_raise has not woken up yet.
SignalInv ==
  /\ signaled \in BOOLEAN
  /\ ctx # [in |-> "drain", q |-> SIGNAL] => (Waiting(k, SIGNAL) # {} => signaled = FALSE)

-------------------------------------------------------------------------------
(* The kernel under the services of the objects *)

LEMMA ServiceQueues ==
  /\ FIFO \in Queues /\ SLAB \in Queues /\ SIGNAL \in Queues /\ MSGQ \in Queues
  /\ Mutexes \subseteq Queues /\ Condvars \subseteq Queues
  /\ Locks = Mutexes \cup Condvars
  /\ FIFO # SLAB /\ \A m \in Mutexes : m \notin Condvars
BY Zenon, FifoAssumption, MemSlabAssumption, SignalAssumption, MsgqAssumption,
   MutexAssumption DEF Locks

\* A service is called with the interrupts enabled, and only a thread waits in one.
LEMMA CallsEnabled ==
  ASSUME NEW c \in Callers, Calls(c)
  PROVE  /\ InterruptsEnabled /\ ctx = InThread
         /\ c \in Threads => k.current = c /\ k.on[c] = NULL
         /\ \A n \in Timeouts(c) : n # K_NO_WAIT => c \in Threads /\ n \in Nat \cup {K_FOREVER}
<1>1. /\ InterruptsEnabled /\ ctx = InThread
      /\ c \in Threads => k.current = c /\ k.on[c] = NULL
  BY Zenon, WaitersAssumption DEF Callers, Calls, Running, InterruptsEnabled
<1>2. \A n \in Timeouts(c) : n # K_NO_WAIT => c \in Threads /\ n \in Nat \cup {K_FOREVER}
  BY WaitersAssumption DEF Callers, Timeouts
<1> QED BY Zenon, <1>1, <1>2

\* A service enters a loop, returns at once, or ends its loop.
LEMMA LoopStep ==
  ASSUME NEW Q, NEW D, Serving(Q, D), k' = k, ctx' \in LoopsOf(Q, D),
         InterruptsEnabled \/ ctx' = InThread \/ ctx' = ctx
  PROVE  Serving(Q, D)'
BY Zenon DEF Serving, LoopOK, InterruptsEnabled

\* The caller of a service waits.
LEMMA PendStep ==
  ASSUME NEW Q, NEW D, Serving(Q, D), NEW t \in Threads, k.current = t, k.on[t] = NULL,
         ctx = InThread,
         NEW q \in Q, NEW n \in Nat \cup {K_FOREVER}, n # K_NO_WAIT,
         k' = z_pend_current_on(k, q, n), ctx' = ctx
  PROVE  Serving(Q, D)' /\ StartsWait(k, k', q, t)
<1>1. q \in Queues
  BY Zenon DEF Serving
<1>2. Settled(k, {}) /\ {} \in SUBSET Threads
  BY Zenon DEF Serving
<1>3. /\ Settled(k', {}) /\ StartsWait(k, k', q, t)
      /\ k'.on = [k.on EXCEPT ![t] = q]
  <2>1. n # K_FOREVER => k.current \notin {}
    BY Zenon
  <2>2. Settled(k', {}) /\ StartsWait(k, k', q, t) /\ WaitsOn(k, k', q)
    BY Zenon, <1>1, <1>2, <2>1, PendSettled
  <2> QED BY Zenon, <2>2 DEF WaitsOn
<1>4. k.on \in [Threads -> Queues \cup {NULL}]
  BY Zenon, <1>2 DEF Settled, KernelOK, KernelStates
<1>5. \A u \in Threads : k'.on[u] \in Q \cup {NULL}
  BY Zenon, <1>3, <1>4 DEF Serving
<1> QED BY Zenon, <1>3, <1>5 DEF Serving, LoopOK

\* A service wakes up the first thread of a wait queue.
LEMMA UnpendStep ==
  ASSUME NEW Q, NEW D, Serving(Q, D), InterruptsEnabled, NEW q \in Q, ~ DLIST_EMPTY(k.wq, q),
         k' = z_unpend_first_thread(k, q), ctx' = ctx
  PROVE  /\ Serving(Q, D)' /\ HandedTo(k, k', q, FirstPending(k, q))
         /\ FirstPending(k, q) \in Threads /\ FirstPending(k, q) # NULL
<1>1. q \in Queues /\ Settled(k, {}) /\ {} \in SUBSET Threads
  BY Zenon DEF Serving
<1>2. /\ Settled(k', {}) /\ HandedTo(k, k', q, k.wq.next[q]) /\ k.wq.next[q] \in Threads
      /\ k'.on = k.on
  BY <1>1, UnpendSettled, Zenon
<1> QED BY Zenon, <1>2, Disjoint DEF Serving, LoopOK, FirstPending, InterruptsEnabled

\* Without a first thread nobody waits, and z_unpend_first_thread does nothing.
LEMMA NoFirst ==
  ASSUME NEW Q, NEW D, Serving(Q, D), NEW q \in Q
  PROVE  /\ DLIST_EMPTY(k.wq, q) =>
              Waiting(k, q) = {} /\ z_unpend_first_thread(k, q) = k /\ FirstPending(k, q) = NULL
         /\ FirstPending(k, q) = NULL => DLIST_EMPTY(k.wq, q)
<1>1. q \in Queues /\ k \in KernelStates /\ WaitQueuesOK(k)
  BY Zenon DEF Serving, Settled, KernelOK
<1>2. DLIST_EMPTY(k.wq, q) => Waiting(k, q) = {}
  BY Zenon, <1>1, NobodyWaits
<1>3. ~ DLIST_EMPTY(k.wq, q) => k.wq.next[q] # NULL
  BY <1>1, FirstWaits, WaitingDef, Disjoint
<1> QED BY Zenon, <1>2, <1>3 DEF z_unpend_first_thread, FirstPending

\* A thread returns from its wait.
LEMMA ReturnStep ==
  ASSUME NEW Q, NEW D, Serving(Q, D), NEW t \in Threads, NEW q \in Q, PendReturn(t, q)
  PROVE  /\ Serving(Q, D)' /\ EndsWait(k, k', q, t) /\ t \in Threads /\ ctx = InThread
         /\ PendResult(k, t) = "OK" <=> t \in Handed(k, q)
         /\ swap_data' = [swap_data EXCEPT ![t] = NULL] /\ ctx' = ctx
<1>1. q \in Queues /\ Settled(k, {}) /\ {} \in SUBSET Threads
  BY Zenon DEF Serving
<1>2. /\ k.current = t /\ k.on[t] = q /\ ctx = InThread /\ ctx' = ctx
      /\ k' = Returned(k, t) /\ swap_data' = [swap_data EXCEPT ![t] = NULL]
  BY Zenon DEF PendReturn, Returning
<1>3. /\ Settled(k', {}) /\ EndsWait(k, k', q, t)
      /\ k'.on = [k.on EXCEPT ![t] = NULL] /\ k'.state = k.state
  BY Zenon, <1>1, <1>2, ReturnSettled
<1>4. k.on \in [Threads -> Queues \cup {NULL}]
  BY Zenon, <1>1 DEF Settled, KernelOK, KernelStates
<1>5. \A u \in Threads : k'.on[u] \in Q \cup {NULL}
  BY Zenon, <1>3, <1>4 DEF Serving
<1>6. k.state[t] # "PENDING"
  BY Zenon, <1>1, <1>2, Disjoint DEF Settled, CurrentOK, Ready
<1>7. PendResult(k, t) = "OK" <=> t \in Handed(k, q)
  BY Zenon, <1>2, <1>6, HandedDef DEF PendResult
<1> QED BY Zenon, <1>2, <1>3, <1>5, <1>7 DEF Serving, LoopOK

-------------------------------------------------------------------------------
(* The mutexes and the condition variables *)

\* The owner of a mutex only depends on the mutex and on the threads woken up for it.
LEMMA OwnedFrame ==
  ASSUME NEW m, Owned(m), lock'[m] = lock[m], owner'[m] = owner[m],
         \A t \in Threads : m \in has'[t] <=> m \in has[t],
         Handed(k', m) = Handed(k, m)
  PROVE  Owned(m)'
BY Zenon DEF Owned

LEMMA MutexFrame ==
  ASSUME MutexInv, UNCHANGED mutexVars,
         \A m \in Mutexes : Handed(k', m) = Handed(k, m) /\ Waiting(k', m) \subseteq Waiting(k, m)
  PROVE  MutexInv'
<1>1. \A m \in Mutexes \ reclaimed : Owned(m)'
  BY Zenon, OwnedFrame DEF MutexInv, mutexVars
<1>2. \A m \in Mutexes : Waiting(k', m) # {} => lock[m] # 0
  BY Zenon DEF MutexInv
<1> QED BY Zenon, <1>1, <1>2 DEF MutexInv, mutexVars

\* k_mutex_lock takes a free mutex, and waits for one that another thread owns.
LEMMA LockStep ==
  ASSUME Serving(Locks, Condvars), MutexInv, NEW t \in Threads, Running(t),
         NEW m \in Mutexes, NEW n \in Nat \cup {K_FOREVER}, LockBody(t, m, n),
         ctx' = ctx, relock' \in [Threads -> Mutexes \cup {NULL}]
  PROVE  Serving(Locks, Condvars)' /\ MutexInv'
<1>1. ctx \in LoopsOf(Locks, Condvars) /\ k.current = t /\ k.on[t] = NULL /\ ctx = InThread
  BY Zenon DEF Serving, Running
<1>2. m \in Queues /\ m \in Locks
  BY Zenon, ServiceQueues
<1>3. /\ lock \in [Mutexes -> {0, 1}] /\ owner \in [Mutexes -> Threads \cup {NULL}]
      /\ has \in [Threads -> SUBSET Mutexes] /\ reclaimed \subseteq Mutexes
      /\ \A p \in Mutexes : Waiting(k, p) # {} => lock[p] # 0
      /\ \A p \in Mutexes \ reclaimed : Owned(p)
  BY Zenon DEF MutexInv
<1>4. CASE /\ lock[m] = 0
           /\ lock' = [lock EXCEPT ![m] = 1]
           /\ owner' = [owner EXCEPT ![m] = t]
           /\ Acquire(t, m)
           /\ UNCHANGED <<k, reclaimed>>
  <2>1. Serving(Locks, Condvars)'
    BY Zenon, <1>1, <1>4, LoopStep
  <2>2. has' = [has EXCEPT ![t] = has[t] \cup {m}]
    BY Zenon, <1>4 DEF Acquire
  <2>3. /\ lock' \in [Mutexes -> {0, 1}] /\ owner' \in [Mutexes -> Threads \cup {NULL}]
        /\ has' \in [Threads -> SUBSET Mutexes]
        /\ \A p \in Mutexes : Waiting(k', p) # {} => lock'[p] # 0
    BY Zenon, <1>3, <1>4, <2>2
  <2>4. ASSUME NEW p \in Mutexes \ reclaimed, p # m
        PROVE  Owned(p)'
    <3>1. \A u \in Threads : p \in has'[u] <=> p \in has[u]
      BY Zenon, <1>3, <2>2, <2>4
    <3>2. lock'[p] = lock[p] /\ owner'[p] = owner[p] /\ Owned(p) /\ k' = k
      BY Zenon, <1>3, <1>4, <2>4
    <3> QED BY Zenon, <3>1, <3>2, OwnedFrame
  <2>5. ASSUME m \notin reclaimed
        PROVE  Owned(m)'
    <3>1. \A u \in Threads : m \notin has[u] /\ u \notin Handed(k, m)
      BY Zenon, <1>3, <1>4, <2>5 DEF Owned
    <3>2. \A u \in Threads : m \in has'[u] <=> u = t
      BY Zenon, <1>3, <2>2, <3>1
    <3>3. lock'[m] = 1 /\ owner'[m] = t /\ k' = k
      BY Zenon, <1>3, <1>4
    <3> QED BY <3>1, <3>2, <3>3 DEF Owned
  <2> QED BY Zenon, <1>3, <1>4, <2>1, <2>3, <2>4, <2>5 DEF MutexInv
<1>5. CASE /\ lock[m] # 0
           /\ owner[m] = t
           /\ Acquire(t, m)
           /\ reclaimed' = reclaimed \cup {m}
           /\ UNCHANGED <<k, lock, owner>>
  <2>1. Serving(Locks, Condvars)'
    BY Zenon, <1>1, <1>5, LoopStep
  <2>2. has' = [has EXCEPT ![t] = has[t] \cup {m}]
    BY Zenon, <1>5 DEF Acquire
  <2>3. has' \in [Threads -> SUBSET Mutexes] /\ reclaimed' \subseteq Mutexes
    BY Zenon, <1>3, <1>5, <2>2
  <2>4. ASSUME NEW p \in Mutexes \ reclaimed'
        PROVE  Owned(p)'
    <3>1. \A u \in Threads : p \in has'[u] <=> p \in has[u]
      BY Zenon, <1>3, <1>5, <2>2, <2>4
    <3>2. lock'[p] = lock[p] /\ owner'[p] = owner[p] /\ Owned(p) /\ k' = k
      BY Zenon, <1>3, <1>5, <2>4
    <3> QED BY Zenon, <3>1, <3>2, OwnedFrame
  <2> QED BY Zenon, <1>3, <1>5, <2>1, <2>3, <2>4 DEF MutexInv
<1>6. CASE /\ lock[m] # 0
           /\ owner[m] # t
           /\ k' = z_pend_current_on(k, m, n)
           /\ UNCHANGED <<lock, owner, has, reclaimed>>
  <2>1. CASE n = K_NO_WAIT
    <3>1. k' = k
      BY Zenon, <1>6, <2>1 DEF z_pend_current_on
    <3>2. \A p \in Mutexes \ reclaimed : Owned(p)'
      BY Zenon, <1>3, <1>6, <3>1, OwnedFrame
    <3> QED BY Zenon, <1>1, <1>3, <1>6, <3>1, <3>2, LoopStep DEF MutexInv
  <2>2. CASE n # K_NO_WAIT
    <3>1. Serving(Locks, Condvars)' /\ StartsWait(k, k', m, t)
      BY Zenon, <1>1, <1>2, <1>6, <2>2, PendStep
    <3>2. \A p \in Mutexes : /\ Handed(k', p) = Handed(k, p)
                             /\ p # m => Waiting(k', p) = Waiting(k, p)
      BY Zenon, <3>1, ServiceQueues DEF StartsWait
    <3>3. \A p \in Mutexes : Waiting(k', p) # {} => lock[p] # 0
      BY Zenon, <1>3, <1>6, <3>2
    <3>4. \A p \in Mutexes \ reclaimed : Owned(p)'
      BY Zenon, <1>3, <1>6, <3>2, OwnedFrame
    <3> QED BY Zenon, <1>3, <1>6, <3>1, <3>3, <3>4 DEF MutexInv
  <2> QED BY Zenon, <2>1, <2>2
<1> QED BY Zenon, <1>4, <1>5, <1>6 DEF LockBody

\* What k_mutex_unlock does to the kernel.
LEMMA UnlockSettled ==
  ASSUME Serving(Locks, Condvars), NEW t \in Threads, NEW m \in Mutexes
  PROVE  LET r == UnlockKernel(t, m)
             u == FirstPending(k, m)
         IN  /\ Settled(r, {}) /\ r.on = k.on /\ r.current = k.current
             /\ owner[m] # t \/ u = NULL => r = k
             /\ u = NULL => Waiting(k, m) = {}
             /\ owner[m] = t /\ u # NULL => u \in Threads /\ HandedTo(k, r, m, u)
<1>1. m \in Queues /\ m \in Locks /\ Settled(k, {}) /\ {} \in SUBSET Threads
  BY Zenon, ServiceQueues DEF Serving
<1>2. CASE owner[m] # t
  BY Zenon, <1>1, <1>2, NoFirst DEF UnlockKernel
<1>3. CASE owner[m] = t /\ DLIST_EMPTY(k.wq, m)
  BY Zenon, <1>1, <1>3, NoFirst DEF UnlockKernel
<1>4. CASE owner[m] = t /\ ~ DLIST_EMPTY(k.wq, m)
  <2>1. LET r == z_unpend_first_thread(k, m)
        IN  /\ Settled(r, {}) /\ HandedTo(k, r, m, k.wq.next[m]) /\ k.wq.next[m] \in Threads
            /\ r.on = k.on /\ r.current = k.current
    BY <1>1, <1>4, UnpendSettled, Zenon
  <2>2. FirstPending(k, m) = k.wq.next[m] /\ k.wq.next[m] # NULL
    BY Zenon, <1>4, <2>1, Disjoint DEF FirstPending
  <2> QED BY Zenon, <1>4, <2>1, <2>2 DEF UnlockKernel
<1> QED BY Zenon, <1>2, <1>3, <1>4

\* k_mutex_unlock hands the mutex to the first thread that waits, or frees it.
LEMMA UnlockStep ==
  ASSUME Serving(Locks, Condvars), MutexInv, NEW t \in Threads, NEW m \in has[t],
         UnlockBody(t, m), Release(t, m), relock' = relock, reclaimed' = reclaimed,
         \A p \in Mutexes : LET r == UnlockKernel(t, m)
                            IN  Handed(k', p) = Handed(r, p) /\ Waiting(k', p) = Waiting(r, p)
  PROVE  MutexInv' /\ m \in Mutexes
<1> DEFINE r == UnlockKernel(t, m)
           u == FirstPending(k, m)
<1>1. /\ lock \in [Mutexes -> {0, 1}] /\ owner \in [Mutexes -> Threads \cup {NULL}]
      /\ relock \in [Threads -> Mutexes \cup {NULL}]
      /\ has \in [Threads -> SUBSET Mutexes] /\ reclaimed \subseteq Mutexes
      /\ \A p \in Mutexes : Waiting(k, p) # {} => lock[p] # 0
      /\ \A p \in Mutexes \ reclaimed : Owned(p)
  BY Zenon DEF MutexInv
<1>2. m \in Mutexes
  BY Zenon, <1>1
<1>3. has' = [has EXCEPT ![t] = has[t] \ {m}]
  BY Zenon DEF Release
<1>4. /\ has' \in [Threads -> SUBSET Mutexes]
      /\ \A p \in Mutexes : \A v \in Threads : p # m \/ v # t => (p \in has'[v] <=> p \in has[v])
      /\ m \notin has'[t]
  BY Zenon, <1>1, <1>3
<1>5. /\ owner[m] # t \/ u = NULL => r = k
      /\ u = NULL => Waiting(k, m) = {}
      /\ owner[m] = t /\ u # NULL => u \in Threads /\ HandedTo(k, r, m, u)
  BY Zenon, <1>2, UnlockSettled
<1>6. \A p \in Mutexes : Handed(k', p) = Handed(r, p) /\ Waiting(k', p) = Waiting(r, p)
  BY Zenon
<1>7. /\ lock' \in [Mutexes -> {0, 1}] /\ owner' \in [Mutexes -> Threads \cup {NULL}]
      /\ \A p \in Mutexes \ {m} : lock'[p] = lock[p] /\ owner'[p] = owner[p]
      /\ owner[m] # t \/ u # NULL => lock' = lock /\ owner' = owner
      /\ owner[m] = t /\ u = NULL => lock'[m] = 0
  BY Zenon, <1>1, <1>2 DEF UnlockBody
<1> HIDE DEF r, u
<1>8. \A p \in Mutexes \ {m} : Handed(k', p) = Handed(k, p) /\ Waiting(k', p) = Waiting(k, p)
  BY Zenon, <1>2, <1>5, <1>6, ServiceQueues DEF HandedTo
<1>9. ASSUME NEW p \in Mutexes \ reclaimed, p # m
      PROVE  Owned(p)'
  <2>1. \A v \in Threads : p \in has'[v] <=> p \in has[v]
    BY Zenon, <1>4, <1>9
  <2>2. /\ Handed(k', p) = Handed(k, p) /\ lock'[p] = lock[p] /\ owner'[p] = owner[p]
        /\ Owned(p)
    BY Zenon, <1>1, <1>7, <1>8, <1>9
  <2> QED BY Zenon, <2>1, <2>2, OwnedFrame
<1>10. ASSUME m \notin reclaimed
       PROVE  Owned(m)'
  <2>1. Owned(m) /\ owner[m] = t /\ t \notin Handed(k, m)
    BY Zenon, <1>1, <1>2, <1>10 DEF Owned
  <2>2. \A v \in Threads : m \in has[v] => v = t
    BY Zenon, <2>1 DEF Owned
  <2>3. \A v \in Threads : m \notin has'[v]
    BY Zenon, <1>2, <1>4, <2>2
  <2>4. lock[m] # 0 /\ \A v \in Threads : v \notin Handed(k, m)
    BY Zenon, <2>1 DEF Owned
  <2>5. CASE u = NULL
    <3>1. lock'[m] = 0 /\ Handed(k', m) = Handed(k, m)
      BY Zenon, <1>2, <1>5, <1>6, <1>7, <2>1, <2>5
    <3> QED BY Zenon, <2>3, <2>4, <3>1 DEF Owned
  <2>6. CASE u # NULL
    <3>1. /\ lock'[m] = lock[m] /\ u \in Threads
          /\ Handed(k', m) = Handed(k, m) \cup {u}
      BY Zenon, <1>2, <1>5, <1>6, <1>7, <2>1, <2>6 DEF HandedTo
    <3> QED BY Zenon, <2>3, <2>4, <3>1 DEF Owned
  <2> QED BY Zenon, <2>5, <2>6
<1>11. \A p \in Mutexes : Waiting(k', p) # {} => lock'[p] # 0
  <2>1. \A p \in Mutexes \ {m} : Waiting(k', p) # {} => lock'[p] # 0
    BY Zenon, <1>1, <1>7, <1>8
  <2>2. Waiting(k', m) # {} => lock'[m] # 0
    <3>1. CASE owner[m] # t
      BY <1>1, <1>2, <1>5, <1>6, <1>7, <3>1
    <3>2. CASE owner[m] = t /\ u = NULL
      BY Zenon, <1>2, <1>5, <1>6, <3>2
    <3>3. CASE owner[m] = t /\ u # NULL
      BY Zenon, <1>1, <1>2, <1>5, <1>6, <1>7, <3>3 DEF HandedTo
    <3> QED BY Zenon, <3>1, <3>2, <3>3
  <2> QED BY Zenon, <2>1, <2>2
<1> QED BY <1>1, <1>2, <1>4, <1>7, <1>9, <1>10, <1>11 DEF MutexInv

\* The end of a k_mutex_lock that waited: the thread has the mutex if it was handed to it.
LEMMA LockReturnStep ==
  ASSUME Serving(Locks, Condvars), MutexInv, NEW t \in Threads,
         k_mutex_lock_return(t)
  PROVE  Serving(Locks, Condvars)' /\ MutexInv' /\ swap_data' = [swap_data EXCEPT ![t] = NULL]
<1>1. /\ lock \in [Mutexes -> {0, 1}] /\ owner \in [Mutexes -> Threads \cup {NULL}]
      /\ relock \in [Threads -> Mutexes \cup {NULL}]
      /\ has \in [Threads -> SUBSET Mutexes] /\ reclaimed \subseteq Mutexes
      /\ \A p \in Mutexes : Waiting(k, p) # {} => lock[p] # 0
      /\ \A p \in Mutexes \ reclaimed : Owned(p)
  BY Zenon DEF MutexInv
<1>2. PICK m \in Mutexes :
      /\ PendReturn(t, m) /\ lock' = lock /\ relock' = relock /\ reclaimed' = reclaimed
      /\ PendResult(k, t) = "OK" => owner' = [owner EXCEPT ![m] = t] /\ Acquire(t, m)
      /\ PendResult(k, t) # "OK" => owner' = owner /\ has' = has
  BY Zenon DEF k_mutex_lock_return
<1>3. m \in Locks /\ m \in Queues
  BY Zenon, <1>2, ServiceQueues
<1>4. /\ Serving(Locks, Condvars)' /\ EndsWait(k, k', m, t)
      /\ PendResult(k, t) = "OK" <=> t \in Handed(k, m)
      /\ swap_data' = [swap_data EXCEPT ![t] = NULL]
  BY Zenon, <1>2, <1>3, ReturnStep
<1>5. /\ \A p \in Mutexes : Waiting(k', p) = Waiting(k, p)
      /\ \A p \in Mutexes \ {m} : Handed(k', p) = Handed(k, p)
      /\ Handed(k', m) = Handed(k, m) \ {t}
  BY Zenon, <1>4, ServiceQueues DEF EndsWait
<1>6. CASE t \notin Handed(k, m)
  <2>1. Handed(k', m) = Handed(k, m) /\ UNCHANGED mutexVars
    BY Zenon, <1>2, <1>4, <1>5, <1>6 DEF mutexVars
  <2> QED BY Zenon, <1>4, <1>5, <2>1, MutexFrame
<1>7. CASE t \in Handed(k, m)
  <2>1. owner' = [owner EXCEPT ![m] = t] /\ has' = [has EXCEPT ![t] = has[t] \cup {m}]
    BY Zenon, <1>2, <1>4, <1>7 DEF Acquire
  <2>2. /\ has' \in [Threads -> SUBSET Mutexes] /\ owner' \in [Mutexes -> Threads \cup {NULL}]
        /\ \A p \in Mutexes : \A v \in Threads : p # m \/ v # t => (p \in has'[v] <=> p \in has[v])
        /\ m \in has'[t]
        /\ owner'[m] = t /\ \A p \in Mutexes \ {m} : owner'[p] = owner[p]
    BY Zenon, <1>1, <1>2, <2>1
  <2>3. ASSUME NEW p \in Mutexes \ reclaimed, p # m
        PROVE  Owned(p)'
    <3>1. \A v \in Threads : p \in has'[v] <=> p \in has[v]
      BY Zenon, <2>2, <2>3
    <3>2. /\ Handed(k', p) = Handed(k, p) /\ lock'[p] = lock[p] /\ owner'[p] = owner[p]
          /\ Owned(p)
      BY Zenon, <1>1, <1>2, <1>5, <2>2, <2>3
    <3> QED BY Zenon, <3>1, <3>2, OwnedFrame
  <2>4. ASSUME m \notin reclaimed
        PROVE  Owned(m)'
    <3>1. Owned(m) /\ lock'[m] = lock[m]
      BY Zenon, <1>1, <1>2, <2>4
    <3>2. \A v \in Threads : (m \in has[v] \/ v \in Handed(k, m)) <=> v = t
      BY Zenon, <1>7, <3>1 DEF Owned
    <3>3. lock[m] # 0 /\ m \notin has[t]
      BY Zenon, <1>7, <3>1 DEF Owned
    <3>4. \A v \in Threads : (m \in has'[v] <=> v = t) /\ v \notin Handed(k', m)
      BY Zenon, <1>2, <1>5, <2>2, <3>2, <3>3
    <3> QED BY Zenon, <2>2, <3>1, <3>3, <3>4 DEF Owned
  <2> QED BY <1>1, <1>2, <1>4, <1>5, <2>2, <2>3, <2>4 DEF MutexInv
<1> QED BY Zenon, <1>6, <1>7

LEMMA TimeoutsType ==
  ASSUME NEW t \in Threads, NEW n \in Timeouts(t)
  PROVE  n \in Nat \cup {K_FOREVER} /\ K_FOREVER # K_NO_WAIT
BY WaitersAssumption, KernelAssumption DEF Timeouts, K_NO_WAIT

\* k_condvar_wait gives the mutex up and waits, in one step.
LEMMA CondvarWaitStep ==
  ASSUME Serving(Locks, Condvars), MutexInv, NEW t \in Threads,
         NEW cv \in Condvars, NEW n \in Timeouts(t), k_condvar_wait(t, cv, n)
  PROVE  Serving(Locks, Condvars)' /\ MutexInv'
<1>1. PICK m \in Mutexes : m = CondMutex[cv]
  BY Zenon, MutexAssumption
<1> DEFINE r == UnlockKernel(t, m)
<1>2. /\ k.current = t /\ k.on[t] = NULL /\ ctx = InThread /\ ctx' = ctx
      /\ m \in has[t] /\ UnlockBody(t, m) /\ Release(t, m) /\ relock' = relock
      /\ reclaimed' = reclaimed /\ k' = z_pend_current_on(r, cv, n)
  BY Zenon, <1>1 DEF k_condvar_wait, Free, Running
<1>3. Settled(r, {}) /\ r.on = k.on /\ r.current = k.current
  BY Zenon, UnlockSettled
<1> HIDE DEF r
<1>4. n \in Nat \cup {K_FOREVER} /\ cv \in Queues /\ cv \in Locks
  BY Zenon, TimeoutsType, ServiceQueues
<1>5. k.on \in [Threads -> Queues \cup {NULL}]
  BY Zenon DEF Serving, Settled, KernelOK, KernelStates
<1>6. CASE n = K_NO_WAIT
  <2>1. k' = r
    BY Zenon, <1>2, <1>6 DEF z_pend_current_on
  <2>2. Serving(Locks, Condvars)'
    BY Zenon, <1>2, <1>3, <2>1 DEF Serving, LoopOK
  <2>3. MutexInv'
    BY Zenon, <1>2, <2>1, UnlockStep DEF r
  <2> QED BY Zenon, <2>2, <2>3
<1>7. CASE n # K_NO_WAIT
  <2>1. {} \in SUBSET Threads /\ (n # K_FOREVER => r.current \notin {})
    BY Zenon
  <2>2. Settled(k', {}) /\ StartsWait(r, k', cv, t) /\ WaitsOn(r, k', cv)
    BY Zenon, <1>2, <1>3, <1>4, <1>7, <2>1, PendSettled
  <2>3. k'.on = [k.on EXCEPT ![t] = cv]
    BY Zenon, <1>2, <1>3, <2>2 DEF WaitsOn
  <2>4. Serving(Locks, Condvars)'
    BY Zenon, <1>2, <1>4, <1>5, <2>2, <2>3 DEF Serving, LoopOK
  <2>5. \A p \in Mutexes : Handed(k', p) = Handed(r, p) /\ Waiting(k', p) = Waiting(r, p)
    BY Zenon, <2>2, ServiceQueues DEF StartsWait
  <2>6. MutexInv'
    BY Zenon, <1>2, <2>5, UnlockStep DEF r
  <2> QED BY <2>4, <2>6
<1> QED BY Zenon, <1>6, <1>7

\* Every service of the mutexes and the condition variables preserves the invariant.
LEMMA MutexStep ==
  ASSUME Served(Locks, Condvars), MutexInv, MutexNext
  PROVE  Served(Locks, Condvars)' /\ MutexInv'
<1>1. Serving(Locks, Condvars) /\ swap_data \in [Threads -> Nodes \cup Messages \cup {NULL}]
  BY Zenon DEF Served
<1>2. Locks = Mutexes \cup Condvars /\ Locks \subseteq Queues
  BY Zenon, ServiceQueues
<1>3. SUFFICES /\ Serving(Locks, Condvars)' /\ MutexInv'
               /\ \/ swap_data' = swap_data
                  \/ \E t \in Threads : swap_data' = [swap_data EXCEPT ![t] = NULL]
  <2>1. swap_data' \in [Threads -> Nodes \cup Messages \cup {NULL}]
    BY Zenon, <1>1, <1>3
  <2> QED BY Zenon, <1>1, <1>3, <2>1 DEF Served
<1>4. ASSUME k' = k, UNCHANGED mutexVars, swap_data' = swap_data,
             ctx' \in LoopsOf(Locks, Condvars),
             InterruptsEnabled \/ ctx' = InThread
      PROVE  Serving(Locks, Condvars)' /\ MutexInv' /\ swap_data' = swap_data
  BY Zenon, <1>1, <1>4, LoopStep, MutexFrame
<1>5. /\ InThread \in LoopsOf(Locks, Condvars)
      /\ \A q \in Locks : [in |-> "cancel", q |-> q] \in LoopsOf(Locks, Condvars)
      /\ \A q \in Condvars : [in |-> "drain", q |-> q] \in LoopsOf(Locks, Condvars)
  BY <1>2, Zenon DEF LoopsOf
<1>6. ASSUME NEW t \in Threads, NEW m \in Mutexes, NEW n \in Timeouts(t),
             k_mutex_lock(t, m, n)
      PROVE  Serving(Locks, Condvars)' /\ MutexInv' /\ swap_data' = swap_data
  BY <1>1, <1>6, TimeoutsType, LockStep, Zenon DEF k_mutex_lock, Free, MutexInv
<1>7. ASSUME NEW t \in Threads, NEW m \in Mutexes, k_mutex_unlock(t, m)
      PROVE  Serving(Locks, Condvars)' /\ MutexInv' /\ swap_data' = swap_data
  <2>1. /\ m \in has[t] /\ UnlockBody(t, m) /\ Release(t, m) /\ k' = UnlockKernel(t, m)
        /\ relock' = relock /\ reclaimed' = reclaimed /\ ctx' = ctx /\ swap_data' = swap_data
        /\ ctx = InThread
    BY Zenon, <1>7 DEF k_mutex_unlock, Free, Running
  <2>2. Settled(k', {}) /\ k'.on = k.on
    BY <1>1, <2>1, UnlockSettled, Zenon
  <2>3. Serving(Locks, Condvars)'
    BY <1>1, <2>1, <2>2, Zenon DEF Serving, LoopOK
  <2>4. MutexInv'
    BY Zenon, <1>1, <2>1, UnlockStep
  <2> QED BY Zenon, <2>1, <2>3, <2>4
<1>8. ASSUME NEW t \in Threads, NEW m \in Mutexes, k_mutex_cancel_wait(t, m)
      PROVE  Serving(Locks, Condvars)' /\ MutexInv' /\ swap_data' = swap_data
  <2>1. t \in Callers /\ Calls(t)
    BY Zenon, <1>8 DEF k_mutex_cancel_wait, z_cancel_all_pending, Callers
  <2> QED BY <1>2, <1>4, <1>5, <1>8, <2>1, CallsEnabled, Zenon
          DEF k_mutex_cancel_wait, z_cancel_all_pending
<1>9. ASSUME NEW t \in Threads, NEW cv \in Condvars, NEW n \in Timeouts(t),
             k_condvar_wait(t, cv, n)
      PROVE  Serving(Locks, Condvars)' /\ MutexInv' /\ swap_data' = swap_data
  <2>1. swap_data' = swap_data
    BY Zenon, <1>9 DEF k_condvar_wait
  <2> QED BY Zenon, <1>1, <1>9, <2>1, CondvarWaitStep
<1>10. ASSUME NEW t \in Threads, k_condvar_wait_return(t)
       PROVE  Serving(Locks, Condvars)' /\ MutexInv' /\ swap_data' = [swap_data EXCEPT ![t] = NULL]
  <2>1. PICK cv \in Condvars :
        /\ PendReturn(t, cv)
        /\ relock' = IF PendResult(k, t) = "OK"
                       THEN [relock EXCEPT ![t] = CondMutex[cv]] ELSE relock
        /\ UNCHANGED <<lock, owner, has, reclaimed>>
    BY Zenon, <1>10 DEF k_condvar_wait_return
  <2>2. /\ Serving(Locks, Condvars)' /\ EndsWait(k, k', cv, t)
        /\ swap_data' = [swap_data EXCEPT ![t] = NULL]
    <3>1. cv \in Locks
      BY Zenon, <1>2
    <3> QED BY <1>1, <2>1, <3>1, ReturnStep, Zenon
  <2>3. \A p \in Mutexes : Handed(k', p) = Handed(k, p) /\ Waiting(k', p) = Waiting(k, p)
    BY Zenon, <2>2, ServiceQueues DEF EndsWait
  <2>4. relock' \in [Threads -> Mutexes \cup {NULL}]
    BY Zenon, <2>1, MutexAssumption DEF MutexInv
  <2>5. \A p \in Mutexes \ reclaimed : Owned(p)'
    BY Zenon, <2>1, <2>3, OwnedFrame DEF MutexInv
  <2> QED BY Zenon, <2>1, <2>2, <2>3, <2>4, <2>5 DEF MutexInv
<1>11. ASSUME NEW t \in Threads, k_condvar_wait_relock(t)
       PROVE  Serving(Locks, Condvars)' /\ MutexInv' /\ swap_data' = swap_data
  <2>1. /\ relock[t] \in Mutexes /\ LockBody(t, relock[t], K_FOREVER) /\ Running(t)
        /\ relock' \in [Threads -> Mutexes \cup {NULL}]
        /\ ctx' = ctx /\ swap_data' = swap_data
    BY Zenon, <1>11 DEF k_condvar_wait_relock, MutexInv
  <2>2. PICK m \in Mutexes : m = relock[t]
    BY Zenon, <2>1
  <2>3. LockBody(t, m, K_FOREVER) /\ K_FOREVER \in Nat \cup {K_FOREVER}
    BY Zenon, <2>1, <2>2
  <2>4. Serving(Locks, Condvars)' /\ MutexInv'
    BY <1>1, <2>1, <2>3, LockStep, Zenon
  <2> QED BY Zenon, <2>1, <2>4
<1>12. ASSUME NEW cv \in Condvars, k_condvar_broadcast(cv)
       PROVE  Serving(Locks, Condvars)' /\ MutexInv' /\ swap_data' = swap_data
  BY Zenon, <1>4, <1>5, <1>12 DEF k_condvar_broadcast
<1>13. ASSUME k_condvar_broadcast_end
       PROVE  Serving(Locks, Condvars)' /\ MutexInv' /\ swap_data' = swap_data
  BY Zenon, <1>4, <1>5, <1>13 DEF k_condvar_broadcast_end
<1>14. ASSUME NEW m \in Mutexes, CancelEnd(m), UNCHANGED mutexVars
       PROVE  Serving(Locks, Condvars)' /\ MutexInv' /\ swap_data' = swap_data
  BY Zenon, <1>4, <1>5, <1>14 DEF CancelEnd
<1> QED
  BY <1>6, <1>7, <1>8, <1>9, <1>10, <1>11, <1>12, <1>13, <1>14, LockReturnStep, <1>1
  DEF MutexNext

-------------------------------------------------------------------------------
(* The signal *)

LEMMA SignalFrame ==
  ASSUME SignalInv, signaled' = signaled, Waiting(k', SIGNAL) \subseteq Waiting(k, SIGNAL),
         ctx = [in |-> "drain", q |-> SIGNAL] => ctx' = ctx \/ Waiting(k', SIGNAL) = {}
  PROVE  SignalInv'
<1>1. /\ signaled \in BOOLEAN
      /\ ctx # [in |-> "drain", q |-> SIGNAL] => (Waiting(k, SIGNAL) # {} => signaled = FALSE)
  BY Zenon DEF SignalInv
<1>2. ctx' # [in |-> "drain", q |-> SIGNAL] => (Waiting(k', SIGNAL) # {} => signaled = FALSE)
  BY Zenon, <1>1
<1> QED BY Zenon, <1>1, <1>2 DEF SignalInv

\* Every service of the signal preserves the invariant.
LEMMA SignalStep ==
  ASSUME Served({SIGNAL}, {SIGNAL}), SignalInv, NEW U \in SUBSET Callers, SignalNext(U)
  PROVE  Served({SIGNAL}, {SIGNAL})' /\ SignalInv'
<1>1. /\ Serving({SIGNAL}, {SIGNAL})
      /\ swap_data \in [Threads -> Nodes \cup Messages \cup {NULL}]
  BY Zenon DEF Served
<1>2. SIGNAL \in {SIGNAL} /\ SIGNAL \in Queues
  BY Zenon, ServiceQueues
<1>3. SUFFICES /\ Serving({SIGNAL}, {SIGNAL})' /\ SignalInv'
               /\ \/ swap_data' = swap_data
                  \/ \E t \in Threads : swap_data' = [swap_data EXCEPT ![t] = NULL]
  <2>1. swap_data' \in [Threads -> Nodes \cup Messages \cup {NULL}]
    BY Zenon, <1>1, <1>3
  <2> QED BY Zenon, <1>1, <1>3, <2>1 DEF Served
<1>4. /\ InThread \in LoopsOf({SIGNAL}, {SIGNAL})
      /\ [in |-> "cancel", q |-> SIGNAL] \in LoopsOf({SIGNAL}, {SIGNAL})
      /\ [in |-> "drain", q |-> SIGNAL] \in LoopsOf({SIGNAL}, {SIGNAL})
  BY Zenon, <1>2 DEF LoopsOf
<1>5. /\ InThread # [in |-> "drain", q |-> SIGNAL]
      /\ [in |-> "cancel", q |-> SIGNAL] # [in |-> "drain", q |-> SIGNAL]
  BY Zenon DEF InThread
<1>6. signaled \in BOOLEAN
  BY Zenon DEF SignalInv
<1>7. ASSUME NEW c \in U, NEW n \in Timeouts(c), k_poll_signal(c, n)
      PROVE  /\ Serving({SIGNAL}, {SIGNAL})' /\ SignalInv'
              /\ swap_data' = swap_data
  <2>1. /\ Calls(c) /\ c \in Callers /\ ctx' = ctx /\ swap_data' = swap_data
        /\ signaled' = signaled
        /\ k' = IF signaled THEN k ELSE z_pend_current_on(k, SIGNAL, n)
    BY Zenon, <1>2, <1>7 DEF k_poll_signal
  <2>2. ctx = InThread /\ InterruptsEnabled
    BY Zenon, <2>1, CallsEnabled
  <2>3. CASE k' = k
    BY <1>1, <1>4, <2>1, <2>2, <2>3, LoopStep, SignalFrame
  <2>4. CASE signaled = FALSE /\ n # K_NO_WAIT
    <3>1. c \in Threads /\ n \in Nat \cup {K_FOREVER} /\ k.current = c /\ k.on[c] = NULL
      BY Zenon, <2>1, <2>4, CallsEnabled
    <3>2. k' = z_pend_current_on(k, SIGNAL, n)
      BY Zenon, <2>1, <2>4
    <3>3. Serving({SIGNAL}, {SIGNAL})'
      BY <1>1, <1>2, <2>1, <2>2, <2>4, <3>1, <3>2, PendStep
    <3> QED BY Zenon, <2>1, <2>4, <3>3 DEF SignalInv
  <2>5. CASE signaled = FALSE /\ n = K_NO_WAIT
    <3>1. k' = k
      BY Zenon, <2>1, <2>5 DEF z_pend_current_on
    <3> QED BY Zenon, <2>3, <3>1
  <2>6. CASE signaled = TRUE
    <3>1. k' = k
      BY Zenon, <2>1, <2>6
    <3> QED BY <2>3, <3>1
  <2> QED BY <1>6, <2>4, <2>5, <2>6, Zenon
<1>8. ASSUME NEW c \in U, k_signal_raise(c)
      PROVE  /\ Serving({SIGNAL}, {SIGNAL})' /\ SignalInv'
              /\ swap_data' = swap_data
  <2>1. /\ Calls(c) /\ c \in Callers /\ k' = k /\ swap_data' = swap_data
        /\ ctx' = [in |-> "drain", q |-> SIGNAL] /\ signaled' = TRUE
    BY Zenon, <1>2, <1>8 DEF k_signal_raise
  <2>2. Serving({SIGNAL}, {SIGNAL})'
    BY Zenon, <1>1, <1>4, <2>1, CallsEnabled, LoopStep
  <2> QED BY Zenon, <2>1, <2>2 DEF SignalInv
<1>9. ASSUME NEW c \in U, k_poll_cancel_wait(c)
      PROVE  /\ Serving({SIGNAL}, {SIGNAL})' /\ SignalInv'
              /\ swap_data' = swap_data
  <2>1. /\ Calls(c) /\ c \in Callers /\ k' = k /\ swap_data' = swap_data
        /\ ctx' = [in |-> "cancel", q |-> SIGNAL] /\ signaled' = signaled
    BY Zenon, <1>2, <1>9 DEF k_poll_cancel_wait, z_cancel_all_pending
  <2>2. Serving({SIGNAL}, {SIGNAL})' /\ ctx = InThread
    BY Zenon, <1>1, <1>4, <2>1, CallsEnabled, LoopStep
  <2> QED BY Zenon, <1>5, <2>1, <2>2, SignalFrame
<1>10. ASSUME NEW c \in U, K_SIGNAL_SET_UNREADY(c)
       PROVE  /\ Serving({SIGNAL}, {SIGNAL})' /\ SignalInv'
              /\ swap_data' = swap_data
  <2>1. /\ Calls(c) /\ c \in Callers /\ k' = k /\ swap_data' = swap_data
        /\ ctx' = ctx /\ signaled' = FALSE
    BY Zenon, <1>2, <1>10 DEF K_SIGNAL_SET_UNREADY
  <2>2. Serving({SIGNAL}, {SIGNAL})'
    BY Zenon, <1>1, <1>4, <2>1, CallsEnabled, LoopStep
  <2> QED BY <2>1, <2>2, Zenon DEF SignalInv
<1>11. ASSUME NEW t \in Threads, k_poll_signal_return(t)
       PROVE  /\ Serving({SIGNAL}, {SIGNAL})' /\ SignalInv'
              /\ swap_data' = [swap_data EXCEPT ![t] = NULL]
  <2>1. /\ Serving({SIGNAL}, {SIGNAL})' /\ EndsWait(k, k', SIGNAL, t)
        /\ signaled' = signaled /\ ctx' = ctx
        /\ swap_data' = [swap_data EXCEPT ![t] = NULL]
    BY Zenon, <1>1, <1>2, <1>11, ReturnStep DEF k_poll_signal_return
  <2>2. Waiting(k', SIGNAL) \subseteq Waiting(k, SIGNAL)
    BY Zenon, <1>2, <2>1 DEF EndsWait
  <2> QED BY Zenon, <2>1, <2>2, SignalFrame
<1>12. ASSUME ctx' = InThread, DLIST_EMPTY(k.wq, SIGNAL), UNCHANGED <<k, swap_data, signaled>>
       PROVE  /\ Serving({SIGNAL}, {SIGNAL})' /\ SignalInv'
              /\ swap_data' = swap_data
  <2>1. Waiting(k, SIGNAL) = {}
    BY Zenon, <1>1, <1>2, <1>12, NoFirst
  <2>2. Serving({SIGNAL}, {SIGNAL})'
    BY Zenon, <1>1, <1>4, <1>12, LoopStep
  <2> QED BY Zenon, <1>12, <2>1, <2>2, SignalFrame
<1>13. CASE k_signal_raise_end
  BY Zenon, <1>12, <1>13 DEF k_signal_raise_end
<1>14. CASE CancelEnd(SIGNAL) /\ UNCHANGED signaled
  BY Zenon, <1>12, <1>14 DEF CancelEnd
<1> QED
  BY <1>7, <1>8, <1>9, <1>10, <1>11, <1>13, <1>14 DEF SignalNext

==============================================================================
