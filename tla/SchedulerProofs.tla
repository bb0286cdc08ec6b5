--------------------------- MODULE SchedulerProofs ---------------------------
(***************************************************************************)
(* The threads of the Scheduler module keep the invariants of the kernel,  *)
(* and nobody joins a thread in vain, for any number of threads, any       *)
(* timeouts and any program that obeys Discipline.                         *)
(***************************************************************************)
EXTENDS Scheduler, KernelProofs

Joiners == {t \in Threads : \E u \in Threads : <<t, u>> \in JoinPairs}

(***************************************************************************)
(* What the kernel asks of the program.  k_thread_start and k_thread_abort *)
(* test the state of the target with the interrupts enabled, so each       *)
(* thread has one thread at most that starts it and one at most that       *)
(* stops it.  k_thread_abort does not remove its target from a wait queue, *)
(* so a thread that joins is stopped by itself only.  A thread that joins  *)
(* does not sleep (see LinksOK in Kernel).                                 *)
(***************************************************************************)
Discipline ==
  /\ Sleepers \cap Joiners = {}
  /\ \A t, v, u \in Threads : <<t, u>> \in StartPairs /\ <<v, u>> \in StartPairs => t = v
  /\ \A t, v, u \in Threads : <<t, u>> \in AbortPairs /\ <<v, u>> \in AbortPairs => t = v
  /\ \A t, u \in Threads : <<t, u>> \in AbortPairs /\ u \in Joiners => t = u

Calls == [call : {"none", "start", "abort"}, target : Threads \cup {NULL}]

Draining(u) == ctx = [in |-> "drain", q |-> JoinQueue[u]]

\* The CPU is in no loop but those of z_sched_enter and k_thread_abort.  In the
\* latter the current thread is the caller, and it may have stopped itself.
LoopInv ==
  \/ ctx \in {InThread, [in |-> "sched_enter", q |-> NULL]} /\ CurrentOK(k)
  \/ \E u \in Threads :
       /\ Draining(u)
       /\ k.state[u] = "STOPPED"
       /\ k.current \in Threads
       /\ pc[k.current] = [call |-> "abort", target |-> u]
       /\ u # k.current => CurrentOK(k)

\* The test of a call still holds when the call takes its effect.
TestInv ==
  \A t \in Threads :
    /\ pc[t].call = "start" => /\ <<t, pc[t].target>> \in StartPairs
                               /\ k.state[pc[t].target] = "STOPPED"
    /\ pc[t].call = "abort" =>
         /\ <<t, pc[t].target>> \in AbortPairs
         /\ k.state[pc[t].target] = "STOPPED" => Draining(pc[t].target) /\ k.current = t

\* Only joining threads wait, a stopped thread does not, and the threads that
\* wait for a stopped thread are being woken up.
JoinInv ==
  /\ \A t \in Threads : k.state[t] = "STOPPED" \/ t \notin Joiners => k.on[t] = NULL
  /\ \A u \in Threads :
       k.state[u] = "STOPPED" /\ Waiting(k, JoinQueue[u]) # {} => Draining(u)

\* The inductive invariant.
LifeInv == /\ KernelOK(k, Sleepers)
           /\ pc \in [Threads -> Calls]
           /\ LoopInv
           /\ TestInv
           /\ JoinInv

-------------------------------------------------------------------------------
(* Kernel states *)

\* A thread that becomes READY while another one runs does not run.
LEMMA StillCurrent ==
  ASSUME NEW s, NEW r, NEW t, CurrentOK(s), Ready(r) = Ready(s) \cup {t},
         r.run_queue = IF Ready(s) = {} THEN t ELSE s.run_queue,
         r.current = s.current
  PROVE  CurrentOK(r)
BY Zenon DEF CurrentOK

\* From s to r the state of one thread changes, and neither from nor to STOPPED.
SameLife(s, r) == \A t \in Threads : r.state[t] = "STOPPED" <=> s.state[t] = "STOPPED"

\* z_schedule of a stopped thread, which waits for nothing.
LEMMA StartThread ==
  ASSUME NEW S \in SUBSET Threads, NEW s, KernelOK(s, S),
         NEW t \in Threads, s.state[t] = "STOPPED"
  PROVE  LET r == z_schedule(s, t)
         IN  /\ KernelOK(r, S)
             /\ Ready(r) = Ready(s) \cup {t}
             /\ r.state = [s.state EXCEPT ![t] = "READY"]
             /\ r.run_queue = IF Ready(s) = {} THEN t ELSE s.run_queue
             /\ r.current = s.current /\ r.on = s.on
<1> DEFINE r == z_schedule(s, t)
<1>1. s \in KernelStates /\ IdleOK(s) /\ RunQueueOK(s) /\ WaitQueuesOK(s)
      /\ TimeoutsOK(s) /\ LinksOK(s, S)
  BY Zenon DEF KernelOK
<1>2. t \notin Ready(s)
  BY Zenon DEF Ready
<1>3. /\ r \in KernelStates /\ IdleOK(r) /\ RunQueueOK(r)
      /\ Ready(r) = Ready(s) \cup {t}
      /\ r.state = [s.state EXCEPT ![t] = "READY"]
      /\ r.run_queue = IF Ready(s) = {} THEN t ELSE s.run_queue
      /\ r.wakeup = s.wakeup /\ r.timeouts = s.timeouts
      /\ r.current = s.current /\ r.wq = s.wq /\ r.on = s.on
  BY Zenon, <1>1, <1>2, ScheduleThread
<1> HIDE DEF r
<1>4. \A u \in Threads : r.state[u] = "PENDING" <=> s.state[u] = "PENDING"
  BY Zenon, <1>1, <1>3 DEF KernelStates, ThreadStates
<1>5. WaitQueuesOK(r)
  <2>1. ASSUME NEW q \in Queues PROVE Waiting(r, q) = Waiting(s, q)
    BY Zenon, <1>3, <1>4 DEF Waiting
  <2> QED BY Zenon, <1>1, <1>3, <2>1 DEF WaitQueuesOK
<1>6. TimeoutsOK(r)
  <2>1. s.wakeup \in SUBSET Threads
    BY Zenon, <1>1 DEF KernelStates
  <2> QED BY Zenon, <1>1, <1>3, <1>4, <2>1 DEF TimeoutsOK
<1>7. LinksOK(r, S)
  BY <1>1, <1>3, <1>4 DEF LinksOK
<1> QED BY Zenon, <1>3, <1>5, <1>6, <1>7 DEF KernelOK, r

\* z_suspend of a thread that is READY or sleeps, followed by the change of its
\* state to STOPPED, as in k_thread_abort.
Stopped(s, t) == [z_suspend(s, t) EXCEPT !.state = [@ EXCEPT ![t] = "STOPPED"]]

\* What z_suspend leaves: neither the run queue nor the timeouts hold the thread.
Suspended(s, r, t) ==
  /\ r \in KernelStates
  /\ r.state = s.state /\ r.wq = s.wq /\ r.on = s.on /\ r.current = s.current
  /\ Ring(r.rq, Ready(s) \ {t})
  /\ r.ready_count = Cardinality(Ready(s) \ {t})
  /\ IF Ready(s) \ {t} = {} THEN r.run_queue = Idle ELSE r.run_queue \in Ready(s) \ {t}
  /\ t # s.current => r.run_queue = s.run_queue
  /\ Items(r.timeouts) = r.wakeup /\ NoRepeat(r.timeouts)
  /\ r.wakeup = s.wakeup \ {t}

LEMMA SuspendReady ==
  ASSUME NEW S \in SUBSET Threads, NEW s, KernelOK(s, S), CurrentOK(s),
         s.current \in Threads, NEW t \in Ready(s)
  PROVE  Suspended(s, z_suspend(s, t), t)
<1> DEFINE r == z_suspend(s, t)
<1>1. s \in KernelStates /\ IdleOK(s) /\ RunQueueOK(s) /\ TimeoutsOK(s)
  BY Zenon DEF KernelOK
<1>2. s.current \in Ready(s) /\ s.run_queue = s.current
  BY Zenon, Disjoint DEF CurrentOK
<1>3. t \in Threads /\ s.state[t] = "READY" /\ t \notin s.wakeup
  BY Zenon, <1>1 DEF Ready, TimeoutsOK
<1>4. PICK d \in Structures(RqNodes), n \in 0 .. 255, first \in Threads \cup {Idle} :
        /\ r = [s EXCEPT !.rq = d, !.ready_count = n, !.run_queue = first]
        /\ Ring(d, Ready(s) \ {t})
        /\ n = Cardinality(Ready(s) \ {t})
        /\ IF Ready(s) \ {t} = {} THEN first = Idle ELSE first \in Ready(s) \ {t}
  BY Zenon, <1>1, <1>2, DequeueThread
<1>5. t # s.current /\ r.ready_count # 0 => r.run_queue = s.run_queue
  BY Zenon, <1>1, <1>3 DEF z_suspend, KernelStates
<1> HIDE DEF r
<1>6. r \in KernelStates
  BY <1>1, <1>4 DEF KernelStates, RqNodes
<1>7. /\ r.rq = d /\ r.ready_count = n /\ r.run_queue = first
      /\ r.state = s.state /\ r.wq = s.wq /\ r.on = s.on /\ r.current = s.current
      /\ r.timeouts = s.timeouts /\ r.wakeup = s.wakeup
  BY Zenon, <1>1, <1>4 DEF KernelStates
<1>8. t # s.current => r.run_queue = s.run_queue
  <2>1. IsFiniteSet(Ready(s) \ {t})
    <3>1. Ready(s) \ {t} \in SUBSET Threads
      BY Zenon DEF Ready
    <3> QED BY Zenon, <3>1, Countable
  <2>2. t # s.current => Ready(s) \ {t} # {}
    BY Zenon, <1>2
  <2>3. t # s.current => n # 0
    BY Zenon, <1>4, <2>1, <2>2, FS_EmptySet
  <2> QED BY Zenon, <1>5, <1>7, <2>3
<1>9. s.wakeup \ {t} = s.wakeup
  BY Zenon, <1>3
<1> QED BY Zenon, <1>1, <1>4, <1>6, <1>7, <1>8, <1>9 DEF Suspended, TimeoutsOK, r

LEMMA SuspendPending ==
  ASSUME NEW S \in SUBSET Threads, NEW s, KernelOK(s, S), CurrentOK(s),
         NEW t \in Threads, s.state[t] = "PENDING"
  PROVE  Suspended(s, z_suspend(s, t), t)
<1> DEFINE r == z_suspend(s, t)
<1>1. s \in KernelStates /\ IdleOK(s) /\ RunQueueOK(s) /\ TimeoutsOK(s)
  BY Zenon DEF KernelOK
<1>2. r = z_cancel_scheduled_wake_up(s, t)
  BY Zenon DEF z_suspend
<1> HIDE DEF r
<1>3. /\ r \in KernelStates
      /\ r.wakeup = s.wakeup \ {t}
      /\ Items(r.timeouts) = r.wakeup /\ NoRepeat(r.timeouts)
      /\ r.state = s.state /\ r.run_queue = s.run_queue
      /\ r.rq = s.rq /\ r.ready_count = s.ready_count
      /\ r.current = s.current /\ r.wq = s.wq /\ r.on = s.on
  BY Zenon, <1>1, <1>2, CancelWakeUp
<1>4. Ready(s) \ {t} = Ready(s)
  BY Zenon DEF Ready
<1> QED BY Zenon, <1>1, <1>3, <1>4 DEF Suspended, RunQueueOK, r

\* The invariant of the kernel survives the abort of a thread that is in no wait
\* queue, and the thread that runs still does unless it stopped itself.
LEMMA StopThread ==
  ASSUME NEW S \in SUBSET Threads, NEW s, KernelOK(s, S), CurrentOK(s),
         s.current \in Threads, NEW t \in Threads,
         s.state[t] # "STOPPED", s.on[t] = NULL
  PROVE  LET r == Stopped(s, t)
         IN  /\ KernelOK(r, S)
             /\ t # s.current => CurrentOK(r)
             /\ r.state = [s.state EXCEPT ![t] = "STOPPED"]
             /\ r.current = s.current /\ r.on = s.on
<1> DEFINE c == z_suspend(s, t)
           st == [s.state EXCEPT ![t] = "STOPPED"]
           r == Stopped(s, t)
<1>1. s \in KernelStates /\ IdleOK(s) /\ RunQueueOK(s) /\ WaitQueuesOK(s)
      /\ TimeoutsOK(s) /\ LinksOK(s, S)
  BY Zenon DEF KernelOK
<1>2. s.state[t] = "READY" \/ s.state[t] = "PENDING"
  BY <1>1, Disjoint DEF KernelStates, ThreadStates, IdleOK
<1>3. Suspended(s, c, t)
  <2>1. CASE s.state[t] = "READY"
    <3>1. t \in Ready(s)
      BY Zenon, <2>1 DEF Ready
    <3> QED BY Zenon, <3>1, SuspendReady
  <2>2. CASE s.state[t] = "PENDING"
    BY Zenon, <2>2, SuspendPending
  <2> QED BY Zenon, <1>2, <2>1, <2>2
<1> HIDE DEF c
<1>4. r = [c EXCEPT !.state = st]
  BY Zenon, <1>3 DEF Stopped, c, Suspended
<1>5. st \in ThreadStates
  BY Zenon, <1>1 DEF KernelStates, ThreadStates
<1>6. \A u \in Threads \cup {Idle} : st[u] = IF u = t THEN "STOPPED" ELSE s.state[u]
  BY Zenon, <1>1 DEF KernelStates, ThreadStates
<1> HIDE DEF r, st
<1>7. r \in KernelStates
  BY <1>3, <1>4, <1>5 DEF KernelStates, Suspended
<1>8. /\ r.state = st /\ r.rq = c.rq /\ r.ready_count = c.ready_count
      /\ r.run_queue = c.run_queue /\ r.wq = c.wq /\ r.on = c.on
      /\ r.current = c.current /\ r.timeouts = c.timeouts /\ r.wakeup = c.wakeup
  BY Zenon, <1>3, <1>4 DEF KernelStates, Suspended
<1>9. /\ c.wq = s.wq /\ c.on = s.on /\ c.current = s.current /\ c.wakeup = s.wakeup \ {t}
      /\ t # s.current => c.run_queue = s.run_queue
      /\ Items(c.timeouts) = c.wakeup /\ NoRepeat(c.timeouts)
  BY Zenon, <1>3 DEF Suspended
<1>10. Ready(r) = Ready(s) \ {t}
  BY Zenon, <1>6, <1>8 DEF Ready
<1>11. IdleOK(r)
  BY Zenon, <1>1, <1>6, <1>8, Disjoint DEF IdleOK
<1>12. RunQueueOK(r)
  BY Zenon, <1>3, <1>8, <1>10 DEF RunQueueOK, Suspended
<1>13. WaitQueuesOK(r)
  <2>1. ASSUME NEW q \in Queues PROVE Waiting(r, q) = Waiting(s, q)
    BY <1>6, <1>8, <1>9, Disjoint DEF Waiting
  <2> QED BY Zenon, <1>1, <1>8, <1>9, <2>1 DEF WaitQueuesOK
<1>14. TimeoutsOK(r)
  <2>1. s.wakeup \in SUBSET Threads
    BY Zenon, <1>1 DEF KernelStates
  <2>2. ASSUME NEW u \in s.wakeup \ {t} PROVE r.state[u] = "PENDING"
    BY Zenon, <1>1, <1>6, <1>8, <2>1 DEF TimeoutsOK
  <2> QED BY Zenon, <1>8, <1>9, <2>2 DEF TimeoutsOK
<1>15. LinksOK(r, S)
  <2>1. ASSUME NEW u \in S, r.state[u] # "PENDING" \/ r.on[u] = NULL
        PROVE  s.state[u] # "PENDING" \/ s.on[u] = NULL
    BY Zenon, <1>6, <1>8, <1>9, <2>1
  <2> QED BY <1>1, <1>8, <1>9, <2>1 DEF LinksOK
<1>16. t # s.current => CurrentOK(r)
  BY Zenon, <1>8, <1>9, <1>10 DEF CurrentOK
<1> QED BY Zenon, <1>7, <1>8, <1>9, <1>11, <1>12, <1>13, <1>14, <1>15, <1>16 DEF KernelOK, r, st

-------------------------------------------------------------------------------
(* The steps that start and stop no thread *)

LEMMA SleepersType == Sleepers \in SUBSET Threads
BY Zenon, SchedulerAssumption

LEMMA JoinQueueType ==
  /\ \A u \in Threads : JoinQueue[u] \in Queues
  /\ \A t, u \in Threads : JoinQueue[t] = JoinQueue[u] => t = u
BY Zenon, SchedulerAssumption

\* Outside of the loop of k_thread_abort the thread that runs is READY.
LEMMA OutsideLoop ==
  ASSUME LifeInv, ctx \in {InThread, [in |-> "sched_enter", q |-> NULL]}
  PROVE  /\ CurrentOK(k)
         /\ \A u \in Threads : ~ Draining(u)
         /\ k.current \in Threads => k.current \in Ready(k) /\ k.state[k.current] = "READY"
<1>1. \A u \in Threads : ~ Draining(u)
  BY DEF Draining, InThread
<1>2. CurrentOK(k)
  BY Zenon, <1>1 DEF LifeInv, LoopInv
<1> QED BY Zenon, <1>1, <1>2, Disjoint DEF CurrentOK, Ready

LEMMA InSchedEnter ==
  ASSUME LifeInv, ctx.in = "sched_enter"
  PROVE  ctx = [in |-> "sched_enter", q |-> NULL]
<1>1. \/ ctx \in {InThread, [in |-> "sched_enter", q |-> NULL]}
      \/ \E u \in Threads : Draining(u)
  BY Zenon DEF LifeInv, LoopInv
<1>2. ctx # InThread
  BY DEF InThread
<1>3. \A u \in Threads : ~ Draining(u)
  BY DEF Draining
<1> QED BY Zenon, <1>1, <1>2, <1>3

\* A step that starts and stops no thread, ends no drain and makes nobody wait
\* for a stopped thread.
LEMMA QuietStep ==
  ASSUME LifeInv, KernelOK(k', Sleepers), LoopInv', pc' = pc, SameLife(k, k'),
         \A u \in Threads : Draining(u) => Draining(u)' /\ k'.current = k.current,
         \A t \in Threads : \/ k'.on[t] \in {NULL, k.on[t]}
                            \/ t \in Joiners /\ k.state[t] # "STOPPED",
         \A u \in Threads : k.state[u] = "STOPPED" =>
           Waiting(k', JoinQueue[u]) \subseteq Waiting(k, JoinQueue[u])
  PROVE  LifeInv'
<1>1. TestInv'
  <2> SUFFICES ASSUME NEW t \in Threads
               PROVE  /\ pc[t].call = "start" => /\ <<t, pc[t].target>> \in StartPairs
                                                 /\ k'.state[pc[t].target] = "STOPPED"
                      /\ pc[t].call = "abort" =>
                           /\ <<t, pc[t].target>> \in AbortPairs
                           /\ k'.state[pc[t].target] = "STOPPED" =>
                                Draining(pc[t].target)' /\ k'.current = t
    BY Zenon DEF TestInv, Draining
  <2>1. CASE pc[t].call = "start"
    <3>1. <<t, pc[t].target>> \in StartPairs /\ k.state[pc[t].target] = "STOPPED"
      BY Zenon, <2>1 DEF LifeInv, TestInv
    <3>2. pc[t].target \in Threads
      BY Zenon, <3>1, SchedulerAssumption
    <3> QED BY Zenon, <2>1, <3>1, <3>2 DEF SameLife
  <2>2. CASE pc[t].call = "abort"
    <3>1. /\ <<t, pc[t].target>> \in AbortPairs
          /\ k.state[pc[t].target] = "STOPPED" => Draining(pc[t].target) /\ k.current = t
      BY Zenon, <2>2 DEF LifeInv, TestInv
    <3>2. pc[t].target \in Threads
      BY Zenon, <3>1, SchedulerAssumption
    <3> QED BY Zenon, <2>2, <3>1, <3>2 DEF SameLife
  <2> QED BY Zenon, <2>1, <2>2
<1>2. JoinInv'
  <2>1. ASSUME NEW t \in Threads, k'.state[t] = "STOPPED" \/ t \notin Joiners
        PROVE  k'.on[t] = NULL
    <3>1. k.state[t] = "STOPPED" \/ t \notin Joiners
      BY Zenon, <2>1 DEF SameLife
    <3>2. k.on[t] = NULL
      BY Zenon, <3>1 DEF LifeInv, JoinInv
    <3> QED BY Zenon, <3>1, <3>2
  <2>2. ASSUME NEW u \in Threads, k'.state[u] = "STOPPED", Waiting(k', JoinQueue[u]) # {}
        PROVE  Draining(u)'
    <3>1. k.state[u] = "STOPPED" /\ Waiting(k, JoinQueue[u]) # {}
      BY Zenon, <2>2 DEF SameLife
    <3> QED BY Zenon, <3>1 DEF LifeInv, JoinInv
  <2> QED BY Zenon, <2>1, <2>2 DEF JoinInv
<1> QED BY Zenon, <1>1, <1>2 DEF LifeInv

\* A step that changes the state and the wait of no thread, outside of the loops.
LEMMA NeutralStep ==
  ASSUME LifeInv, ctx \in {InThread, [in |-> "sched_enter", q |-> NULL]},
         KernelOK(k', Sleepers), CurrentOK(k'), pc' = pc,
         k'.state = k.state, k'.on = k.on,
         ctx' \in {InThread, [in |-> "sched_enter", q |-> NULL]}
  PROVE  LifeInv'
<1>1. LoopInv'
  BY Zenon DEF LoopInv
<1>2. SameLife(k, k') /\ \A q : Waiting(k', q) = Waiting(k, q)
  BY Zenon DEF SameLife, Waiting
<1> QED BY Zenon, <1>1, <1>2, OutsideLoop, QuietStep

LEMMA SwitchStep ==
  ASSUME LifeInv, ctx \in {InThread, [in |-> "sched_enter", q |-> NULL]},
         k' = z_scheduler(k), ctx' = InThread, pc' = pc
  PROVE  LifeInv'
<1> DEFINE r == z_scheduler(k)
<1>1. KernelOK(r, Sleepers) /\ CurrentOK(r) /\ r.state = k.state /\ r.on = k.on
  BY Zenon, SwitchOK DEF LifeInv
<1> HIDE DEF r
<1>2. k' = r
  BY Zenon DEF r
<1> QED BY Zenon, <1>1, <1>2, NeutralStep

\* z_sched_enter wakes up a thread whose timeout has expired.
LEMMA ExpireStep ==
  ASSUME LifeInv, SchedEnterExpire, pc' = pc
  PROVE  LifeInv'
<1> DEFINE t == k.timeouts[1].item
           r == Expire(k)
<1>1. /\ t \in Threads /\ k.state[t] = "PENDING"
      /\ KernelOK(r, Sleepers)
      /\ Ready(r) = Ready(k) \cup {t}
      /\ r.state = [k.state EXCEPT ![t] = "READY"]
      /\ r.run_queue = IF Ready(k) = {} THEN t ELSE k.run_queue
      /\ r.current = k.current /\ r.on = k.on
  BY Zenon, SleepersType, ExpireFirst DEF LifeInv, SchedEnterExpire
<1> HIDE DEF t, r
<1>2. k' = r /\ ctx' = ctx /\ ctx.in = "sched_enter"
  BY Zenon DEF SchedEnterExpire, r
<1>3. ctx = [in |-> "sched_enter", q |-> NULL]
  BY Zenon, <1>2, InSchedEnter
<1>4. CurrentOK(k) /\ \A u \in Threads : ~ Draining(u)
  BY Zenon, <1>3, OutsideLoop
<1>5. CurrentOK(r)
  BY Zenon, <1>1, <1>4, StillCurrent
<1>6. LoopInv'
  BY Zenon, <1>2, <1>3, <1>5 DEF LoopInv
<1>7. k.state \in ThreadStates
  BY Zenon DEF LifeInv, KernelOK, KernelStates
<1>8. SameLife(k, k') /\ \A q : Waiting(k', q) \subseteq Waiting(k, q)
  BY Zenon, <1>1, <1>2, <1>7 DEF SameLife, Waiting, ThreadStates
<1> QED BY Zenon, <1>1, <1>2, <1>4, <1>6, <1>8, QuietStep

\* An iteration of the loop of k_thread_abort wakes up one joining thread.
LEMMA DrainOne ==
  ASSUME LifeInv, DrainStep, pc' = pc
  PROVE  LifeInv'
<1>1. PICK u \in Threads :
        /\ Draining(u)
        /\ k.state[u] = "STOPPED"
        /\ k.current \in Threads
        /\ pc[k.current] = [call |-> "abort", target |-> u]
        /\ u # k.current => CurrentOK(k)
  BY DEF LifeInv, LoopInv, DrainStep, InThread
<1> DEFINE q == JoinQueue[u]
           t == k.wq.next[q]
           r == z_unpend_first_thread(k, q)
<1>2. /\ ctx' = ctx /\ ctx.q = q /\ q \in Queues /\ k' = r
      /\ ~ DLIST_EMPTY(k.wq, q)
  BY Zenon, <1>1, JoinQueueType DEF DrainStep, Draining
<1> HIDE DEF q
<1>3. /\ t \in Waiting(k, q)
      /\ KernelOK(r, Sleepers)
      /\ Ready(r) = Ready(k) \cup {t}
      /\ r.state = [k.state EXCEPT ![t] = "READY"]
      /\ r.run_queue = IF Ready(k) = {} THEN t ELSE k.run_queue
      /\ r.wakeup = k.wakeup \ {t}
      /\ r.expired = k.expired /\ r.canceled = k.canceled
      /\ r.current = k.current /\ r.on = k.on
  <2>1. KernelOK(k, Sleepers)
    BY Zenon DEF LifeInv
  <2>2. q \in Queues /\ ~ DLIST_EMPTY(k.wq, q)
    BY Zenon, <1>2
  <2> QED BY ZenonT(30), <2>1, <2>2, SleepersType, UnpendFirst
<1> HIDE DEF t, r
<1>4. t \in Threads /\ k.state[t] = "PENDING"
  BY Zenon, <1>3 DEF Waiting
<1>5. k.state \in ThreadStates
  BY Zenon DEF LifeInv, KernelOK, KernelStates
<1>6. SameLife(k, k') /\ \A p : Waiting(k', p) \subseteq Waiting(k, p)
  BY Zenon, <1>2, <1>3, <1>4, <1>5 DEF SameLife, Waiting, ThreadStates
<1>7. \A v \in Threads : Draining(v) => Draining(v)' /\ k'.current = k.current
  BY Zenon, <1>2, <1>3 DEF Draining
<1>8. u # k.current => CurrentOK(r)
  BY Zenon, <1>1, <1>3, StillCurrent
<1>9. LoopInv'
  <2>1. Draining(u)' /\ k'.state[u] = "STOPPED" /\ k'.current = k.current
    BY Zenon, <1>1, <1>2, <1>3, <1>6, <1>7 DEF SameLife
  <2> QED BY Zenon, <1>1, <1>2, <1>8, <2>1 DEF LoopInv
<1> QED BY Zenon, <1>2, <1>3, <1>6, <1>7, <1>9, QuietStep

\* The tick interrupt, and an interrupt handler that yields.
LEMMA InterruptStep ==
  ASSUME LifeInv, Interrupt
  PROVE  LifeInv'
<1>1. CASE SysTick
  <2>1. ctx = InThread /\ CurrentOK(k)
    BY Zenon, <1>1, OutsideLoop DEF SysTick, InterruptsEnabled
  <2>2. /\ KernelOK(k', Sleepers) /\ CurrentOK(k')
        /\ k'.state = k.state /\ k'.on = k.on
        /\ ctx' \in {InThread, [in |-> "sched_enter", q |-> NULL]}
    BY Zenon, <1>1, <2>1, TickOK DEF LifeInv
  <2> QED BY Zenon, <2>1, <2>2, NeutralStep DEF Interrupt
<1>2. CASE SchedEnterExpire
  BY Zenon, <1>2, ExpireStep DEF Interrupt
<1>3. CASE SchedEnterExit
  <2>1. ctx = [in |-> "sched_enter", q |-> NULL]
    BY Zenon, <1>3, InSchedEnter DEF SchedEnterExit
  <2>2. CASE k' = k
    <3>1. KernelOK(k, Sleepers) /\ CurrentOK(k)
      BY Zenon, <2>1, OutsideLoop DEF LifeInv
    <3> QED BY Zenon, <1>3, <2>1, <2>2, <3>1, NeutralStep DEF SchedEnterExit, Interrupt
  <2>3. CASE k' = z_scheduler(k)
    BY Zenon, <1>3, <2>1, <2>3, SwitchStep DEF SchedEnterExit, Interrupt
  <2> QED BY Zenon, <1>3, <2>2, <2>3 DEF SchedEnterExit
<1>4. CASE k_yield_from_isr
  BY Zenon, <1>4, SwitchStep DEF k_yield_from_isr, InterruptsEnabled, Interrupt
<1> QED BY Zenon, <1>1, <1>2, <1>3, <1>4 DEF Interrupt, Tick

-------------------------------------------------------------------------------
(* The calls of a thread that start and stop no thread *)

\* A thread that runs is READY, in no loop and in no wait queue.
LEMMA Runs ==
  ASSUME LifeInv, NEW t \in Threads, Running(t) \/ Returning(t)
  PROVE  /\ KernelOK(k, Sleepers) /\ CurrentOK(k)
         /\ ctx = InThread /\ k.current = t
         /\ t \in Ready(k) /\ k.state[t] = "READY"
         /\ \A u \in Threads : ~ Draining(u)
<1>1. ctx = InThread /\ k.current = t
  BY Zenon DEF Running, Returning
<1> QED BY Zenon, <1>1, OutsideLoop DEF LifeInv

\* k_sleep.
LEMMA SleepStep ==
  ASSUME LifeInv, NEW t \in Sleepers, NEW n \in Nat, k_sleep(t, n), pc' = pc
  PROVE  LifeInv'
<1> DEFINE r == z_pend_current(k, n)
<1>1. /\ t \in Threads /\ Running(t) /\ k.current = t /\ k.on[t] = NULL
      /\ k' = r /\ ctx' = ctx
  BY Zenon DEF k_sleep, Running
<1>2. /\ KernelOK(k, Sleepers) /\ CurrentOK(k) /\ ctx = InThread
      /\ \A u \in Threads : ~ Draining(u)
  BY Zenon, <1>1, Runs
<1>3. /\ KernelOK(r, Sleepers) /\ CurrentOK(r)
      /\ k.state[t] = "READY"
      /\ r.state = [k.state EXCEPT ![t] = "PENDING"]
      /\ r.on = k.on
  BY Zenon, <1>1, <1>2, SleepersType, SleepCurrent
<1> HIDE DEF r
<1>4. LoopInv'
  BY Zenon, <1>1, <1>2, <1>3 DEF LoopInv
<1>5. k.state \in ThreadStates
  BY Zenon DEF LifeInv, KernelOK, KernelStates
<1>6. SameLife(k, k')
  BY Zenon, <1>1, <1>3, <1>5 DEF SameLife, ThreadStates
<1>7. \A q \in Queues : Waiting(k', q) \subseteq Waiting(k, q)
  BY Zenon, <1>1, <1>3, <1>5, Disjoint DEF Waiting, ThreadStates
<1> QED BY Zenon, <1>1, <1>2, <1>3, <1>4, <1>6, <1>7, JoinQueueType, QuietStep

\* A step that only writes flags of the threads that no queue depends on.
LEMMA FlagStep ==
  ASSUME LifeInv, ctx = InThread, NEW co \in SUBSET Threads, NEW lo \in SUBSET Threads,
         k' = [k EXCEPT !.coop = co, !.locked = lo], ctx' = ctx, pc' = pc
  PROVE  LifeInv'
<1> DEFINE r == [k EXCEPT !.coop = co, !.locked = lo]
<1>1. KernelOK(k, Sleepers) /\ k \in KernelStates /\ CurrentOK(k)
  BY Zenon, OutsideLoop DEF LifeInv, KernelOK
<1>2. r \in KernelStates
  BY Zenon, <1>1 DEF KernelStates
<1>3. /\ r.state = k.state /\ r.rq = k.rq /\ r.ready_count = k.ready_count
      /\ r.run_queue = k.run_queue /\ r.wq = k.wq /\ r.on = k.on
      /\ r.wakeup = k.wakeup /\ r.timeouts = k.timeouts /\ r.current = k.current
  BY Zenon, <1>1 DEF KernelStates
<1> HIDE DEF r
<1>4. KernelOK(r, Sleepers) /\ Ready(r) = Ready(k)
  BY Zenon, <1>1, <1>2, <1>3, KernelFrame
<1>5. CurrentOK(r)
  BY Zenon, <1>1, <1>3, <1>4 DEF CurrentOK
<1>6. k' = r
  BY Zenon DEF r
<1> QED BY Zenon, <1>3, <1>4, <1>5, <1>6, NeutralStep

\* k_sched_lock, k_sched_unlock and k_thread_set_priority.
LEMMA LockStep ==
  ASSUME LifeInv, NEW t \in Threads, k_sched_lock(t) \/ k_sched_unlock(t), pc' = pc
  PROVE  LifeInv'
<1>1. k \in KernelStates
  BY Zenon DEF LifeInv, KernelOK
<1>2. k.coop \in SUBSET Threads /\ k.locked \in SUBSET Threads
  BY Zenon, <1>1 DEF KernelStates
<1>3. PICK lo \in SUBSET Threads : k' = [k EXCEPT !.locked = lo]
  BY Zenon, <1>2 DEF k_sched_lock, k_sched_unlock
<1>4. k' = [k EXCEPT !.coop = k.coop, !.locked = lo]
  BY Zenon, <1>1, <1>3 DEF KernelStates
<1>5. ctx = InThread /\ ctx' = ctx
  BY Zenon DEF k_sched_lock, k_sched_unlock, Running
<1> QED BY Zenon, <1>2, <1>4, <1>5, FlagStep

LEMMA PriorityStep ==
  ASSUME LifeInv, NEW t \in Threads, NEW u \in Threads, NEW prio,
         k_thread_set_priority(t, u, prio)
  PROVE  LifeInv'
<1>1. k \in KernelStates
  BY Zenon DEF LifeInv, KernelOK
<1>2. k.coop \in SUBSET Threads /\ k.locked \in SUBSET Threads
  BY Zenon, <1>1 DEF KernelStates
<1>3. PICK co \in SUBSET Threads : k' = [k EXCEPT !.coop = co]
  <2> DEFINE co == IF prio = "COOP" THEN k.coop \cup {u} ELSE k.coop \ {u}
  <2>1. k' = [k EXCEPT !.coop = co] /\ co \in SUBSET Threads
    BY Zenon, <1>2 DEF k_thread_set_priority
  <2> QED BY Zenon, <2>1
<1>4. k' = [k EXCEPT !.coop = co, !.locked = k.locked]
  BY Zenon, <1>1, <1>3 DEF KernelStates
<1>5. ctx = InThread /\ ctx' = ctx /\ pc' = pc
  BY Zenon DEF k_thread_set_priority, Free, Running
<1> QED BY Zenon, <1>2, <1>4, <1>5, FlagStep

LEMMA Stutter ==
  ASSUME LifeInv, UNCHANGED vars
  PROVE  LifeInv'
BY Zenon DEF vars, LifeInv, LoopInv, TestInv, JoinInv, Draining

\* k_thread_join: a thread starts to wait for a thread that has not stopped.
LEMMA JoinStep ==
  ASSUME Discipline, LifeInv, NEW t \in Threads, NEW u \in Threads,
         NEW timeout \in Timeouts, k_thread_join(t, u, timeout)
  PROVE  LifeInv'
<1> DEFINE q == JoinQueue[u]
           r == z_pend_current_on(k, q, timeout)
<1>1. /\ Running(t) /\ k.current = t /\ k.on[t] = NULL /\ <<t, u>> \in JoinPairs
      /\ ctx' = ctx /\ pc' = pc
  BY Zenon DEF k_thread_join, Free, Running
<1>2. /\ KernelOK(k, Sleepers) /\ CurrentOK(k) /\ ctx = InThread
      /\ \A v \in Threads : ~ Draining(v)
  BY Zenon, <1>1, Runs
<1>3. t \in Joiners /\ t \notin Sleepers
  BY Zenon, <1>1 DEF Joiners, Discipline
<1>4. CASE k.state[u] = "STOPPED" \/ timeout = K_NO_WAIT
  <2>1. k' = k
    BY Zenon, <1>4 DEF k_thread_join, z_pend_current_on
  <2> QED BY Zenon, <1>1, <2>1, Stutter DEF vars
<1>5. CASE k.state[u] # "STOPPED" /\ timeout # K_NO_WAIT
  <2>1. timeout \in Nat \cup {K_FOREVER} /\ q \in Queues
    BY JoinQueueType, SchedulerAssumption DEF Timeouts
  <2>2. k' = r
    BY Zenon, <1>5 DEF k_thread_join
  <2> HIDE DEF q
  <2>3. KernelOK(r, Sleepers) /\ CurrentOK(r) /\ WaitsOn(k, r, q)
    BY Zenon, <1>1, <1>2, <1>3, <1>5, <2>1, SleepersType, PendOn
  <2> HIDE DEF r
  <2>4. /\ k.state[t] = "READY"
        /\ r.state = [k.state EXCEPT ![t] = "PENDING"]
        /\ r.on = [k.on EXCEPT ![t] = q]
    BY Zenon, <1>1, <2>3 DEF WaitsOn
  <2>5. LoopInv'
    BY Zenon, <1>1, <1>2, <2>2, <2>3 DEF LoopInv
  <2>6. k.state \in ThreadStates /\ k.on \in [Threads -> Queues \cup {NULL}]
    BY Zenon DEF LifeInv, KernelOK, KernelStates
  <2>7. SameLife(k, k')
    BY Zenon, <2>2, <2>4, <2>6 DEF SameLife, ThreadStates
  <2>8. \A v \in Threads : v # t => k'.on[v] = k.on[v]
    BY Zenon, <2>2, <2>4, <2>6
  <2>9. ASSUME NEW v \in Threads, k.state[v] = "STOPPED"
        PROVE  Waiting(k', JoinQueue[v]) \subseteq Waiting(k, JoinQueue[v])
    <3>1. JoinQueue[v] # q
      BY Zenon, <1>5, <2>9, JoinQueueType DEF q
    <3>2. k'.on[t] = q
      BY Zenon, <2>2, <2>4, <2>6
    <3>3. \A x \in Threads : x # t => k'.state[x] = k.state[x]
      BY Zenon, <2>2, <2>4, <2>6 DEF ThreadStates
    <3> QED BY Zenon, <2>8, <3>1, <3>2, <3>3 DEF Waiting
  <2> QED BY <1>1, <1>2, <1>3, <2>2, <2>3, <2>4, <2>5, <2>7, <2>8, <2>9, QuietStep
<1> QED BY Zenon, <1>4, <1>5

\* k_thread_join returns.
LEMMA JoinReturnStep ==
  ASSUME LifeInv, NEW t \in Threads, k_thread_join_return(t)
  PROVE  LifeInv'
<1> DEFINE r == Returned(k, t)
<1>1. Returning(t) /\ k' = r /\ ctx' = ctx /\ pc' = pc
  BY Zenon DEF k_thread_join_return
<1>2. /\ KernelOK(k, Sleepers) /\ CurrentOK(k) /\ ctx = InThread /\ t \in Ready(k)
      /\ \A u \in Threads : ~ Draining(u)
  BY Zenon, <1>1, Runs
<1>3. /\ KernelOK(r, Sleepers)
      /\ Ready(r) = Ready(k)
      /\ r.state = k.state
      /\ r.run_queue = k.run_queue /\ r.current = k.current
      /\ r.expired = k.expired /\ r.canceled = k.canceled
      /\ r.on = [k.on EXCEPT ![t] = NULL]
  BY Zenon, <1>2, SleepersType, ReturnThread
<1> HIDE DEF r
<1>4. CurrentOK(r)
  BY Zenon, <1>2, <1>3 DEF CurrentOK
<1>5. LoopInv'
  BY Zenon, <1>1, <1>2, <1>4 DEF LoopInv
<1>6. k.on \in [Threads -> Queues \cup {NULL}]
  BY Zenon DEF LifeInv, KernelOK, KernelStates
<1>7. \A v \in Threads : k'.on[v] \in {NULL, k.on[v]}
  BY Zenon, <1>1, <1>3, <1>6
<1>8. SameLife(k, k')
  BY Zenon, <1>1, <1>3 DEF SameLife
<1>9. \A q \in Queues : Waiting(k', q) \subseteq Waiting(k, q)
  BY Zenon, <1>1, <1>3, <1>7, Disjoint DEF Waiting
<1> QED BY <1>1, <1>2, <1>3, <1>5, <1>7, <1>8, <1>9, JoinQueueType, QuietStep

-------------------------------------------------------------------------------
(* The calls that create, start and stop threads *)

\* pc after a step that writes the entry of one thread.
LEMMA OneCall ==
  ASSUME NEW f \in [Threads -> Calls], NEW t \in Threads, NEW c \in Calls
  PROVE  LET g == [f EXCEPT ![t] = c]
         IN  /\ g \in [Threads -> Calls]
             /\ g[t] = c /\ \A v \in Threads \ {t} : g[v] = f[v]
BY Zenon

LEMMA UserCall == User \in Calls /\ User.call = "none"
BY Zenon DEF User, Calls

\* dlist_init of the head of an empty list changes nothing.
LEMMA InitEmpty ==
  ASSUME NEW N, NEW d \in Structures(N), NEW q \in N, Ring(d, {q})
  PROVE  dlist_init(d, q) = d
<1>1. d.next[q] = q /\ d.prev[q] = q
  BY Zenon DEF Ring
<1>2. d.next \in [N -> N] /\ d.prev \in [N -> N]
  BY Zenon DEF Structures
<1>3. [d.next EXCEPT ![q] = q] = d.next /\ [d.prev EXCEPT ![q] = q] = d.prev
  BY Zenon, <1>1, <1>2
<1>4. SetNext(d, q, q) = d
  BY Zenon, <1>3 DEF SetNext, Structures
<1>5. SetPrev(d, q, q) = d
  BY Zenon, <1>3 DEF SetPrev, Structures
<1> QED BY Zenon, <1>4, <1>5 DEF dlist_init

\* What TestInv says of a thread outside of the loop of k_thread_abort.
LEMMA TestHolds ==
  ASSUME LifeInv, ctx = InThread, NEW v \in Threads
  PROVE  /\ pc[v].call = "start" => /\ <<v, pc[v].target>> \in StartPairs
                                    /\ pc[v].target \in Threads
                                    /\ k.state[pc[v].target] = "STOPPED"
         /\ pc[v].call = "abort" => /\ <<v, pc[v].target>> \in AbortPairs
                                    /\ pc[v].target \in Threads
                                    /\ k.state[pc[v].target] # "STOPPED"
<1>1. /\ pc[v].call = "start" => /\ <<v, pc[v].target>> \in StartPairs
                                 /\ k.state[pc[v].target] = "STOPPED"
      /\ pc[v].call = "abort" =>
           /\ <<v, pc[v].target>> \in AbortPairs
           /\ k.state[pc[v].target] = "STOPPED" => Draining(pc[v].target)
  BY Zenon DEF LifeInv, TestInv
<1>2. pc[v].call \in {"start", "abort"} => pc[v].target \in Threads
  BY Zenon, <1>1, SchedulerAssumption
<1>3. \A u \in Threads : ~ Draining(u)
  BY Zenon, OutsideLoop
<1> QED BY Zenon, <1>1, <1>2, <1>3

\* TestInv once every thread is known to satisfy it outside of the loop.
LEMMA TestKept ==
  ASSUME \A v \in Threads :
           /\ pc'[v].call = "start" => /\ <<v, pc'[v].target>> \in StartPairs
                                       /\ k'.state[pc'[v].target] = "STOPPED"
           /\ pc'[v].call = "abort" => /\ <<v, pc'[v].target>> \in AbortPairs
                                       /\ k'.state[pc'[v].target] # "STOPPED"
  PROVE  TestInv'
BY Zenon DEF TestInv

\* k_thread_create of a stopped thread: it waits for nothing, nobody waits for it,
\* and it has no wake-up, so that only its flags are written.
LEMMA CreateStep ==
  ASSUME LifeInv, NEW t \in Threads, NEW u \in Threads, NEW prio,
         k_thread_create(t, u, prio)
  PROVE  LifeInv'
<1> DEFINE co == IF prio = "COOP" THEN k.coop \cup {u} ELSE k.coop \ {u}
           lo == k.locked \ {u}
           ex == k.expired \ {u}
           ca == k.canceled \ {u}
           wa == k.wakeup \ {u}
           wq == dlist_init(k.wq, JoinQueue[u])
           on == [k.on EXCEPT ![u] = NULL]
<1>1. /\ Running(t) /\ k.state[u] = "STOPPED" /\ ctx' = ctx
      /\ pc' = [pc EXCEPT ![u] = User]
  BY Zenon DEF k_thread_create, Free
<1>2. /\ KernelOK(k, Sleepers) /\ CurrentOK(k) /\ ctx = InThread
      /\ \A v \in Threads : ~ Draining(v)
  BY Zenon, <1>1, Runs
<1>3. k \in KernelStates /\ WaitQueuesOK(k) /\ TimeoutsOK(k)
  BY Zenon, <1>2 DEF KernelOK
<1>4. wq = k.wq
  <2>1. JoinQueue[u] \in Queues /\ Waiting(k, JoinQueue[u]) = {}
    BY Zenon, <1>1, <1>2, JoinQueueType DEF LifeInv, JoinInv
  <2>2. Ring(k.wq, {JoinQueue[u]} \cup {})
    BY Zenon, <1>3, <2>1 DEF WaitQueuesOK
  <2>3. {JoinQueue[u]} \cup {} = {JoinQueue[u]}
    BY Zenon
  <2>4. k.wq \in Structures(WqNodes) /\ JoinQueue[u] \in WqNodes
    BY Zenon, <1>3, <2>1 DEF KernelStates, WqNodes
  <2> QED BY Zenon, <2>2, <2>3, <2>4, InitEmpty
<1>5. on = k.on /\ wa = k.wakeup
  <2>1. k.on[u] = NULL /\ k.on \in [Threads -> Queues \cup {NULL}]
    BY Zenon, <1>1, <1>3 DEF LifeInv, JoinInv, KernelStates
  <2>2. u \notin k.wakeup
    BY Zenon, <1>1, <1>3 DEF TimeoutsOK
  <2> QED BY Zenon, <2>1, <2>2
<1>6. k' = [k EXCEPT !.expired = ex, !.canceled = ca, !.wakeup = wa,
                     !.locked = lo, !.coop = co, !.wq = wq, !.on = on]
  BY Zenon DEF k_thread_create
<1>7. /\ co \in SUBSET Threads /\ lo \in SUBSET Threads
      /\ ex \in SUBSET Threads /\ ca \in SUBSET Threads
  BY Zenon, <1>3 DEF KernelStates
<1> HIDE DEF co, lo, ex, ca, wa, wq, on
<1> DEFINE r == [k EXCEPT !.expired = ex, !.canceled = ca, !.wakeup = k.wakeup,
                          !.locked = lo, !.coop = co, !.wq = k.wq, !.on = k.on]
<1>8. k' = r
  BY Zenon, <1>4, <1>5, <1>6
<1>9. r \in KernelStates
  BY Zenon, <1>3, <1>7 DEF KernelStates
<1>10. /\ r.state = k.state /\ r.rq = k.rq /\ r.ready_count = k.ready_count
       /\ r.run_queue = k.run_queue /\ r.wq = k.wq /\ r.on = k.on
       /\ r.wakeup = k.wakeup /\ r.timeouts = k.timeouts /\ r.current = k.current
  BY Zenon, <1>3 DEF KernelStates
<1> HIDE DEF r
<1>11. KernelOK(r, Sleepers) /\ Ready(r) = Ready(k)
  BY Zenon, <1>2, <1>9, <1>10, KernelFrame
<1>12. LoopInv'
  BY Zenon, <1>1, <1>2, <1>8, <1>10, <1>11 DEF LoopInv, CurrentOK
<1>13. pc' \in [Threads -> Calls] /\ pc'[u] = User /\ \A v \in Threads \ {u} : pc'[v] = pc[v]
  BY Zenon, <1>1, OneCall, UserCall DEF LifeInv
<1>14. TestInv'
  <2>1. ASSUME NEW v \in Threads
        PROVE  /\ pc'[v].call = "start" => /\ <<v, pc'[v].target>> \in StartPairs
                                           /\ k'.state[pc'[v].target] = "STOPPED"
               /\ pc'[v].call = "abort" => /\ <<v, pc'[v].target>> \in AbortPairs
                                           /\ k'.state[pc'[v].target] # "STOPPED"
    <3>1. CASE v = u
      BY Zenon, <1>13, <3>1, UserCall
    <3>2. CASE v # u
      BY <1>2, <1>8, <1>10, <1>13, <3>2, TestHolds
    <3> QED BY Zenon, <3>1, <3>2
  <2> QED BY Zenon, <2>1, TestKept
<1>15. JoinInv'
  <2>1. \A q : Waiting(k', q) = Waiting(k, q)
    BY Zenon, <1>8, <1>10 DEF Waiting
  <2> QED BY Zenon, <1>2, <1>8, <1>10, <2>1 DEF LifeInv, JoinInv
<1> QED BY Zenon, <1>8, <1>11, <1>12, <1>13, <1>14, <1>15 DEF LifeInv

\* The test of k_thread_start or k_thread_abort.
LEMMA TestStep ==
  ASSUME LifeInv, NEW t \in Threads, NEW u \in Threads,
         k_thread_start_test(t, u) \/ k_thread_abort_test(t, u)
  PROVE  LifeInv'
<1>1. Running(t) /\ k' = k /\ ctx' = ctx
  BY Zenon DEF k_thread_start_test, k_thread_abort_test, Free
<1>2. ctx = InThread /\ CurrentOK(k)
  BY Zenon, <1>1, Runs
<1>3. PICK c \in Calls :
        /\ pc' = [pc EXCEPT ![t] = c] /\ c.target = u
        /\ \/ c.call = "start" /\ <<t, u>> \in StartPairs /\ k.state[u] = "STOPPED"
           \/ c.call = "abort" /\ <<t, u>> \in AbortPairs /\ k.state[u] # "STOPPED"
  <2>1. CASE k_thread_start_test(t, u)
    <3> DEFINE c == [call |-> "start", target |-> u]
    <3>1. c \in Calls /\ c.target = u /\ c.call = "start"
      BY Zenon DEF Calls
    <3>2. pc' = [pc EXCEPT ![t] = c] /\ <<t, u>> \in StartPairs /\ k.state[u] = "STOPPED"
      BY Zenon, <2>1 DEF k_thread_start_test
    <3> HIDE DEF c
    <3> QED BY Zenon, <3>1, <3>2
  <2>2. CASE k_thread_abort_test(t, u)
    <3> DEFINE c == [call |-> "abort", target |-> u]
    <3>1. c \in Calls /\ c.target = u /\ c.call = "abort"
      BY Zenon DEF Calls
    <3>2. pc' = [pc EXCEPT ![t] = c] /\ <<t, u>> \in AbortPairs /\ k.state[u] # "STOPPED"
      BY Zenon, <2>2 DEF k_thread_abort_test
    <3> HIDE DEF c
    <3> QED BY Zenon, <3>1, <3>2
  <2> QED BY Zenon, <2>1, <2>2
<1>4. pc' \in [Threads -> Calls] /\ pc'[t] = c /\ \A v \in Threads \ {t} : pc'[v] = pc[v]
  BY <1>3, OneCall DEF LifeInv
<1>5. TestInv'
  <2>1. ASSUME NEW v \in Threads
        PROVE  /\ pc'[v].call = "start" => /\ <<v, pc'[v].target>> \in StartPairs
                                           /\ k'.state[pc'[v].target] = "STOPPED"
               /\ pc'[v].call = "abort" => /\ <<v, pc'[v].target>> \in AbortPairs
                                           /\ k'.state[pc'[v].target] # "STOPPED"
    <3>1. CASE v = t
      BY Zenon, <1>1, <1>3, <1>4, <3>1
    <3>2. CASE v # t
      BY Zenon, <1>1, <1>2, <1>4, <3>2, TestHolds
    <3> QED BY Zenon, <3>1, <3>2
  <2> QED BY Zenon, <2>1, TestKept
<1>6. LoopInv'
  BY Zenon, <1>1, <1>2 DEF LoopInv
<1>7. JoinInv'
  BY Zenon, <1>1 DEF LifeInv, JoinInv, Draining
<1> QED BY Zenon, <1>1, <1>4, <1>5, <1>6, <1>7 DEF LifeInv

\* k_thread_start: the target is still stopped, since no other thread starts it.
LEMMA StartStep ==
  ASSUME Discipline, LifeInv, NEW t \in Threads, k_thread_start(t)
  PROVE  LifeInv'
<1> DEFINE u == pc[t].target
           r == z_schedule(k, u)
<1>1. /\ Running(t) /\ pc[t].call = "start" /\ k' = r /\ ctx' = ctx
      /\ pc' = [pc EXCEPT ![t] = User]
  BY Zenon DEF k_thread_start
<1>2. /\ KernelOK(k, Sleepers) /\ CurrentOK(k) /\ ctx = InThread
      /\ \A v \in Threads : ~ Draining(v)
  BY Zenon, <1>1, Runs
<1>3. u \in Threads /\ k.state[u] = "STOPPED" /\ <<t, u>> \in StartPairs
  BY Zenon, <1>1, <1>2, TestHolds
<1> HIDE DEF u
<1>4. /\ KernelOK(r, Sleepers)
      /\ Ready(r) = Ready(k) \cup {u}
      /\ r.state = [k.state EXCEPT ![u] = "READY"]
      /\ r.run_queue = IF Ready(k) = {} THEN u ELSE k.run_queue
      /\ r.current = k.current /\ r.on = k.on
  BY Zenon, <1>2, <1>3, SleepersType, StartThread
<1> HIDE DEF r
<1>5. k.state \in ThreadStates
  BY Zenon DEF LifeInv, KernelOK, KernelStates
<1>6. k'.state[u] = "READY" /\ \A v \in Threads \ {u} : k'.state[v] = k.state[v]
  BY Zenon, <1>1, <1>3, <1>4, <1>5 DEF ThreadStates
<1>7. LoopInv'
  <2>1. CurrentOK(r)
    BY Zenon, <1>2, <1>4, StillCurrent
  <2> QED BY Zenon, <1>1, <1>2, <2>1 DEF LoopInv
<1>8. pc' \in [Threads -> Calls] /\ pc'[t] = User /\ \A v \in Threads \ {t} : pc'[v] = pc[v]
  BY Zenon, <1>1, OneCall, UserCall DEF LifeInv
<1>9. TestInv'
  <2>1. ASSUME NEW v \in Threads
        PROVE  /\ pc'[v].call = "start" => /\ <<v, pc'[v].target>> \in StartPairs
                                           /\ k'.state[pc'[v].target] = "STOPPED"
               /\ pc'[v].call = "abort" => /\ <<v, pc'[v].target>> \in AbortPairs
                                           /\ k'.state[pc'[v].target] # "STOPPED"
    <3>1. CASE v = t
      BY Zenon, <1>8, <3>1, UserCall
    <3>2. CASE v # t
      <4>1. pc'[v] = pc[v]
        BY Zenon, <1>8, <3>2
      <4>2. /\ pc[v].call = "start" => /\ <<v, pc[v].target>> \in StartPairs
                                       /\ pc[v].target \in Threads
                                       /\ k.state[pc[v].target] = "STOPPED"
            /\ pc[v].call = "abort" => /\ <<v, pc[v].target>> \in AbortPairs
                                       /\ pc[v].target \in Threads
                                       /\ k.state[pc[v].target] # "STOPPED"
        BY Zenon, <1>2, TestHolds
      <4>3. pc[v].call = "start" => pc[v].target # u
        BY Zenon, <1>3, <3>2, <4>2 DEF Discipline
      <4> QED BY Zenon, <1>6, <4>1, <4>2, <4>3
    <3> QED BY Zenon, <3>1, <3>2
  <2> QED BY Zenon, <2>1, TestKept
<1>10. JoinInv'
  <2>1. \A v \in Threads : k'.state[v] = "STOPPED" => k.state[v] = "STOPPED"
    BY Zenon, <1>3, <1>6
  <2>2. \A q : Waiting(k', q) = Waiting(k, q)
    BY Zenon, <1>1, <1>3, <1>4, <1>6 DEF Waiting
  <2> QED BY Zenon, <1>1, <1>2, <1>4, <2>1, <2>2 DEF LifeInv, JoinInv
<1> QED BY Zenon, <1>1, <1>4, <1>7, <1>8, <1>9, <1>10 DEF LifeInv

\* k_thread_abort up to its loop: the target has not stopped, since no other
\* thread stops it, and is in no wait queue.
LEMMA AbortStep ==
  ASSUME Discipline, LifeInv, NEW t \in Threads, k_thread_abort(t)
  PROVE  LifeInv'
<1>0. PICK u : u = pc[t].target
  BY Zenon
<1> DEFINE r == Stopped(k, u)
<1>1. /\ Running(t) /\ pc[t].call = "abort" /\ k' = r /\ pc' = pc
      /\ ctx' = [in |-> "drain", q |-> JoinQueue[u]]
  BY Zenon, <1>0 DEF k_thread_abort, Stopped
<1>2. /\ KernelOK(k, Sleepers) /\ CurrentOK(k) /\ ctx = InThread /\ k.current = t
      /\ \A v \in Threads : ~ Draining(v)
  BY Zenon, <1>1, Runs
<1>3. u \in Threads /\ k.state[u] # "STOPPED" /\ <<t, u>> \in AbortPairs
  BY Zenon, <1>0, <1>1, <1>2, TestHolds
<1>4. pc[t] = [call |-> "abort", target |-> u]
  BY Zenon, <1>0, <1>1 DEF LifeInv, Calls
<1>5. k.on[u] = NULL
  <2>1. CASE u = t
    BY Zenon, <1>1, <2>1 DEF Running
  <2>2. CASE u # t
    <3>1. u \notin Joiners
      BY Zenon, <1>3, <2>2 DEF Discipline
    <3> QED BY Zenon, <1>3, <3>1 DEF LifeInv, JoinInv
  <2> QED BY Zenon, <2>1, <2>2
<1>6. /\ KernelOK(r, Sleepers)
      /\ u # k.current => CurrentOK(r)
      /\ r.state = [k.state EXCEPT ![u] = "STOPPED"]
      /\ r.current = k.current /\ r.on = k.on
  BY Zenon, <1>2, <1>3, <1>5, SleepersType, StopThread
<1> HIDE DEF r
<1>7. k.state \in ThreadStates
  BY DEF LifeInv, KernelOK, KernelStates
<1>8. k'.state[u] = "STOPPED" /\ \A v \in Threads \ {u} : k'.state[v] = k.state[v]
  BY Zenon, <1>1, <1>3, <1>6, <1>7 DEF ThreadStates
<1>9. Draining(u)'
  BY Zenon, <1>1 DEF Draining
<1>10. LoopInv'
  BY Zenon, <1>1, <1>2, <1>3, <1>4, <1>6, <1>8, <1>9 DEF LoopInv
<1>11. TestInv'
  <2>1. ASSUME NEW v \in Threads
        PROVE  /\ pc[v].call = "start" => /\ <<v, pc[v].target>> \in StartPairs
                                          /\ k'.state[pc[v].target] = "STOPPED"
               /\ pc[v].call = "abort" =>
                    /\ <<v, pc[v].target>> \in AbortPairs
                    /\ k'.state[pc[v].target] = "STOPPED" =>
                         Draining(pc[v].target)' /\ k'.current = v
    <3>1. /\ pc[v].call = "start" => /\ <<v, pc[v].target>> \in StartPairs
                                     /\ pc[v].target \in Threads
                                     /\ k.state[pc[v].target] = "STOPPED"
          /\ pc[v].call = "abort" => /\ <<v, pc[v].target>> \in AbortPairs
                                     /\ pc[v].target \in Threads
                                     /\ k.state[pc[v].target] # "STOPPED"
      BY Zenon, <1>2, TestHolds
    <3>2. pc[v].call = "start" => k'.state[pc[v].target] = "STOPPED"
      BY Zenon, <1>8, <3>1
    <3>3. ASSUME pc[v].call = "abort", k'.state[pc[v].target] = "STOPPED"
          PROVE  Draining(pc[v].target)' /\ k'.current = v
      <4>1. pc[v].target = u
        BY Zenon, <1>8, <3>1, <3>3
      <4>2. v = t
        BY Zenon, <1>3, <3>1, <3>3, <4>1 DEF Discipline
      <4>3. k'.current = v
        BY Zenon, <1>1, <1>2, <1>6, <4>2
      <4>4. Draining(pc[v].target)'
        BY Zenon, <1>1, <4>1 DEF Draining
      <4> QED BY Zenon, <4>3, <4>4
    <3> QED BY Zenon, <3>1, <3>2, <3>3
  <2> QED BY Zenon, <1>1, <2>1 DEF TestInv, Draining
<1>12. JoinInv'
  <2>1. ASSUME NEW v \in Threads, k'.state[v] = "STOPPED" \/ v \notin Joiners
        PROVE  k'.on[v] = NULL
    <3>1. v = u \/ k.state[v] = "STOPPED" \/ v \notin Joiners
      BY Zenon, <1>8, <2>1
    <3> QED BY Zenon, <1>1, <1>5, <1>6, <3>1 DEF LifeInv, JoinInv
  <2>2. \A q \in Queues : Waiting(k', q) \subseteq Waiting(k, q)
    BY Zenon, <1>1, <1>6, <1>8 DEF Waiting
  <2>3. ASSUME NEW v \in Threads, k'.state[v] = "STOPPED", Waiting(k', JoinQueue[v]) # {}
        PROVE  Draining(v)'
    <3>1. CASE v = u
      BY Zenon, <1>1, <3>1 DEF Draining
    <3>2. CASE v # u
      <4>1. k.state[v] = "STOPPED" /\ Waiting(k, JoinQueue[v]) # {}
        BY Zenon, <1>8, <2>2, <2>3, <3>2, JoinQueueType
      <4> QED BY Zenon, <1>2, <4>1 DEF LifeInv, JoinInv
    <3> QED BY Zenon, <3>1, <3>2
  <2> QED BY Zenon, <2>1, <2>3 DEF JoinInv
<1> QED BY Zenon, <1>1, <1>6, <1>10, <1>11, <1>12 DEF LifeInv

\* The end of k_thread_abort: all the threads that joined the target are awake.
LEMMA AbortEndStep ==
  ASSUME LifeInv, k_thread_abort_end
  PROVE  LifeInv'
<1> DEFINE t == k.current
<1>0. ctx # InThread /\ ctx # [in |-> "sched_enter", q |-> NULL]
  BY DEF k_thread_abort_end, InThread
<1>1. PICK u \in Threads :
        /\ Draining(u)
        /\ k.state[u] = "STOPPED"
        /\ k.current \in Threads
        /\ pc[k.current] = [call |-> "abort", target |-> u]
        /\ u # k.current => CurrentOK(k)
  BY Zenon, <1>0 DEF LifeInv, LoopInv
<1>2. /\ DLIST_EMPTY(k.wq, JoinQueue[u]) /\ ctx' = InThread
      /\ pc' = [pc EXCEPT ![t] = User]
      /\ k' = IF u = t THEN z_scheduler(k) ELSE k
  BY <1>1 DEF k_thread_abort_end, Draining
<1>3. Waiting(k, JoinQueue[u]) = {}
  BY Zenon, <1>1, <1>2, JoinQueueType, NobodyWaits DEF LifeInv, KernelOK
<1>4. /\ KernelOK(k', Sleepers) /\ CurrentOK(k')
      /\ k'.state = k.state /\ k'.on = k.on
  <2>1. CASE u = t
    <3> DEFINE r == z_scheduler(k)
    <3>1. KernelOK(r, Sleepers) /\ CurrentOK(r) /\ r.state = k.state /\ r.on = k.on
      BY Zenon, SwitchOK DEF LifeInv
    <3> HIDE DEF r
    <3>2. k' = r
      BY Zenon, <1>2, <2>1 DEF r
    <3> QED BY Zenon, <3>1, <3>2
  <2>2. CASE u # t
    BY Zenon, <1>1, <1>2, <2>2 DEF LifeInv
  <2> QED BY Zenon, <2>1, <2>2
<1>5. t \in Threads
  BY Zenon, <1>1
<1> HIDE DEF t
<1>6. LoopInv'
  BY Zenon, <1>2, <1>4 DEF LoopInv
<1>7. pc' \in [Threads -> Calls] /\ pc'[t] = User /\ \A v \in Threads \ {t} : pc'[v] = pc[v]
  BY Zenon, <1>2, <1>5, OneCall, UserCall DEF LifeInv
<1>8. TestInv'
  <2>1. ASSUME NEW v \in Threads
        PROVE  /\ pc'[v].call = "start" => /\ <<v, pc'[v].target>> \in StartPairs
                                           /\ k'.state[pc'[v].target] = "STOPPED"
               /\ pc'[v].call = "abort" => /\ <<v, pc'[v].target>> \in AbortPairs
                                           /\ k'.state[pc'[v].target] # "STOPPED"
    <3>1. CASE v = t
      BY Zenon, <1>7, <3>1, UserCall
    <3>2. CASE v # t
      <4>1. /\ pc[v].call = "start" => /\ <<v, pc[v].target>> \in StartPairs
                                       /\ k.state[pc[v].target] = "STOPPED"
            /\ pc[v].call = "abort" =>
                 /\ <<v, pc[v].target>> \in AbortPairs
                 /\ k.state[pc[v].target] = "STOPPED" => k.current = v
        BY Zenon DEF LifeInv, TestInv
      <4>2. pc'[v] = pc[v]
        BY Zenon, <1>7, <3>2
      <4> QED BY Zenon, <1>4, <3>2, <4>1, <4>2 DEF t
    <3> QED BY Zenon, <3>1, <3>2
  <2> QED BY Zenon, <2>1, TestKept
<1>9. JoinInv'
  <2>1. \A q : Waiting(k', q) = Waiting(k, q)
    BY Zenon, <1>4 DEF Waiting
  <2>2. ASSUME NEW v \in Threads, k.state[v] = "STOPPED", Waiting(k, JoinQueue[v]) # {}
        PROVE  FALSE
    <3>1. Draining(v)
      BY Zenon, <2>2 DEF LifeInv, JoinInv
    <3>2. v = u
      BY <1>1, <3>1, JoinQueueType DEF Draining
    <3> QED BY Zenon, <1>3, <2>2, <3>2
  <2> QED BY Zenon, <1>4, <2>1, <2>2 DEF LifeInv, JoinInv
<1> QED BY Zenon, <1>4, <1>6, <1>7, <1>8, <1>9 DEF LifeInv

-------------------------------------------------------------------------------
(* The theorems *)

LEMMA InitLife == Init => LifeInv
<1> SUFFICES ASSUME Init PROVE LifeInv
  BY Zenon
<1>1. /\ KernelOK(k, Sleepers) /\ CurrentOK(k) /\ ctx = InThread
      /\ k.on = [t \in Threads |-> NULL]
  BY Zenon, SleepersType, InitKernel DEF Init
<1>2. pc \in [Threads -> Calls] /\ \A t \in Threads : pc[t] = User
  BY Zenon, UserCall DEF Init
<1>3. LoopInv
  BY Zenon, <1>1 DEF LoopInv
<1>4. TestInv
  BY Zenon, <1>2, UserCall DEF TestInv
<1>5. \A u \in Threads : Waiting(k, JoinQueue[u]) = {}
  BY Zenon, <1>1, JoinQueueType, Disjoint DEF Waiting
<1>6. JoinInv
  BY Zenon, <1>1, <1>5 DEF JoinInv
<1> QED BY Zenon, <1>1, <1>2, <1>3, <1>4, <1>6 DEF LifeInv

LEMMA StepLife ==
  ASSUME Discipline
  PROVE  LifeInv /\ [Next]_vars => LifeInv'
<1> SUFFICES ASSUME LifeInv, [Next]_vars PROVE LifeInv'
  BY Zenon
<1>1. ASSUME NEW t \in Threads, Thread(t) PROVE LifeInv'
  <2>1. CASE Free(t) /\ k_yield(t) /\ UNCHANGED pc
    BY Zenon, <2>1, SwitchStep DEF k_yield, Running
  <2>2. CASE /\ t \in Sleepers /\ UNCHANGED pc
             /\ \E n \in Timeouts \ {K_FOREVER} : k_sleep(t, n)
    <3>1. \A n \in Timeouts \ {K_FOREVER} : n \in Nat
      BY SchedulerAssumption DEF Timeouts
    <3> QED BY Zenon, <2>2, <3>1, SleepStep
  <2>3. CASE (k_sched_lock(t) \/ k_sched_unlock(t)) /\ UNCHANGED pc
    BY Zenon, <2>3, LockStep
  <2>4. CASE k_thread_start(t)
    BY Zenon, <2>4, StartStep
  <2>5. CASE k_thread_abort(t)
    BY <2>5, AbortStep
  <2>6. CASE k_thread_join_return(t)
    BY Zenon, <2>6, JoinReturnStep
  <2>7. ASSUME NEW u \in Threads, k_thread_start_test(t, u) \/ k_thread_abort_test(t, u)
        PROVE  LifeInv'
    BY Zenon, <2>7, TestStep
  <2>8. ASSUME NEW u \in Threads, NEW n \in Timeouts, k_thread_join(t, u, n)
        PROVE  LifeInv'
    BY Zenon, <2>8, JoinStep
  <2>9. ASSUME NEW u \in Threads, NEW prio \in {"COOP", "PREEMPT"},
               k_thread_create(t, u, prio)
        PROVE  LifeInv'
    BY Zenon, <2>9, CreateStep
  <2>10. ASSUME NEW u \in Threads, NEW prio \in {"COOP", "PREEMPT"},
                k_thread_set_priority(t, u, prio)
         PROVE  LifeInv'
    BY <2>10, PriorityStep
  <2> QED BY Zenon, <1>1, <2>1, <2>2, <2>3, <2>4, <2>5, <2>6, <2>7, <2>8, <2>9, <2>10 DEF Thread
<1>2. CASE DrainStep /\ UNCHANGED pc
  BY Zenon, <1>2, DrainOne
<1>3. CASE k_thread_abort_end
  BY Zenon, <1>3, AbortEndStep
<1>4. CASE Interrupt
  BY <1>4, InterruptStep
<1>5. CASE UNCHANGED vars
  BY Zenon, <1>5, Stutter
<1> QED BY Zenon, <1>1, <1>2, <1>3, <1>4, <1>5 DEF Next

\* The inductive invariant holds in every reachable state of a program that obeys
\* the discipline: in particular the tests that k_thread_start and k_thread_abort
\* make with the interrupts enabled still hold when the calls take their effect.
THEOREM LifeInvariant ==
  ASSUME Discipline
  PROVE  Spec => []LifeInv
<1>1. Init => LifeInv
  BY Zenon, InitLife
<1>2. LifeInv /\ [Next]_vars => LifeInv'
  BY Zenon, StepLife
<1> QED BY <1>1, <1>2, PTL DEF Spec

\* Type correctness: in particular ready_count never overflows its uint8_t when
\* threads are started, stopped, created and started again.
THEOREM SchedulerTypes ==
  ASSUME Discipline
  PROVE  Spec => []TypeOK
<1>1. LifeInv => TypeOK
  <2> SUFFICES ASSUME LifeInv PROVE TypeOK
    BY Zenon
  <2>1. k \in KernelStates /\ IdleOK(k)
    BY Zenon DEF LifeInv, KernelOK
  <2>2. ctx \in [in : {"thread", "sched_enter", "drain", "cancel"}, q : Queues \cup {NULL}]
    <3>1. \/ ctx \in {InThread, [in |-> "sched_enter", q |-> NULL]}
          \/ \E u \in Threads : Draining(u)
      BY Zenon DEF LifeInv, LoopInv
    <3> QED BY <3>1, JoinQueueType DEF InThread, Draining
  <2>3. pc \in [Threads -> Calls]
    BY Zenon DEF LifeInv
  <2> QED BY Zenon, <2>1, <2>2, <2>3 DEF TypeOK, KernelTypeOK, Calls
<1> QED BY <1>1, LifeInvariant, PTL

\* Starting, stopping, joining and sleeping keep the run queue: one circular list
\* of exactly the READY threads, counted by ready_count, whose first is current.
THEOREM RunQueueKept ==
  ASSUME Discipline
  PROVE  Spec => [](RunQueueInv /\ CurrentInv)
<1>1. LifeInv => RunQueueInv /\ CurrentInv
  BY Zenon, OutsideLoop DEF LifeInv, KernelOK, RunQueueInv, CurrentInv
<1> QED BY <1>1, LifeInvariant, PTL

\* A join queue is one circular list of its head and exactly the threads that join,
\* and the timeouts queue holds exactly the threads with a scheduled wake-up: an
\* aborted thread leaves nothing behind in either.
THEOREM JoinQueuesKept ==
  ASSUME Discipline
  PROVE  Spec => [](WaitQueueInv /\ TimeoutsInv)
<1>1. LifeInv => WaitQueueInv /\ TimeoutsInv
  BY Zenon DEF LifeInv, KernelOK, WaitQueueInv, TimeoutsInv
<1> QED BY <1>1, LifeInvariant, PTL

\* No thread waits for a thread that has already stopped.
THEOREM NoJoinLost ==
  ASSUME Discipline
  PROVE  Spec => []NoLostJoin
<1>1. LifeInv => NoLostJoin
  BY Zenon, OutsideLoop DEF LifeInv, JoinInv, NoLostJoin
<1> QED BY <1>1, LifeInvariant, PTL

==============================================================================
