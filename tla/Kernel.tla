-------------------------------- MODULE Kernel --------------------------------
(***************************************************************************)
(* The AVRTOS kernel: run queue, timeouts queue, wait queues and the       *)
(* thread switch (kernel.c, arch/thread_switch_preempt.S).                 *)
(*                                                                         *)
(* AVRTOS runs on one core.  A kernel service runs with the interrupts     *)
(* disabled from its first access to shared state to its last, so it is    *)
(* one step, unless it has a loop (one step per iteration, with ctx saying *)
(* which loop is running and every other action disabled) or reads shared  *)
(* state before it disables the interrupts (a step of its own).            *)
(*                                                                         *)
(* The whole kernel state is one record k.  The C functions of the kernel  *)
(* are operators from kernel states to kernel states, with their C names;  *)
(* the objects built on the kernel (join, semaphores, mutexes, ...) use    *)
(* the same operators and add their own variables.                         *)
(*                                                                         *)
(*   state       thread state (STOPPED, READY, PENDING; IDLE for the idle  *)
(*               thread)                                                   *)
(*   expired, canceled, wakeup, coop, locked                               *)
(*               the threads whose flags have Z_THREAD_TIMER_EXPIRED,      *)
(*               PEND_CANCELED, WAKEUP_SCHED, PRIO_COOP, SCHED_LOCKED      *)
(*   rq          the thread.tie.runqueue nodes                             *)
(*   ready_count, run_queue, current     fields of z_ker                   *)
(*   slice       z_ker.sched_ticks_remaining                               *)
(*   timeouts    z_ker.timeouts_queue (see TimeoutList)                    *)
(*   wq          the wait queue heads and the thread.wqhandle.tie nodes    *)
(*   on          the wait queue of the z_pend_current_on() call that the   *)
(*               thread has not returned from (NULL: none)                 *)
(***************************************************************************)
EXTENDS Dlist, Slist, TimeoutList, Integers

CONSTANTS
  Threads,        \* the threads, main included
  Idle,           \* z_thread_idle
  Queues,         \* the heads of the wait queues
  K_FOREVER,
  Main,           \* z_thread_main
  AutoStart,      \* the threads that are READY when the system starts
  Cooperative,    \* the threads that start with priority K_COOPERATIVE
  SLICE           \* Z_KERNEL_TIME_SLICE_TICKS

ASSUME KernelAssumption ==
  /\ IsFiniteSet(Threads)
  /\ Cardinality(Threads) <= 255       \* ready_count is a uint8_t
  /\ Idle \notin Threads
  /\ NULL \notin Threads \cup Queues \cup {Idle}
  /\ Queues \cap (Threads \cup {Idle}) = {}
  /\ Main \in AutoStart
  /\ AutoStart \subseteq Threads
  /\ Cooperative \subseteq Threads
  /\ SLICE \in Nat \ {0}
  /\ K_FOREVER \notin Nat

VARIABLES
  k,              \* the kernel state
  ctx             \* [in, q]: what the CPU executes, see below

K_NO_WAIT == 0

(***************************************************************************)
(* ctx.in is "thread" outside of the loops of the kernel, "sched_enter"    *)
(* in the loop of z_sched_enter(), "drain" and "cancel" in the loops that  *)
(* wake up all the threads of the wait queue ctx.q.  Interrupts are        *)
(* disabled in the loops.                                                  *)
(***************************************************************************)
InThread == [in |-> "thread", q |-> NULL]

-------------------------------------------------------------------------------
(* Run queue *)

\* z_schedule that does not count a thread it adds to a non-empty run queue.
z_schedule_NoCount(s, t) ==
  LET empty == s.ready_count = 0
  IN  [s EXCEPT !.state = [@ EXCEPT ![t] = "READY"],
                !.ready_count = IF empty THEN 1 ELSE @,
                !.rq = IF empty THEN dlist_init(@, t)
                                ELSE dlist_prepend(@, s.run_queue, t),
                !.run_queue = IF empty THEN t ELSE @]

z_schedule(s, t) ==
  LET empty == s.ready_count = 0
  IN  [s EXCEPT !.state = [@ EXCEPT ![t] = "READY"],
                !.ready_count = (@ + 1) % 256,
                !.rq = IF empty THEN dlist_init(@, t)
                                ELSE dlist_prepend(@, s.run_queue, t),
                !.run_queue = IF empty THEN t ELSE @]

\* z_scheduler that rotates the run queue whatever the previous thread did.
z_scheduler_AlwaysRotates(s) ==
  LET next == s.rq.next[s.run_queue]
  IN  [s EXCEPT !.expired = @ \ {s.current}, !.canceled = @ \ {s.current},
                !.run_queue = next, !.current = next]

z_scheduler(s) ==
  LET prev  == s.current
      first == IF s.state[prev] = "READY" THEN s.rq.next[s.run_queue]
                                          ELSE s.run_queue
  IN  [s EXCEPT !.expired = @ \ {prev}, !.canceled = @ \ {prev},
                !.run_queue = first, !.current = first]

z_cancel_scheduled_wake_up(s, t) ==
  IF t \in s.wakeup
    THEN [s EXCEPT !.wakeup = @ \ {t}, !.timeouts = Without(@, t)]
    ELSE s

\* z_suspend that takes the successor as the new first thread although the
\* removed thread was alone.
z_suspend_NoIdle(s, t) ==
  IF s.state[t] = "PENDING"
    THEN z_cancel_scheduled_wake_up(s, t)
    ELSE LET d == dlist_remove(s.rq, t)
         IN  [s EXCEPT !.rq = d, !.ready_count = (@ - 1) % 256,
                !.run_queue = IF t = s.current THEN d.prev[d.next[t]] ELSE @]

z_suspend(s, t) ==
  IF s.state[t] = "PENDING"
    THEN z_cancel_scheduled_wake_up(s, t)
    ELSE LET d     == dlist_remove(s.rq, t)
             count == (s.ready_count - 1) % 256
         IN  [s EXCEPT !.rq = d, !.ready_count = count,
                !.run_queue = IF count = 0 THEN Idle
                              ELSE IF t = s.current THEN d.prev[d.next[t]]
                              ELSE @]

\* thread.tie is a union: the timeout item overwrites the run queue node.
z_schedule_wake_up(s, timeout) ==
  LET t == s.current
  IN  IF timeout = K_FOREVER
        THEN s
        ELSE [s EXCEPT !.wakeup = @ \cup {t},
                       !.rq = SetPrev(SetNext(@, t, NULL), t, NULL),
                       !.timeouts = Schedule(@, t, timeout)]

-------------------------------------------------------------------------------
(* Pending and waking up *)

\* z_pend_current, from the call to the switch to the next thread.
z_pend_current(s, timeout) ==
  LET t == s.current
      r == z_schedule_wake_up(z_suspend(s, t), timeout)
  IN  z_scheduler([r EXCEPT !.state = [@ EXCEPT ![t] = "PENDING"]])

\* z_pend_current_on, from the call to the switch; with K_NO_WAIT it returns
\* -EAGAIN at once.
z_pend_current_on(s, q, timeout) ==
  IF timeout = K_NO_WAIT
    THEN s
    ELSE z_pend_current([s EXCEPT !.wq = dlist_append(@, q, s.current),
                                  !.on = [@ EXCEPT ![s.current] = q]],
                        timeout)

\* What z_pend_current_on returns to the thread once it runs again ...
PendResult(s, t) == IF t \in s.expired THEN "ETIMEDOUT"
                    ELSE IF t \in s.canceled THEN "ECANCELED"
                    ELSE "OK"

\* ... and the state in which it returns.
Returned(s, t) == [s EXCEPT !.on = [@ EXCEPT ![t] = NULL]]

\* z_wake_up that forgets the scheduled wake-up.
z_wake_up_KeepsTimeout(s, t) == z_schedule(s, t)

z_wake_up(s, t) == z_schedule(z_cancel_scheduled_wake_up(s, t), t)

\* The thread that z_unpend_first_thread returns: NULL when none waits.
FirstPending(s, q) == IF DLIST_EMPTY(s.wq, q) THEN NULL ELSE s.wq.next[q]

\* z_unpend_first_thread that wakes the last thread of the wait queue.
z_unpend_first_thread_Last(s, q) ==
  IF DLIST_EMPTY(s.wq, q)
    THEN s
    ELSE LET t == s.wq.prev[q]
         IN  z_wake_up([s EXCEPT !.wq = dlist_init(dlist_remove(@, t), t)], t)

\* CONFIG_POLLING == 0: the nodes of a wait queue are thread.wqhandle.
z_unpend_first_thread(s, q) ==
  IF DLIST_EMPTY(s.wq, q)
    THEN s
    ELSE LET t == s.wq.next[q]
         IN  z_wake_up([s EXCEPT !.wq = dlist_init(dlist_remove(@, t), t)], t)

z_cancel_first_pending(s, q) ==
  IF DLIST_EMPTY(s.wq, q)
    THEN s
    ELSE [z_unpend_first_thread(s, q) EXCEPT !.canceled = @ \cup {s.wq.next[q]}]

\* Expire that leaves the thread marked as having a scheduled wake-up.
Expire_KeepsFlag(s) ==
  LET t == s.timeouts[1].item
  IN  z_schedule([s EXCEPT !.timeouts = Tail(@),
                           !.expired = @ \cup {t},
                           !.wq = dlist_remove(@, t)], t)

\* One iteration of the loop of z_sched_enter on a thread whose time is up.
Expire(s) ==
  LET t == s.timeouts[1].item
  IN  z_schedule([s EXCEPT !.timeouts = Tail(@),
                           !.expired = @ \cup {t},
                           !.wakeup = @ \ {t},
                           !.wq = dlist_remove(@, t)], t)

-------------------------------------------------------------------------------
(* The CPU *)

\* The thread t executes application code.
Running(t) == /\ t \in Threads
              /\ k.current = t
              /\ k.on[t] = NULL
              /\ ctx = InThread

\* The thread t is about to return from z_pend_current_on, with the
\* interrupts still disabled.
Returning(t) == /\ t \in Threads
                /\ k.current = t
                /\ k.on[t] # NULL
                /\ ctx = InThread

InterruptsEnabled == /\ ctx = InThread
                     /\ k.current \in Threads => k.on[k.current] = NULL

\* Neither a cooperative thread nor one that locked the scheduler.
Preemptible(s) == s.current \notin s.coop \cup s.locked

\* The tick interrupt up to the loop of z_sched_enter: the kernel is only
\* entered when the time slice is over.
SysTick ==
  /\ InterruptsEnabled
  /\ IF k.slice > 1
       THEN /\ k' = [k EXCEPT !.slice = @ - 1]
            /\ UNCHANGED ctx
       ELSE /\ k' = [k EXCEPT !.timeouts = Shift(@, SLICE), !.slice = SLICE]
            /\ ctx' = [in |-> "sched_enter", q |-> NULL]

SchedEnterExpire ==
  /\ ctx.in = "sched_enter"
  /\ HasExpired(k.timeouts)
  /\ k' = Expire(k)
  /\ UNCHANGED ctx

\* The end of z_sched_enter and of the tick interrupt: the current thread is
\* preempted if it may be.
SchedEnterExit ==
  /\ ctx.in = "sched_enter"
  /\ ~ HasExpired(k.timeouts)
  /\ k' = IF Preemptible(k) THEN z_scheduler(k) ELSE k
  /\ ctx' = InThread

\* The loops that wake up the threads of a wait queue one by one.
DrainStep ==
  /\ ctx.in = "drain"
  /\ ~ DLIST_EMPTY(k.wq, ctx.q)
  /\ k' = z_unpend_first_thread(k, ctx.q)
  /\ UNCHANGED ctx

CancelStep ==
  /\ ctx.in = "cancel"
  /\ ~ DLIST_EMPTY(k.wq, ctx.q)
  /\ k' = z_cancel_first_pending(k, ctx.q)
  /\ UNCHANGED ctx

Tick == SysTick \/ SchedEnterExpire \/ SchedEnterExit

-------------------------------------------------------------------------------
(* The services every thread has *)

k_yield(t) ==
  /\ Running(t)
  /\ k' = z_scheduler(k)
  /\ UNCHANGED ctx

\* An interrupt handler that ends with k_yield_from_isr().
k_yield_from_isr ==
  /\ InterruptsEnabled
  /\ Preemptible(k)
  /\ k' = z_scheduler(k)
  /\ UNCHANGED ctx

k_sleep(t, timeout) ==
  /\ Running(t)
  /\ k' = z_pend_current(k, timeout)
  /\ UNCHANGED ctx

k_sched_lock(t) ==
  /\ Running(t)
  /\ k' = [k EXCEPT !.locked = @ \cup {t}]
  /\ UNCHANGED ctx

k_sched_unlock(t) ==
  /\ Running(t)
  /\ k' = [k EXCEPT !.locked = @ \ {t}]
  /\ UNCHANGED ctx

-------------------------------------------------------------------------------
(* The state after z_init_threads *)

\* The run queue is one circular list of the AutoStart threads, main first and
\* the others in the order in which the linker placed them.
KernelInit ==
  /\ \E next, prev \in [AutoStart -> AutoStart] :
       LET Node(f, t) == IF t \in AutoStart THEN f[t] ELSE NULL
           rq == [next |-> [t \in Threads \cup {Idle, NULL} |-> Node(next, t)],
                  prev |-> [t \in Threads \cup {Idle, NULL} |-> Node(prev, t)]]
       IN
       /\ Ring(rq, AutoStart)
       /\ k = [state |-> [t \in Threads \cup {Idle} |->
                            IF t = Idle THEN "IDLE"
                            ELSE IF t \in AutoStart THEN "READY"
                            ELSE "STOPPED"],
               expired |-> {}, canceled |-> {}, wakeup |-> {},
               coop |-> Cooperative, locked |-> {},
               rq |-> rq,
               ready_count |-> Cardinality(AutoStart),
               run_queue |-> Main, current |-> Main,
               slice |-> SLICE,
               timeouts |-> <<>>,
               wq |-> [next |-> [x \in Threads \cup Queues \cup {NULL} |->
                                   IF x \in Queues THEN x ELSE NULL],
                       prev |-> [x \in Threads \cup Queues \cup {NULL} |->
                                   IF x \in Queues THEN x ELSE NULL]],
               on |-> [t \in Threads |-> NULL]]
  /\ ctx = InThread

-------------------------------------------------------------------------------
(* The invariants of the kernel state, shared by all the modules *)

Ready(s) == {t \in Threads : s.state[t] = "READY"}

Waiting(s, q) == {t \in Threads : s.state[t] = "PENDING" /\ s.on[t] = q}

\* The threads in the wait queue q, from the head.
Line(s, q) == [i \in 1 .. Cardinality(Waiting(s, q)) |-> Hop(s.wq, q, i)]

ThreadStates ==
  [Threads \cup {Idle} -> {"STOPPED", "READY", "PENDING", "IDLE"}]

TimeoutLists == Seq([item : Threads, left : Nat])

KernelStates ==
  [state       : ThreadStates,
   expired     : SUBSET Threads,
   canceled    : SUBSET Threads,
   wakeup      : SUBSET Threads,
   coop        : SUBSET Threads,
   locked      : SUBSET Threads,
   rq          : Structures(Threads \cup {Idle, NULL}),
   ready_count : 0 .. 255,
   run_queue   : Threads \cup {Idle},
   current     : Threads \cup {Idle},
   slice       : 1 .. SLICE,
   timeouts    : TimeoutLists,
   wq          : Structures(Threads \cup Queues \cup {NULL}),
   on          : [Threads -> Queues \cup {NULL}]]

IdleOK(s) == \A t \in Threads \cup {Idle} : s.state[t] = "IDLE" <=> t = Idle

KernelTypeOK ==
  /\ k \in KernelStates
  /\ IdleOK(k)
  /\ ctx \in [in : {"thread", "sched_enter", "drain", "cancel"},
              q : Queues \cup {NULL}]

\* The run queue: the READY threads, all of them and no other, are one circular
\* list, ready_count counts them, and run_queue points to one of them, or
\* to the idle thread when there is none.  A thread lost from the run queue
\* never runs again; a thread left in it after it pended or stopped runs in the
\* middle of its wait.
RunQueueOK(s) ==
  /\ Ring(s.rq, Ready(s))
  /\ s.ready_count = Cardinality(Ready(s))
  /\ IF Ready(s) = {} THEN s.run_queue = Idle ELSE s.run_queue \in Ready(s)

RunQueueInv == RunQueueOK(k)

\* Outside of the loops of the kernel the CPU executes the first thread of the
\* run queue, or the idle thread: never a thread that pended or was stopped.
CurrentOK(s) == \/ s.current = Idle
                \/ s.current \in Ready(s) /\ s.run_queue = s.current

CurrentInv == ctx = InThread => CurrentOK(k)

\* A wait queue is one circular list of its head and exactly the threads pending
\* on it, whichever of timeout, wake-up, cancel and abort ended the other waits.
WaitQueuesOK(s) == \A q \in Queues : Ring(s.wq, {q} \cup Waiting(s, q))

WaitQueueInv == WaitQueuesOK(k)

\* The timeouts queue holds exactly the threads with a scheduled wake-up, each
\* once, and all of them are pending: no thread is woken twice, or by the
\* timeout of a wait that ended.
TimeoutsOK(s) ==
  /\ Items(s.timeouts) = s.wakeup
  /\ NoRepeat(s.timeouts)
  /\ \A t \in s.wakeup : s.state[t] = "PENDING"

TimeoutsInv == TimeoutsOK(k)

\* z_sched_enter unlinks the wqhandle of every thread whose time is up, the ones
\* that only slept included.  That is harmless as long as the threads in S, which
\* sleep, have a wqhandle without neighbours whenever they are in no wait queue,
\* and are never in the timeouts queue while they are in a wait queue.
LinksOK(s, S) ==
  /\ \A t \in S : (s.state[t] # "PENDING" \/ s.on[t] = NULL) =>
       s.wq.next[t] = s.wq.prev[t] /\ s.wq.next[t] \in {t, NULL}
  /\ \A t \in s.wakeup : t \in S <=> s.on[t] = NULL

\* The inductive invariant of the kernel state.
KernelOK(s, S) == /\ s \in KernelStates
                  /\ IdleOK(s)
                  /\ RunQueueOK(s)
                  /\ WaitQueuesOK(s)
                  /\ TimeoutsOK(s)
                  /\ LinksOK(s, S)
===============================================================================
