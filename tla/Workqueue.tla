------------------------------ MODULE Workqueue ------------------------------
(***************************************************************************)
(* The work queue and its delayable works (workqueue.c), on the fifo and   *)
(* the events: a thread, WORKER, that takes the works from a fifo and runs *)
(* their handlers.  The threads, the handlers and the interrupts submit    *)
(* the works; a delayable work is submitted by its event, in the tick      *)
(* interrupt.  The work and the event of a delayable have the same name.   *)
(***************************************************************************)
EXTENDS Fifo, Events

CONSTANTS
  WORKER,         \* the thread of the work queue
  Delayables,     \* the delayable works
  Careful         \* see Submits

ASSUME WorkqueueAssumption == /\ WORKER \in AutoStart
                              /\ Delayables = Nodes \cap Events
                              /\ Careful \in BOOLEAN

VARIABLES
  pc,             \* where WORKER is in z_workqueue_entry: "get", "got", "run"
  work,           \* its variable of this name
  yieldeach,      \* Z_WQ_YIELDEACH_MSK is set in workqueue.flags
  pending         \* the works submitted whose handler has not started yet (history)

workVars == <<pc, work, yieldeach, pending>>
vars == <<k, ctx, swap_data, fifoVars, timersVars, eventsVars, workVars>>

Init == /\ KernelInit
        /\ swap_data = [t \in Threads |-> NULL]
        /\ FifoInit /\ TimersInit /\ EventsInit
        /\ next = [i \in Nodes |-> NULL]
        /\ pc = "get" /\ work = NULL /\ yieldeach = FALSE /\ pending = {}

-------------------------------------------------------------------------------
(* The thread of the work queue: z_workqueue_entry *)

WorkerGet ==
  /\ pc = "get"
  /\ k_fifo_get(WORKER, K_FOREVER)
  /\ work' = queue.head
  /\ pc' = IF queue.head = NULL THEN "get" ELSE "got"
  /\ UNCHANGED <<timersVars, eventsVars, yieldeach, pending>>

WorkerGets ==
  /\ k_fifo_get_return(WORKER)
  /\ work' = swap_data[WORKER]
  /\ pc' = "got"
  /\ UNCHANGED <<timersVars, eventsVars, yieldeach, pending>>

\* The work is marked as submittable, and its handler starts.
WorkerStarts ==
  /\ Running(WORKER) /\ pc = "got"
  /\ next' = [next EXCEPT ![work] = NULL]
  /\ pc' = "run"
  /\ pending' = pending \ {work}
  /\ UNCHANGED <<k, ctx, swap_data, queue, order, timersVars, eventsVars, work,
                 yieldeach>>

\* The handler returns.
WorkerEnds ==
  /\ Running(WORKER) /\ pc = "run"
  /\ k' = IF yieldeach THEN z_scheduler(k) ELSE k
  /\ pc' = "get" /\ work' = NULL
  /\ UNCHANGED <<ctx, swap_data, fifoVars, timersVars, eventsVars, yieldeach,
                 pending>>

z_workqueue_entry == WorkerGet \/ WorkerGets \/ WorkerStarts \/ WorkerEnds

-------------------------------------------------------------------------------
(* The services *)

\* A caller: application code in a thread or an interrupt, or a work handler.
App(c) == Calls(c) /\ (c = WORKER => pc = "run")

\* A test that takes every work for submittable.
z_work_submittable_Always(i) == TRUE

z_work_submittable(i) == next[i] = NULL

\* The callers that are Careful do not submit a work in the only case in which
\* z_work_submittable is wrong about it: it is the last one of the fifo, or it has
\* been taken out of it and is about to be marked as submittable.
Submits(c, i) == App(c) /\ (Careful /\ i \in pending => next[i] # NULL)

z_work_submit(i) == z_fifo_put(i) /\ pending' = pending \cup {i}

k_work_submit(c, i) ==
  /\ Submits(c, i)
  /\ IF z_work_submittable(i) THEN z_work_submit(i)
     ELSE UNCHANGED <<k, swap_data, fifoVars, pending>>
  /\ UNCHANGED <<ctx, timersVars, eventsVars, pc, work, yieldeach>>

SetYieldEach(c, value) ==
  /\ App(c)
  /\ yieldeach' = value
  /\ UNCHANGED <<k, ctx, swap_data, fifoVars, timersVars, eventsVars, pc, work,
                 pending>>

k_workqueue_enable_yieldeach(c)  == SetYieldEach(c, TRUE)
k_workqueue_disable_yieldeach(c) == SetYieldEach(c, FALSE)

z_work_delayable_schedule(d, n) ==
  IF n = K_NO_WAIT
    THEN z_work_submit(d) /\ UNCHANGED eventsVars
    ELSE z_event_schedule(d, n) /\ UNCHANGED <<k, swap_data, fifoVars, pending>>

\* k_work_delayable_schedule that only looks at the event.
k_work_delayable_schedule_EventOnly(c, d, n) ==
  /\ Submits(c, d)
  /\ d \notin scheduled
  /\ z_work_delayable_schedule(d, n)
  /\ UNCHANGED <<ctx, timersVars, pc, work, yieldeach>>

\* Otherwise -EBUSY.
k_work_delayable_schedule(c, d, n) ==
  /\ Submits(c, d)
  /\ d \notin scheduled /\ z_work_submittable(d)
  /\ z_work_delayable_schedule(d, n)
  /\ UNCHANGED <<ctx, timersVars, pc, work, yieldeach>>

k_work_delayable_reschedule(c, d, n) ==
  /\ Submits(c, d)
  /\ z_work_submittable(d)
  /\ IF d \in scheduled
       THEN z_event_reschedule(d, n) /\ UNCHANGED <<k, swap_data, fifoVars, pending>>
       ELSE z_work_delayable_schedule(d, n)
  /\ UNCHANGED <<ctx, timersVars, pc, work, yieldeach>>

\* What follows k_event_cancel only chooses the error code.
k_work_delayable_cancel(c, d) ==
  /\ App(c)
  /\ k_event_cancel(c, d)
  /\ UNCHANGED <<swap_data, fifoVars, timersVars, workVars>>

\* z_event_q_process on the event of a delayable work.
z_delayable_work_trigger(d) ==
  /\ EventFires(d, 0)
  /\ z_work_submit(d)
  /\ UNCHANGED <<timersVars, pc, work, yieldeach>>

-------------------------------------------------------------------------------
OnWorks ==
  \E c \in Callers :
    \/ \E i \in Nodes \ Delayables : k_work_submit(c, i)
    \/ k_workqueue_enable_yieldeach(c) \/ k_workqueue_disable_yieldeach(c)
    \/ \E d \in Delayables :
         \/ \E n \in 0 .. MAX_TIMEOUT : \/ k_work_delayable_schedule(c, d, n)
                                        \/ k_work_delayable_reschedule(c, d, n)
         \/ k_work_delayable_cancel(c, d)

OnEvents ==
  /\ UNCHANGED <<swap_data, fifoVars, timersVars, workVars>>
  /\ \E c \in Callers, e \in Events \ Delayables :
       /\ App(c)
       /\ k_event_cancel(c, e) \/ \E n \in 0 .. MAX_TIMEOUT : k_event_schedule(c, e, n)

OnTimers ==
  /\ UNCHANGED <<swap_data, fifoVars, eventsVars, workVars>>
  /\ \E t \in Threads \ {WORKER} :
       \/ \E i \in Timers :
            \/ \E n \in 0 .. MAX_TIMEOUT :
                 t \in Starters /\ (k_timer_init(t, i, n) \/ k_timer_start(t, i, n))
            \/ k_timer_stop(t, i)
       \/ k_timer_start_end(t) \/ k_timer_stop_end(t)

\* The handler of an event of the application.
EventHandler ==
  /\ \E e \in Events \ Delayables, n \in 0 .. MAX_TIMEOUT : EventFires(e, n)
  /\ UNCHANGED <<k, swap_data, fifoVars, timersVars, workVars>>

z_sched_enter ==
  /\ UNCHANGED <<swap_data, fifoVars, workVars>>
  /\ \/ SysTick /\ UNCHANGED <<timersVars, eventsVars>>
     \/ z_timers_process /\ UNCHANGED eventsVars
     \/ \E ends \in BOOLEAN : TimerFires(ends) /\ UNCHANGED eventsVars
     \/ z_event_q_process /\ UNCHANGED timersVars
     \/ SchedExit /\ UNCHANGED <<timersVars, eventsVars>>

Systick == \/ z_sched_enter \/ EventHandler
           \/ \E d \in Delayables : z_delayable_work_trigger(d)

Yields == /\ \E t \in Threads \ {WORKER} : k_yield(t)
          /\ UNCHANGED <<swap_data, fifoVars, timersVars, eventsVars, workVars>>

Next == z_workqueue_entry \/ OnWorks \/ OnEvents \/ OnTimers \/ Systick \/ Yields

\* The ticks come and their handlers end; a time slice is longer than a step, so
\* the work queue thread, however often it is preempted, makes the next one.
Spec == /\ Init /\ [][Next]_vars
        /\ WF_vars(Systick)
        /\ SF_vars(z_workqueue_entry)

-------------------------------------------------------------------------------
\* The places in which the work queue has the work i.
Places(i) ==
  LET list == Reached(next, queue.head)
  IN  {<<"fifo", n>> : n \in {n \in DOMAIN list : list[n] = i}}
      \cup {<<"swap", t>> : t \in {t \in HandedOver(FIFO) : swap_data[t] = i}}
      \cup (IF pc = "got" /\ work = i THEN {<<"work", 1>>} ELSE {})

\* A work that was submitted and did not start is in exactly one place, a work
\* that started and was not submitted again in none: no submission is lost and
\* none is run twice, although the fifo of works, the hand-over to WORKER and the
\* mark of z_work_submittable all go through the next field of the work.
NoWorkLost ==
  \A i \in Nodes : Cardinality(Places(i)) = IF i \in pending THEN 1 ELSE 0

\* A delayable work is waiting for its event or in the work queue, never both: the
\* trigger of its event, which does not test, never submits a submitted work.
DelayedOnce == scheduled \cap pending = {}

\* Every submitted work starts, however the other works, the ticks and the threads
\* interleave.
WorkStarts == \A i \in Nodes : i \in pending ~> i \notin pending
===============================================================================
