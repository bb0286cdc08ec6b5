--------------------------- MODULE WorkqueueProofs ---------------------------
(***************************************************************************)
(* The timers, the events and the works keep their queues and their marks  *)
(* in agreement, and no submitted work is lost, for any number of threads, *)
(* timers, events and works: with one thread that starts timers, and with  *)
(* callers that do not submit a work which z_work_submittable mistakes for *)
(* a free one.                                                             *)
(***************************************************************************)
EXTENDS Workqueue, KernelProofs

OneStarter == \A s, t \in Starters : s = t

Calling == [fn : {"none", "start", "stop"}, timer : Timers \cup {NULL}, delay : Nat]

\* A start that passed its test is that of a timer which is still stopped: only the
\* thread that starts timers could have started it since.
TimersInv ==
  /\ timers \in Lists(Timers)
  /\ stopped \in SUBSET Timers
  /\ call \in [Threads -> Calling]
  /\ \A t \in Threads : call[t].fn # "none" => call[t].timer \in Timers
  /\ \A t \in Threads : call[t].fn = "start" => t \in Starters /\ call[t].timer \in stopped
  /\ TimersOK

EventsInv ==
  /\ events \in Lists(Events)
  /\ scheduled \in SUBSET Events
  /\ EventsOK

WorksInv ==
  /\ scheduled \in SUBSET Events
  /\ pending \in SUBSET Nodes
  /\ DelayedOnce

USE DEF K_NO_WAIT

-------------------------------------------------------------------------------
(* The timers *)

LEMMA TimersInitInv == TimersInit => TimersInv
<1> SUFFICES ASSUME TimersInit PROVE TimersInv
  BY Zenon
<1> DEFINE S == Timers \ stopped
           n == Cardinality(S)
<1>1. n \in Nat
  <2>1. IsFiniteSet(S)
    BY Zenon, TimersAssumption, FS_Subset
  <2> QED BY Zenon, <2>1, FS_CardinalityType
<1>2. PICK perm \in Bijection(1 .. n, S), delay \in [Timers -> 0 .. MAX_TIMEOUT] :
        timers = [i \in DOMAIN perm |-> [item |-> perm[i], left |-> delay[perm[i]]]]
  BY Zenon DEF TimersInit
<1>3. /\ perm \in [1 .. n -> S]
      /\ \A i, j \in 1 .. n : perm[i] = perm[j] => i = j
      /\ \A t \in S : \E i \in 1 .. n : perm[i] = t
  BY Zenon DEF Bijection, Injection, Surjection, IsInjective
<1>4. timers = [i \in 1 .. n |-> [item |-> perm[i], left |-> delay[perm[i]]]]
  BY Zenon, <1>2, <1>3
<1> HIDE DEF n
<1>5. \A i \in 1 .. n : perm[i] \in Timers /\ delay[perm[i]] \in Nat
  <2>1. MAX_TIMEOUT \in Nat
    BY Zenon, WaitersAssumption
  <2>2. \A t \in Timers : delay[t] \in Nat
    BY <2>1
  <2> QED BY Zenon, <1>3, <2>2
<1>6. timers \in Lists(Timers) /\ DOMAIN timers = 1 .. n
  <2>1. timers \in [1 .. n -> [item : Timers, left : Nat]]
    BY Zenon, <1>4, <1>5
  <2>2. \A E : [1 .. n -> E] \in {[1 .. m -> E] : m \in Nat}
    BY Zenon, <1>1
  <2>3. \A E, f : f \in [1 .. n -> E] => f \in Seq(E)
    BY <2>2, SeqDef, Zenon
  <2> QED BY <2>1, <2>3, Zenon DEF Lists
<1>7. \A i \in 1 .. n : timers[i].item = perm[i]
  BY Zenon, <1>4
<1>8. TimersOK
  <2>1. Items(timers) = {timers[i].item : i \in 1 .. n}
    BY Zenon, <1>6 DEF Items
  <2>2. \A t : t \in {timers[i].item : i \in 1 .. n} <=> t \in S
    <3>1. \A i \in 1 .. n : timers[i].item \in S
      BY Zenon, <1>3, <1>7
    <3>2. \A t \in S : \E i \in 1 .. n : timers[i].item = t
      BY Zenon, <1>3, <1>7
    <3> HIDE DEF S
    <3> QED BY Zenon, <3>1, <3>2
  <2>3. Items(timers) = S
    BY Zenon, <2>1, <2>2
  <2>4. NoRepeat(timers)
    <3>1. \A i, j \in 1 .. n : timers[i].item = timers[j].item => i = j
      BY <1>3, <1>7
    <3>2. DOMAIN timers = 1 .. n
      BY Zenon, <1>6
    <3> QED BY ONLY Zenon, <3>1, <3>2 DEF NoRepeat
  <2> QED BY Zenon, <2>3, <2>4 DEF TimersOK
<1>9. stopped \in SUBSET Timers /\ call = [t \in Threads |-> NoCall]
  BY Zenon DEF TimersInit
<1> QED BY Zenon, <1>6, <1>8, <1>9 DEF TimersInv, Calling, NoCall

\* A timer that is not in the queue is put into it.
LEMMA StartItems ==
  ASSUME TimersInv, NEW i \in stopped, NEW delay \in Nat, z_timer_start(i, delay)
  PROVE  timers' \in Lists(Timers) /\ stopped' = stopped \ {i} /\ TimersOK'
<1>1. i \in Timers /\ i \notin Items(timers) /\ NoRepeat(timers) /\ timers \in Lists(Timers)
      /\ stopped \in SUBSET Timers
  BY Zenon DEF TimersInv, TimersOK
<1>2. timers' = Schedule(timers, i, delay) /\ stopped' = stopped \ {i}
  BY Zenon DEF z_timer_start
<1>3. timers' \in Lists(Timers) /\ Items(timers') = Items(timers) \cup {i} /\ NoRepeat(timers')
  BY <1>1, <1>2, ScheduleItems
<1> QED BY Zenon, <1>1, <1>2, <1>3 DEF TimersOK, TimersInv

LEMMA TimerInitInv ==
  ASSUME TimersInv, OneStarter, NEW t \in Starters, NEW i \in Timers, NEW n \in Nat,
         k_timer_init(t, i, n)
  PROVE  TimersInv'
<1>1. t \in Threads /\ i \in stopped /\ call[t] = NoCall /\ call' = call
  BY Zenon, TimersAssumption DEF k_timer_init
<1>2. timers' \in Lists(Timers) /\ stopped' = stopped \ {i} /\ TimersOK'
  BY Zenon, <1>1, StartItems DEF k_timer_init
<1>3. \A u \in Threads : call[u].fn = "start" => FALSE
  BY <1>1 DEF TimersInv, OneStarter, NoCall
<1> QED BY Zenon, <1>1, <1>2, <1>3 DEF TimersInv

LEMMA TimerStartInv ==
  ASSUME TimersInv, NEW t \in Starters, NEW i \in Timers, NEW n \in Nat, k_timer_start(t, i, n)
  PROVE  TimersInv'
<1>1. /\ t \in Threads /\ i \in stopped /\ timers' = timers /\ stopped' = stopped
      /\ call' = [call EXCEPT ![t] = [fn |-> "start", timer |-> i, delay |-> n]]
  BY Zenon, TimersAssumption DEF k_timer_start
<1>2. call' \in [Threads -> Calling]
  BY Zenon, <1>1 DEF TimersInv, Calling
<1>3. \A u \in Threads : call'[u].fn # "none" => call'[u].timer \in Timers
  BY Zenon, <1>1 DEF TimersInv
<1>4. \A u \in Threads : call'[u].fn = "start" => u \in Starters /\ call'[u].timer \in stopped
  BY Zenon, <1>1 DEF TimersInv
<1> QED BY Zenon, <1>1, <1>2, <1>3, <1>4 DEF TimersInv, TimersOK

LEMMA TimerStartEndInv ==
  ASSUME TimersInv, OneStarter, NEW t \in Threads, k_timer_start_end(t)
  PROVE  TimersInv'
<1> DEFINE i == call[t].timer
           n == call[t].delay
<1>1. /\ call[t].fn = "start" /\ i \in stopped /\ n \in Nat /\ t \in Starters
      /\ call' = [call EXCEPT ![t] = NoCall]
  BY Zenon DEF k_timer_start_end, TimersInv, Calling
<1>2. timers' \in Lists(Timers) /\ stopped' = stopped \ {i} /\ TimersOK'
  BY Zenon, <1>1, StartItems DEF k_timer_start_end
<1>3. call' \in [Threads -> Calling]
  BY Zenon, <1>1 DEF TimersInv, Calling, NoCall
<1>4. \A u \in Threads : call'[u].fn # "start"
  BY Zenon, <1>1 DEF TimersInv, OneStarter, NoCall
<1>5. \A u \in Threads : call'[u].fn # "none" => call'[u].timer \in Timers
  BY Zenon, <1>1 DEF TimersInv, NoCall
<1> QED BY Zenon, <1>2, <1>3, <1>4, <1>5 DEF TimersInv

LEMMA TimerStopInv ==
  ASSUME TimersInv, NEW t \in Threads, NEW i \in Timers, k_timer_stop(t, i)
  PROVE  TimersInv'
<1>1. /\ timers' = timers /\ stopped' = stopped
      /\ call' = [call EXCEPT ![t] = [fn |-> "stop", timer |-> i, delay |-> 0]]
  BY Zenon DEF k_timer_stop
<1>2. call' \in [Threads -> Calling]
  BY Zenon, <1>1 DEF TimersInv, Calling
<1>3. \A u \in Threads : call'[u].fn # "none" => call'[u].timer \in Timers
  BY Zenon, <1>1 DEF TimersInv
<1>4. \A u \in Threads : call'[u].fn = "start" => u \in Starters /\ call'[u].timer \in stopped
  BY Zenon, <1>1 DEF TimersInv
<1> QED BY Zenon, <1>1, <1>2, <1>3, <1>4 DEF TimersInv, TimersOK

LEMMA TimerStopEndInv ==
  ASSUME TimersInv, NEW t \in Threads, k_timer_stop_end(t)
  PROVE  TimersInv'
<1> DEFINE i == call[t].timer
<1>1. /\ i \in Timers /\ timers' = Without(timers, i) /\ stopped' = stopped \cup {i}
      /\ call' = [call EXCEPT ![t] = NoCall]
  BY Zenon DEF k_timer_stop_end, TimersInv
<1>2. timers' \in Lists(Timers) /\ Items(timers') = Items(timers) \ {i} /\ NoRepeat(timers')
  BY Zenon, <1>1, WithoutItems DEF TimersInv, TimersOK
<1>3. stopped' \in SUBSET Timers /\ TimersOK'
  BY Zenon, <1>1, <1>2 DEF TimersInv, TimersOK
<1>4. call' \in [Threads -> Calling]
  BY Zenon, <1>1 DEF TimersInv, Calling, NoCall
<1>5. \A u \in Threads : call'[u].fn # "none" => call'[u].timer \in Timers
  BY Zenon, <1>1 DEF TimersInv, NoCall
<1>6. \A u \in Threads : call'[u].fn = "start" => u \in Starters /\ call'[u].timer \in stopped'
  BY Zenon, <1>1 DEF TimersInv, NoCall
<1> QED BY Zenon, <1>2, <1>3, <1>4, <1>5, <1>6 DEF TimersInv

LEMMA TimersProcessInv ==
  ASSUME TimersInv, z_timers_process
  PROVE  TimersInv'
<1>1. timers' = Shift(timers, SLICE) /\ stopped' = stopped /\ call' = call
  BY Zenon DEF z_timers_process
<1>2. timers' \in Lists(Timers) /\ Items(timers') = Items(timers) /\ NoRepeat(timers')
  BY Zenon, <1>1, ShiftItems, KernelAssumption DEF TimersInv, TimersOK
<1> QED BY Zenon, <1>1, <1>2 DEF TimersInv, TimersOK

LEMMA TimerFiresInv ==
  ASSUME TimersInv, NEW ends \in BOOLEAN, TimerFires(ends)
  PROVE  TimersInv'
<1> DEFINE i == timers[1].item
           rest == Tail(timers)
<1>1. /\ timers # <<>> /\ call' = call
      /\ stopped' = IF ends THEN stopped \cup {i} ELSE stopped
      /\ timers' = IF ends THEN rest ELSE Schedule(rest, i, PERIOD[i])
  BY Zenon DEF TimerFires, HasExpired
<1>2. /\ i \in Timers /\ i \in Items(timers)
      /\ rest \in Lists(Timers) /\ Items(rest) = Items(timers) \ {i} /\ NoRepeat(rest)
  BY Zenon, <1>1, TailItems DEF TimersInv, TimersOK
<1>3. stopped \in SUBSET Timers /\ Items(timers) = Timers \ stopped
  BY Zenon DEF TimersInv, TimersOK
<1>4. CASE ends
  <2>1. stopped' = stopped \cup {i} /\ timers' = rest
    BY Zenon, <1>1, <1>4
  <2>2. stopped' \in SUBSET Timers /\ TimersOK' /\ timers' \in Lists(Timers)
    BY Zenon, <1>2, <1>3, <2>1 DEF TimersOK
  <2> QED BY Zenon, <1>1, <2>1, <2>2 DEF TimersInv
<1>5. CASE ~ ends
  <2>1. stopped' = stopped /\ timers' = Schedule(rest, i, PERIOD[i]) /\ PERIOD[i] \in Nat
    BY Zenon, <1>1, <1>2, <1>5, TimersAssumption
  <2>2. timers' \in Lists(Timers) /\ Items(timers') = Items(rest) \cup {i} /\ NoRepeat(timers')
    BY <1>2, <2>1, ScheduleItems
  <2>3. TimersOK'
    BY Zenon, <1>2, <1>3, <2>1, <2>2 DEF TimersOK
  <2> QED BY Zenon, <1>1, <2>1, <2>2, <2>3 DEF TimersInv
<1> QED BY Zenon, <1>4, <1>5

\* What every step of the work queue does to the timers.
LEMMA TimersStep ==
  ASSUME TimersInv, OneStarter, [Next]_vars
  PROVE  TimersInv'
<1>1. CASE UNCHANGED timersVars
  BY Zenon, <1>1 DEF timersVars, TimersInv, TimersOK
<1>2. CASE z_workqueue_entry
  BY Zenon, <1>1, <1>2 DEF z_workqueue_entry, WorkerGet, WorkerGets, WorkerStarts, WorkerEnds
<1>3. CASE OnWorks
  BY Zenon, <1>1, <1>3 DEF OnWorks, k_work_submit, k_workqueue_enable_yieldeach,
       k_workqueue_disable_yieldeach, SetYieldEach, k_work_delayable_schedule,
       k_work_delayable_reschedule, k_work_delayable_cancel
<1>4. CASE OnEvents
  BY Zenon, <1>1, <1>4 DEF OnEvents
<1>5. CASE OnTimers
  <2>1. MAX_TIMEOUT \in Nat
    BY Zenon, WaitersAssumption
  <2>2. PICK t \in Threads \ {WORKER} :
          \/ \E i \in Timers :
               \/ \E n \in 0 .. MAX_TIMEOUT :
                    t \in Starters /\ (k_timer_init(t, i, n) \/ k_timer_start(t, i, n))
               \/ k_timer_stop(t, i)
          \/ k_timer_start_end(t) \/ k_timer_stop_end(t)
    BY Zenon, <1>5 DEF OnTimers
  <2>3. ASSUME NEW i \in Timers, NEW n \in 0 .. MAX_TIMEOUT, t \in Starters,
               k_timer_init(t, i, n) \/ k_timer_start(t, i, n)
        PROVE  TimersInv'
    <3>1. n \in Nat
      BY <2>1
    <3> QED BY Zenon, <2>3, <3>1, TimerInitInv, TimerStartInv
  <2>4. ASSUME NEW i \in Timers, k_timer_stop(t, i)
        PROVE  TimersInv'
    BY Zenon, <2>4, TimerStopInv
  <2> QED BY Zenon, <2>2, <2>3, <2>4, TimerStartEndInv, TimerStopEndInv
<1>6. CASE Systick
  <2>1. CASE z_sched_enter
    BY Zenon, <1>1, <2>1, TimersProcessInv, TimerFiresInv DEF z_sched_enter
  <2>2. CASE EventHandler
    BY Zenon, <1>1, <2>2 DEF EventHandler
  <2>3. CASE \E d \in Delayables : z_delayable_work_trigger(d)
    BY Zenon, <1>1, <2>3 DEF z_delayable_work_trigger
  <2> QED BY Zenon, <1>6, <2>1, <2>2, <2>3 DEF Systick
<1>7. CASE Yields
  BY Zenon, <1>1, <1>7 DEF Yields
<1>8. CASE UNCHANGED vars
  BY Zenon, <1>1, <1>8 DEF vars
<1> QED BY Zenon, <1>2, <1>3, <1>4, <1>5, <1>6, <1>7, <1>8 DEF Next

\* k_timer_started of timer.c tells the truth with any number of timers and threads,
\* although start and stop decide before they disable the interrupts, as long
\* as one thread starts the timers.
THEOREM TimersCorrect ==
  ASSUME OneStarter
  PROVE  Spec => []TimersOK
<1>1. Init => TimersInv
  BY Zenon, TimersInitInv DEF Init
<1>2. TimersInv /\ [Next]_vars => TimersInv'
  BY Zenon, TimersStep
<1>3. TimersInv => TimersOK
  BY Zenon DEF TimersInv
<1> QED BY <1>1, <1>2, <1>3, PTL DEF Spec

-------------------------------------------------------------------------------
(* The events *)

LEMMA EventsInitInv == EventsInit => EventsInv
<1> SUFFICES ASSUME EventsInit PROVE EventsInv
  OBVIOUS
<1>1. events = <<>> /\ scheduled = {}
  BY Zenon DEF EventsInit
<1>2. events \in Lists(Events) /\ DOMAIN events = {}
  BY <1>1 DEF Lists
<1> QED BY Zenon, <1>1, <1>2 DEF EventsInv, EventsOK, Items, NoRepeat

LEMMA EventScheduleInv ==
  ASSUME EventsInv, NEW e \in Events, e \notin scheduled, NEW n \in Nat, z_event_schedule(e, n)
  PROVE  EventsInv'
<1>1. events' = Schedule(events, e, n) /\ scheduled' = scheduled \cup {e}
  BY Zenon DEF z_event_schedule
<1>2. e \notin Items(events) /\ NoRepeat(events) /\ events \in Lists(Events)
  BY Zenon DEF EventsInv, EventsOK
<1>3. events' \in Lists(Events) /\ Items(events') = Items(events) \cup {e} /\ NoRepeat(events')
  BY <1>1, <1>2, ScheduleItems
<1> QED BY Zenon, <1>1, <1>3 DEF EventsInv, EventsOK

LEMMA EventRescheduleInv ==
  ASSUME EventsInv, NEW e \in scheduled, NEW n \in Nat, z_event_reschedule(e, n)
  PROVE  EventsInv'
<1> DEFINE rest == Without(events, e)
<1>1. events' = Schedule(rest, e, n) /\ scheduled' = scheduled
  BY Zenon DEF z_event_reschedule
<1>2. rest \in Lists(Events) /\ Items(rest) = Items(events) \ {e} /\ NoRepeat(rest)
  BY Zenon, WithoutItems DEF EventsInv, EventsOK
<1>3. e \in Events
  BY Zenon DEF EventsInv
<1>4. events' \in Lists(Events) /\ Items(events') = Items(rest) \cup {e} /\ NoRepeat(events')
  BY <1>1, <1>2, <1>3, ScheduleItems
<1> QED BY Zenon, <1>1, <1>2, <1>4 DEF EventsInv, EventsOK

LEMMA EventCancelInv ==
  ASSUME EventsInv, NEW c, NEW e, k_event_cancel(c, e)
  PROVE  EventsInv'
<1>1. events' = Without(events, e) /\ scheduled' = scheduled \ {e}
  BY Zenon DEF k_event_cancel
<1>2. events' \in Lists(Events) /\ Items(events') = Items(events) \ {e} /\ NoRepeat(events')
  BY Zenon, <1>1, WithoutItems DEF EventsInv, EventsOK
<1> QED BY Zenon, <1>1, <1>2 DEF EventsInv, EventsOK

LEMMA EventsProcessInv ==
  ASSUME EventsInv, z_event_q_process
  PROVE  EventsInv'
<1>1. events' = Shift(events, SLICE) /\ scheduled' = scheduled
  BY Zenon DEF z_event_q_process
<1>2. events' \in Lists(Events) /\ Items(events') = Items(events) /\ NoRepeat(events')
  BY Zenon, <1>1, ShiftItems, KernelAssumption DEF EventsInv, EventsOK
<1> QED BY Zenon, <1>1, <1>2 DEF EventsInv, EventsOK

LEMMA EventFiresInv ==
  ASSUME EventsInv, NEW e, NEW again \in Nat, EventFires(e, again)
  PROVE  EventsInv'
<1> DEFINE rest == Tail(events)
<1>1. /\ events # <<>> /\ e = events[1].item
      /\ events' = IF again = 0 THEN rest ELSE Schedule(rest, e, again)
      /\ scheduled' = IF again = 0 THEN scheduled \ {e} ELSE scheduled
  BY Zenon DEF EventFires, HasExpired
<1>2. /\ e \in Events /\ e \in Items(events)
      /\ rest \in Lists(Events) /\ Items(rest) = Items(events) \ {e} /\ NoRepeat(rest)
  BY Zenon, <1>1, TailItems DEF EventsInv, EventsOK
<1>3. scheduled \in SUBSET Events /\ Items(events) = scheduled
  BY Zenon DEF EventsInv, EventsOK
<1>4. CASE again = 0
  <2>1. events' = rest /\ scheduled' = scheduled \ {e}
    BY Zenon, <1>1, <1>4
  <2> QED BY Zenon, <1>2, <1>3, <2>1 DEF EventsInv, EventsOK
<1>5. CASE again # 0
  <2>1. events' = Schedule(rest, e, again) /\ scheduled' = scheduled
    BY Zenon, <1>1, <1>5
  <2>2. events' \in Lists(Events) /\ Items(events') = Items(rest) \cup {e} /\ NoRepeat(events')
    BY <1>2, <2>1, ScheduleItems
  <2> QED BY Zenon, <1>2, <1>3, <2>1, <2>2 DEF EventsInv, EventsOK
<1> QED BY Zenon, <1>4, <1>5

LEMMA DelayableScheduleInv ==
  ASSUME EventsInv, NEW e \in Events, e \notin scheduled, NEW n \in Nat,
         z_work_delayable_schedule(e, n)
  PROVE  EventsInv'
<1>1. CASE n = K_NO_WAIT
  BY Zenon, <1>1 DEF z_work_delayable_schedule, eventsVars, EventsInv, EventsOK
<1>2. CASE n # K_NO_WAIT
  BY Zenon, <1>2, EventScheduleInv DEF z_work_delayable_schedule
<1> QED BY Zenon, <1>1, <1>2

\* What every step of the work queue does to the events.
LEMMA EventsStep ==
  ASSUME EventsInv, [Next]_vars
  PROVE  EventsInv'
<1>1. CASE UNCHANGED eventsVars
  BY Zenon, <1>1 DEF eventsVars, EventsInv, EventsOK
<1>2. CASE z_workqueue_entry
  BY Zenon, <1>1, <1>2 DEF z_workqueue_entry, WorkerGet, WorkerGets, WorkerStarts, WorkerEnds
<1>3. Delayables \subseteq Events /\ \A n \in 0 .. MAX_TIMEOUT : n \in Nat
  BY WorkqueueAssumption, WaitersAssumption
<1>4. CASE OnWorks
  <2>1. PICK c \in Callers :
          \/ \E i \in Nodes \ Delayables : k_work_submit(c, i)
          \/ k_workqueue_enable_yieldeach(c) \/ k_workqueue_disable_yieldeach(c)
          \/ \E d \in Delayables :
               \/ \E n \in 0 .. MAX_TIMEOUT : \/ k_work_delayable_schedule(c, d, n)
                                              \/ k_work_delayable_reschedule(c, d, n)
               \/ k_work_delayable_cancel(c, d)
    BY Zenon, <1>4 DEF OnWorks
  <2>2. ASSUME NEW i \in Nodes \ Delayables, k_work_submit(c, i)
        PROVE  EventsInv'
    BY Zenon, <1>1, <2>2 DEF k_work_submit
  <2>3. CASE k_workqueue_enable_yieldeach(c) \/ k_workqueue_disable_yieldeach(c)
    BY Zenon, <1>1, <2>3 DEF k_workqueue_enable_yieldeach, k_workqueue_disable_yieldeach,
       SetYieldEach
  <2>4. ASSUME NEW d \in Delayables, NEW n \in 0 .. MAX_TIMEOUT,
               k_work_delayable_schedule(c, d, n)
        PROVE  EventsInv'
    BY Zenon, <1>3, <2>4, DelayableScheduleInv DEF k_work_delayable_schedule
  <2>5. ASSUME NEW d \in Delayables, NEW n \in 0 .. MAX_TIMEOUT,
               k_work_delayable_reschedule(c, d, n)
        PROVE  EventsInv'
    <3>1. CASE d \in scheduled
      <4>1. z_event_reschedule(d, n)
        BY Zenon, <2>5, <3>1 DEF k_work_delayable_reschedule
      <4> QED BY Zenon, <1>3, <3>1, <4>1, EventRescheduleInv
    <3>2. CASE d \notin scheduled
      <4>1. z_work_delayable_schedule(d, n)
        BY Zenon, <2>5, <3>2 DEF k_work_delayable_reschedule
      <4> QED BY Zenon, <1>3, <3>2, <4>1, DelayableScheduleInv
    <3> QED BY Zenon, <3>1, <3>2
  <2>6. ASSUME NEW d \in Delayables, k_work_delayable_cancel(c, d)
        PROVE  EventsInv'
    BY Zenon, <2>6, EventCancelInv DEF k_work_delayable_cancel
  <2> QED BY Zenon, <2>1, <2>2, <2>3, <2>4, <2>5, <2>6
<1>5. CASE OnEvents
  <2>1. PICK c \in Callers, e \in Events \ Delayables :
          k_event_cancel(c, e) \/ \E n \in 0 .. MAX_TIMEOUT : k_event_schedule(c, e, n)
    BY Zenon, <1>5 DEF OnEvents
  <2>2. ASSUME NEW n \in 0 .. MAX_TIMEOUT, k_event_schedule(c, e, n)
        PROVE  EventsInv'
    <3>1. CASE n = K_NO_WAIT
      BY Zenon, <1>1, <2>2, <3>1 DEF k_event_schedule
    <3>2. CASE n # K_NO_WAIT
      BY Zenon, <1>3, <2>2, <3>2, EventScheduleInv DEF k_event_schedule
    <3> QED BY Zenon, <3>1, <3>2
  <2> QED BY Zenon, <2>1, <2>2, EventCancelInv
<1>6. CASE OnTimers
  BY Zenon, <1>1, <1>6 DEF OnTimers
<1>7. CASE Systick
  <2>1. CASE z_sched_enter
    BY Zenon, <1>1, <2>1, EventsProcessInv DEF z_sched_enter
  <2>2. CASE EventHandler
    BY Zenon, <1>3, <2>2, EventFiresInv DEF EventHandler
  <2>3. CASE \E d \in Delayables : z_delayable_work_trigger(d)
    BY Zenon, <2>3, EventFiresInv DEF z_delayable_work_trigger
  <2> QED BY Zenon, <1>7, <2>1, <2>2, <2>3 DEF Systick
<1>8. CASE Yields
  BY Zenon, <1>1, <1>8 DEF Yields
<1>9. CASE UNCHANGED vars
  BY Zenon, <1>1, <1>9 DEF vars
<1> QED BY Zenon, <1>2, <1>4, <1>5, <1>6, <1>7, <1>8, <1>9 DEF Next

\* The scheduled flag of event.c agrees with the events queue for any number of
\* events, delayable works and callers, in threads and interrupts.
THEOREM EventsCorrect == Spec => []EventsOK
<1>1. Init => EventsInv
  BY Zenon, EventsInitInv DEF Init
<1>2. EventsInv /\ [Next]_vars => EventsInv'
  BY Zenon, EventsStep
<1>3. EventsInv => EventsOK
  BY Zenon DEF EventsInv
<1> QED BY <1>1, <1>2, <1>3, PTL DEF Spec

-------------------------------------------------------------------------------
(* The delayable works *)

LEMMA DelayableScheduleOnce ==
  ASSUME WorksInv, NEW e \in Delayables, e \notin scheduled, e \notin pending, NEW n,
         z_work_delayable_schedule(e, n)
  PROVE  WorksInv'
<1>1. e \in Nodes /\ e \in Events
  BY Zenon, WorkqueueAssumption
<1>2. CASE n = K_NO_WAIT
  <2>1. scheduled' = scheduled /\ pending' = pending \cup {e}
    BY Zenon, <1>2 DEF z_work_delayable_schedule, z_work_submit, eventsVars
  <2> QED BY Zenon, <1>1, <2>1 DEF WorksInv, DelayedOnce
<1>3. CASE n # K_NO_WAIT
  <2>1. scheduled' = scheduled \cup {e} /\ pending' = pending
    BY Zenon, <1>3 DEF z_work_delayable_schedule, z_event_schedule
  <2> QED BY Zenon, <1>1, <2>1 DEF WorksInv, DelayedOnce
<1> QED BY Zenon, <1>2, <1>3

\* What every step of the work queue does to the flags of the works.
LEMMA WorksStep ==
  ASSUME Careful = TRUE, WorksInv, [Next]_vars
  PROVE  WorksInv'
<1>1. ASSUME scheduled' \subseteq scheduled, pending' \subseteq pending
      PROVE  WorksInv'
  BY Zenon, <1>1 DEF WorksInv, DelayedOnce
<1>2. CASE z_workqueue_entry
  BY Zenon, <1>1, <1>2 DEF z_workqueue_entry, WorkerGet, WorkerGets, WorkerStarts, WorkerEnds,
     eventsVars
<1>3. Delayables = Nodes \cap Events
  BY Zenon, WorkqueueAssumption
<1>4. CASE OnWorks
  <2>1. PICK c \in Callers :
          \/ \E i \in Nodes \ Delayables : k_work_submit(c, i)
          \/ k_workqueue_enable_yieldeach(c) \/ k_workqueue_disable_yieldeach(c)
          \/ \E d \in Delayables :
               \/ \E n \in 0 .. MAX_TIMEOUT : \/ k_work_delayable_schedule(c, d, n)
                                              \/ k_work_delayable_reschedule(c, d, n)
               \/ k_work_delayable_cancel(c, d)
    BY Zenon, <1>4 DEF OnWorks
  <2>2. ASSUME NEW i \in Nodes \ Delayables, k_work_submit(c, i)
        PROVE  WorksInv'
    <3>1. scheduled' = scheduled /\ (pending' = pending \cup {i} \/ pending' = pending)
      BY Zenon, <2>2 DEF k_work_submit, z_work_submit, eventsVars
    <3>2. i \notin Events
      BY Zenon, <1>3
    <3> QED BY Zenon, <3>1, <3>2 DEF WorksInv, DelayedOnce
  <2>3. CASE k_workqueue_enable_yieldeach(c) \/ k_workqueue_disable_yieldeach(c)
    BY Zenon, <1>1, <2>3 DEF k_workqueue_enable_yieldeach, k_workqueue_disable_yieldeach,
         SetYieldEach, eventsVars
  <2>4. ASSUME NEW d \in Delayables, Submits(c, d), z_work_submittable(d)
        PROVE  d \notin pending
    BY Zenon, <2>4 DEF Submits, z_work_submittable
  <2>5. ASSUME NEW d \in Delayables, NEW n \in 0 .. MAX_TIMEOUT,
               k_work_delayable_schedule(c, d, n)
        PROVE  WorksInv'
    BY Zenon, <2>4, <2>5, DelayableScheduleOnce DEF k_work_delayable_schedule
  <2>6. ASSUME NEW d \in Delayables, NEW n \in 0 .. MAX_TIMEOUT,
               k_work_delayable_reschedule(c, d, n)
        PROVE  WorksInv'
    <3>1. CASE d \in scheduled
      BY Zenon, <1>1, <2>6, <3>1 DEF k_work_delayable_reschedule, z_event_reschedule
    <3>2. CASE d \notin scheduled
      BY Zenon, <2>4, <2>6, <3>2, DelayableScheduleOnce DEF k_work_delayable_reschedule
    <3> QED BY Zenon, <3>1, <3>2
  <2>7. ASSUME NEW d \in Delayables, k_work_delayable_cancel(c, d)
        PROVE  WorksInv'
    BY Zenon, <1>1, <2>7 DEF k_work_delayable_cancel, k_event_cancel, workVars
  <2> QED BY Zenon, <2>1, <2>2, <2>3, <2>5, <2>6, <2>7
<1>5. CASE OnEvents
  <2>1. PICK c \in Callers, e \in Events \ Delayables :
          k_event_cancel(c, e) \/ \E n \in 0 .. MAX_TIMEOUT : k_event_schedule(c, e, n)
    BY Zenon, <1>5 DEF OnEvents
  <2>2. scheduled' \subseteq scheduled \cup {e}
    BY Zenon, <2>1 DEF k_event_cancel, k_event_schedule, z_event_schedule, eventsVars
  <2>3. e \notin Nodes /\ pending' = pending
    BY Zenon, <1>3, <1>5 DEF OnEvents, workVars
  <2> QED BY Zenon, <2>2, <2>3 DEF WorksInv, DelayedOnce
<1>6. CASE OnTimers
  BY Zenon, <1>1, <1>6 DEF OnTimers, eventsVars, workVars
<1>7. CASE Systick
  <2>1. CASE z_sched_enter
    BY Zenon, <1>1, <2>1 DEF z_sched_enter, z_event_q_process, eventsVars, workVars
  <2>2. CASE EventHandler
    BY Zenon, <1>1, <2>2 DEF EventHandler, EventFires, workVars
  <2>3. ASSUME NEW d \in Delayables, z_delayable_work_trigger(d)
        PROVE  WorksInv'
    <3>1. scheduled' = scheduled \ {d} /\ pending' = pending \cup {d}
      BY Zenon, <2>3 DEF z_delayable_work_trigger, z_work_submit, EventFires
    <3>2. d \in Nodes
      BY Zenon, <1>3
    <3> QED BY Zenon, <3>1, <3>2 DEF WorksInv, DelayedOnce
  <2> QED BY Zenon, <1>7, <2>1, <2>2, <2>3 DEF Systick
<1>8. CASE Yields
  BY Zenon, <1>1, <1>8 DEF Yields, eventsVars, workVars
<1>9. CASE UNCHANGED vars
  BY Zenon, <1>1, <1>9 DEF vars, eventsVars, workVars
<1> QED BY Zenon, <1>2, <1>4, <1>5, <1>6, <1>7, <1>8, <1>9 DEF Next

\* The event of a delayable work never fires while the work is in the work queue,
\* for any number of works and callers, as long as nobody submits a work that
\* z_work_submittable mistakes for a free one.
THEOREM DelayedWorksCorrect ==
  ASSUME Careful = TRUE
  PROVE  Spec => []DelayedOnce
<1>1. Init => WorksInv
  BY Zenon DEF Init, EventsInit, WorksInv, DelayedOnce
<1>2. WorksInv /\ [Next]_vars => WorksInv'
  BY Zenon, WorksStep
<1>3. WorksInv => DelayedOnce
  BY Zenon DEF WorksInv
<1> QED BY <1>1, <1>2, <1>3, PTL DEF Spec

-------------------------------------------------------------------------------
(* The works *)

\* WORKER waits for a work; it was handed one and has not returned with it yet.
Asleep(s) == s.on[WORKER] = FIFO /\ s.state[WORKER] = "PENDING"
Given(s)  == s.on[WORKER] = FIFO /\ s.state[WORKER] # "PENDING"

\* Only WORKER waits, without a timeout, and nobody cancels its wait.
OneWaiter(s) ==
  /\ KernelOK(s, {}) /\ CurrentOK(s)
  /\ s.expired = {} /\ s.canceled = {}
  /\ \A t \in Threads \ {WORKER} : s.on[t] = NULL
  /\ s.on[WORKER] \in {FIFO, NULL}

\* The inductive invariant: the submitted works are those of the list, the one
\* handed to WORKER and the one WORKER is about to start, and these are different.
QueueInv ==
  /\ OneWaiter(k)
  /\ k.on[WORKER] = FIFO => pc = "get"
  /\ swap_data \in [Threads -> Nodes \cup {NULL}]
  /\ next \in [Nodes -> Nodes \cup {NULL}]
  /\ order \in Seq(Nodes)
  /\ HasList(next, queue, order)
  /\ Asleep(k) => order = <<>>
  /\ Given(k) => swap_data[WORKER] \in Nodes \ Elems(order)
  /\ pc = "got" => work \in Nodes \ Elems(order)
  /\ pending = Elems(order) \cup (IF Given(k) THEN {swap_data[WORKER]} ELSE {})
                            \cup (IF pc = "got" THEN {work} ELSE {})

LEMMA Worker == WORKER \in Threads /\ WORKER # ISR /\ FIFO \in Queues /\ FIFO # NULL
BY Zenon, WorkqueueAssumption, KernelAssumption, WaitersAssumption, FifoAssumption

\* A step of the kernel that changes no wait.
LEMMA SwitchWaiter ==
  ASSUME NEW s, OneWaiter(s)
  PROVE  LET r == z_scheduler(s)
         IN  OneWaiter(r) /\ r.state = s.state /\ r.on = s.on
<1> DEFINE r == z_scheduler(s)
<1>1. /\ KernelOK(r, {}) /\ CurrentOK(r)
      /\ Ready(r) = Ready(s)
      /\ r.state = s.state /\ r.on = s.on
      /\ r.expired = s.expired \ {s.current}
      /\ r.canceled = s.canceled \ {s.current}
  BY Zenon, SwitchOK DEF OneWaiter
<1> HIDE DEF r
<1>2. r.expired = {} /\ r.canceled = {}
  BY Zenon, <1>1 DEF OneWaiter
<1> QED BY Zenon, <1>1, <1>2 DEF OneWaiter, r

\* A step that neither puts a work in a place nor takes one out of a place.
LEMMA QueueFrame ==
  ASSUME QueueInv, OneWaiter(k'), k'.state = k.state, k'.on = k.on,
         swap_data' = swap_data, next' = next, queue' = queue, order' = order,
         pending' = pending, pc' = "got" <=> pc = "got", pc = "got" => work' = work,
         k.on[WORKER] = FIFO => pc' = "get"
  PROVE  QueueInv'
<1>1. (Asleep(k') <=> Asleep(k)) /\ (Given(k') <=> Given(k))
  BY Zenon DEF Asleep, Given
<1> QED BY Zenon, <1>1 DEF QueueInv

\* A step that only moves WORKER along, or the other threads.
LEMMA SameQueue ==
  ASSUME QueueInv, UNCHANGED <<swap_data, fifoVars, pc, work, pending>>,
         OneWaiter(k'), k'.state = k.state, k'.on = k.on
  PROVE  QueueInv'
BY Zenon, QueueFrame DEF fifoVars, QueueInv

LEMMA Idles ==
  ASSUME QueueInv, UNCHANGED <<k, swap_data, fifoVars, pc, work, pending>>
  PROVE  QueueInv'
BY Zenon, SameQueue DEF QueueInv

LEMMA Switches ==
  ASSUME QueueInv, k' = k \/ k' = z_scheduler(k),
         UNCHANGED <<swap_data, fifoVars, pc, work, pending>>
  PROVE  QueueInv'
<1>1. OneWaiter(k)
  BY Zenon DEF QueueInv
<1>2. OneWaiter(k') /\ k'.state = k.state /\ k'.on = k.on
  <2>1. CASE k' = k
    BY Zenon, <1>1, <2>1
  <2>2. CASE k' = z_scheduler(k)
    <3> DEFINE r == z_scheduler(k)
    <3>1. OneWaiter(r) /\ r.state = k.state /\ r.on = k.on
      BY Zenon, <1>1, SwitchWaiter
    <3> HIDE DEF r
    <3>2. k' = r
      BY Zenon, <2>2 DEF r
    <3> QED BY Zenon, <3>1, <3>2
  <2> QED BY Zenon, <2>1, <2>2
<1> QED BY Zenon, <1>2, SameQueue

\* z_fifo_put hands the work to WORKER if it waits, else appends it to the list.
LEMMA SubmitQueue ==
  ASSUME QueueInv, NEW i \in Nodes, i \notin pending, z_work_submit(i),
         UNCHANGED <<pc, work>>
  PROVE  QueueInv'
<1>1. /\ OneWaiter(k) /\ KernelOK(k, {}) /\ CurrentOK(k) /\ k \in KernelStates
      /\ WaitQueuesOK(k)
  BY Zenon DEF QueueInv, OneWaiter, KernelOK
<1>2. pending' = pending \cup {i} /\ z_fifo_put(i)
  BY Zenon DEF z_work_submit
<1>3. CASE FirstPending(k, FIFO) # NULL
  <2> DEFINE t == k.wq.next[FIFO]
             r == z_unpend_first_thread(k, FIFO)
  <2>1. ~ DLIST_EMPTY(k.wq, FIFO) /\ FirstPending(k, FIFO) = t
    BY Zenon, <1>3 DEF FirstPending
  <2>2. /\ t \in Waiting(k, FIFO)
        /\ KernelOK(r, {})
        /\ Ready(r) = Ready(k) \cup {t}
        /\ r.state = [k.state EXCEPT ![t] = "READY"]
        /\ r.run_queue = IF Ready(k) = {} THEN t ELSE k.run_queue
        /\ r.wakeup = k.wakeup \ {t}
        /\ r.expired = k.expired /\ r.canceled = k.canceled
        /\ r.current = k.current /\ r.on = k.on
    <3>1. {} \in SUBSET Threads /\ FIFO \in Queues
      BY Zenon, Worker
    <3> QED BY ZenonT(30), <1>1, <2>1, <3>1, UnpendFirst
  <2>3. /\ k' = r /\ swap_data' = [swap_data EXCEPT ![t] = i]
        /\ queue' = queue /\ next' = next /\ order' = order
    BY Zenon, <1>2, <1>3, <2>1 DEF z_fifo_put, z_unpend_first_and_swap, fifoVars
  <2> HIDE DEF t, r
  <2>4. t = WORKER /\ Asleep(k)
    BY Zenon, <1>1, <2>2, Worker DEF Waiting, OneWaiter, Asleep
  <2>5. OneWaiter(r)
    <3>1. CurrentOK(r)
      BY Zenon, <1>1, <2>2 DEF CurrentOK
    <3> QED BY Zenon, <1>1, <2>2, <3>1 DEF OneWaiter
  <2>6. Given(r) /\ ~ Asleep(r)
    BY Zenon, <1>1, <2>2, <2>4, Worker DEF Given, Asleep, KernelStates, ThreadStates
  <2>7. order = <<>> /\ pc = "get" /\ ~ Given(k)
    BY Zenon, <2>4 DEF QueueInv, Asleep, Given
  <2>8. Elems(order) = {}
    BY <2>7 DEF Elems
  <2>9. swap_data' \in [Threads -> Nodes \cup {NULL}] /\ swap_data'[WORKER] = i
    BY Zenon, <2>3, <2>4, Worker DEF QueueInv
  <2>10. pending' = {i}
    BY Zenon, <1>2, <2>7, <2>8 DEF QueueInv
  <2> QED BY Zenon, <2>3, <2>5, <2>6, <2>7, <2>8, <2>9, <2>10 DEF QueueInv
<1>4. CASE FirstPending(k, FIFO) = NULL
  <2>1. /\ queue' = slist_append(queue, i) /\ next' = slist_append_next(next, queue, i)
        /\ order' = Append(order, i) /\ k' = k /\ swap_data' = swap_data
    BY Zenon, <1>2, <1>4 DEF z_fifo_put
  <2>2. ~ Asleep(k)
    <3>1. DLIST_EMPTY(k.wq, FIFO)
      <4>1. ASSUME ~ DLIST_EMPTY(k.wq, FIFO) PROVE FALSE
        <5>1. k.wq.next[FIFO] \in Waiting(k, FIFO)
          BY Zenon, <1>1, <4>1, Worker, FirstWaits
        <5> QED BY Zenon, <1>4, <4>1, <5>1, Disjoint DEF FirstPending, Waiting
      <4> QED BY Zenon, <4>1
    <3>2. Waiting(k, FIFO) = {}
      BY Zenon, <1>1, <3>1, Worker, NobodyWaits
    <3> QED BY Zenon, <3>2, Worker DEF Asleep, Waiting
  <2>3. /\ NULL \notin Nodes /\ next \in [Nodes -> Nodes \cup {NULL}]
        /\ order \in Seq(Nodes) /\ Listed(next, queue.head, order)
        /\ (Len(order) # 0 => queue.tail = order[Len(order)])
    BY Zenon, FifoAssumption DEF QueueInv, HasList
  <2>4. i \notin Elems(order)
    BY Zenon DEF QueueInv
  <2>5. \A j \in 1 .. Len(order) : order[j] # i
    BY Zenon, <2>4 DEF Elems
  <2> DEFINE mem == slist_append_next(next, queue, i)
             l   == slist_append(queue, i)
  <2>6. /\ mem \in [Nodes -> Nodes \cup {NULL}]
        /\ Append(order, i) \in Seq(Nodes)
        /\ Listed(mem, l.head, Append(order, i))
        /\ l.tail = i
        /\ \A x \in Nodes : x # i /\ (\A j \in 1 .. Len(order) : order[j] # x) => mem[x] = next[x]
    BY ONLY <2>3, <2>5, i \in Nodes, AppendListed, SMTT(30)
  <2> HIDE DEF mem, l
  <2>7. HasList(next', queue', order')
    <3>1. order' = Append(order, i) /\ next' = mem /\ queue' = l
      BY Zenon, <2>1 DEF mem, l
    <3>2. Len(Append(order, i)) = Len(order) + 1 /\ Append(order, i)[Len(order) + 1] = i
      BY <2>3
    <3> QED BY Zenon, <2>6, <3>1, <3>2 DEF HasList
  <2>8. Elems(order') = Elems(order) \cup {i}
    BY <2>1, <2>3, ElemsAppend
  <2>9. next' \in [Nodes -> Nodes \cup {NULL}] /\ order' \in Seq(Nodes)
    BY Zenon, <2>1, <2>6 DEF mem
  <2>10. /\ Given(k) => swap_data[WORKER] # i
         /\ pc = "got" => work # i
    BY Zenon DEF QueueInv
  <2>11. pending' = Elems(order') \cup (IF Given(k) THEN {swap_data[WORKER]} ELSE {})
                                  \cup (IF pc = "got" THEN {work} ELSE {})
    BY Zenon, <1>2, <2>8 DEF QueueInv
  <2> QED BY Zenon, <2>1, <2>2, <2>7, <2>8, <2>9, <2>10, <2>11 DEF QueueInv
<1> QED BY Zenon, <1>3, <1>4

\* k_fifo_get takes the first work of the list, or waits if there is none.
LEMMA WorkerGetQueue ==
  ASSUME QueueInv, WorkerGet
  PROVE  QueueInv'
<1>1. /\ Running(WORKER) /\ k.current = WORKER /\ k.on[WORKER] = NULL /\ pc = "get"
      /\ swap_data' = swap_data /\ next' = next /\ pending' = pending
  BY Zenon, Worker DEF WorkerGet, k_fifo_get, Calls, Running
<1>2. /\ OneWaiter(k) /\ KernelOK(k, {}) /\ CurrentOK(k) /\ k \in KernelStates
  BY Zenon DEF QueueInv, OneWaiter, KernelOK
<1>3. ~ Given(k) /\ ~ Asleep(k)
  BY Zenon, <1>1, Worker DEF Given, Asleep
<1>4. /\ NULL \notin Nodes /\ order \in Seq(Nodes) /\ HasList(next, queue, order)
      /\ Len(order) \in Nat
      /\ \A i, j \in 1 .. Len(order) : order[i] = order[j] => i = j
      /\ queue.head = IF Len(order) = 0 THEN NULL ELSE order[1]
  BY FifoAssumption DEF QueueInv, HasList, Listed
<1>5. CASE queue.head # NULL
  <2>1. /\ queue' = slist_get(next, queue) /\ k' = k
        /\ order' = IF order = <<>> THEN order ELSE Tail(order)
        /\ work' = queue.head /\ pc' = "got"
    BY Zenon, <1>5 DEF WorkerGet, k_fifo_get
  <2>2. Len(order) # 0 /\ order # <<>> /\ queue.head = order[1]
    BY Zenon, <1>4, <1>5
  <2>3. HasList(next, slist_get(next, queue), Tail(order))
    BY Zenon, <1>4, <2>2, GetListed
  <2>4. order[1] \in Nodes /\ Tail(order) \in Seq(Nodes)
    BY <1>4, <2>2
  <2>5. Elems(Tail(order)) = Elems(order) \ {order[1]} /\ order[1] \in Elems(order)
    BY Zenon, <1>4, <2>2, ElemsTail
  <2>6. order' = Tail(order) /\ work' = order[1]
    BY Zenon, <2>1, <2>2
  <2>7. pending = Elems(order)
    BY Zenon, <1>1, <1>3 DEF QueueInv
  <2>8. pending' = Elems(order') \cup {work'} /\ work' \notin Elems(order')
    BY Zenon, <1>1, <2>5, <2>6, <2>7
  <2>9. k'.on[WORKER] # FIFO
    BY Zenon, <1>1, <2>1, Worker
  <2> QED BY Zenon, <1>1, <1>3, <2>1, <2>3, <2>4, <2>6, <2>8, <2>9 DEF QueueInv
<1>6. CASE queue.head = NULL
  <2> DEFINE r == z_pend_current_on(k, FIFO, K_FOREVER)
  <2>1. k' = r /\ queue' = queue /\ order' = order /\ pc' = "get"
    BY Zenon, <1>6 DEF WorkerGet, k_fifo_get
  <2>2. KernelOK(r, {}) /\ CurrentOK(r) /\ WaitsOn(k, r, FIFO)
    <3>1. {} \in SUBSET Threads /\ K_FOREVER \in Nat \cup {K_FOREVER} /\ K_FOREVER # K_NO_WAIT
      BY KernelAssumption
    <3> QED BY Zenon, <1>1, <1>2, <3>1, Worker, PendOn
  <2> HIDE DEF r
  <2>3. /\ r.state = [k.state EXCEPT ![WORKER] = "PENDING"]
        /\ r.on = [k.on EXCEPT ![WORKER] = FIFO]
        /\ r.expired = k.expired \ {WORKER} /\ r.canceled = k.canceled \ {WORKER}
    BY Zenon, <1>1, <2>2 DEF WaitsOn
  <2>4. /\ r.state[WORKER] = "PENDING" /\ r.on[WORKER] = FIFO
        /\ \A t \in Threads \ {WORKER} : r.on[t] = k.on[t]
    BY <1>2, <2>3, Worker DEF KernelStates, ThreadStates
  <2>5. OneWaiter(r)
    BY Zenon, <1>2, <2>2, <2>3, <2>4 DEF OneWaiter
  <2>6. ~ Given(r)
    BY Zenon, <2>4 DEF Given
  <2>7. order = <<>>
    BY <1>4, <1>6
  <2> QED BY Zenon, <1>1, <1>3, <2>1, <2>5, <2>6, <2>7 DEF QueueInv
<1> QED BY Zenon, <1>5, <1>6

\* k_fifo_get returns with the work it was handed.
LEMMA WorkerGetsQueue ==
  ASSUME QueueInv, WorkerGets
  PROVE  QueueInv'
<1> DEFINE r == Returned(k, WORKER)
<1>1. /\ k.current = WORKER /\ k.on[WORKER] = FIFO /\ k' = r
      /\ swap_data' = [swap_data EXCEPT ![WORKER] = NULL]
      /\ next' = next /\ queue' = queue /\ order' = order /\ pending' = pending
      /\ work' = swap_data[WORKER] /\ pc' = "got"
  BY Zenon DEF WorkerGets, k_fifo_get_return, PendReturn, Returning, fifoVars
<1>2. /\ OneWaiter(k) /\ KernelOK(k, {}) /\ CurrentOK(k) /\ k \in KernelStates
  BY DEF QueueInv, OneWaiter, KernelOK
<1>3. WORKER \in Ready(k) /\ k.state[WORKER] = "READY"
  BY Zenon, <1>1, <1>2, Worker, Disjoint DEF CurrentOK, Ready
<1>4. Given(k) /\ pc = "get"
  BY Zenon, <1>1, <1>3 DEF Given, QueueInv
<1>5. /\ KernelOK(r, {})
      /\ Ready(r) = Ready(k)
      /\ r.state = k.state
      /\ r.run_queue = k.run_queue /\ r.current = k.current
      /\ r.expired = k.expired /\ r.canceled = k.canceled
      /\ r.on = [k.on EXCEPT ![WORKER] = NULL]
  <2>1. {} \in SUBSET Threads
    BY Zenon
  <2> QED BY Zenon, <1>2, <1>3, <2>1, ReturnThread
<1> HIDE DEF r
<1>6. r.on[WORKER] = NULL /\ \A t \in Threads \ {WORKER} : r.on[t] = k.on[t]
  BY Zenon, <1>2, <1>5, Worker DEF KernelStates
<1>7. OneWaiter(r)
  BY Zenon, <1>2, <1>5, <1>6 DEF OneWaiter, CurrentOK
<1>8. ~ Given(r) /\ ~ Asleep(r) /\ r.on[WORKER] # FIFO
  BY Zenon, <1>6, Worker DEF Given, Asleep
<1>9. swap_data' \in [Threads -> Nodes \cup {NULL}]
  BY Zenon, <1>1, Worker DEF QueueInv
<1>10. work' \in Nodes \ Elems(order) /\ pending = Elems(order) \cup {work'}
  BY Zenon, <1>1, <1>4 DEF QueueInv
<1> QED BY Zenon, <1>1, <1>7, <1>8, <1>9, <1>10 DEF QueueInv

\* WORKER marks the work as submittable: the work is in no list, which would end
\* at it from then on.
LEMMA WorkerStartsQueue ==
  ASSUME QueueInv, WorkerStarts
  PROVE  QueueInv'
<1>1. /\ k' = k /\ swap_data' = swap_data /\ queue' = queue /\ order' = order
      /\ k.on[WORKER] = NULL /\ pc = "got" /\ pc' = "run"
      /\ next' = [next EXCEPT ![work] = NULL] /\ pending' = pending \ {work}
  BY Zenon DEF WorkerStarts, Running
<1>2. /\ work \in Nodes \ Elems(order) /\ next \in [Nodes -> Nodes \cup {NULL}]
      /\ order \in Seq(Nodes) /\ HasList(next, queue, order)
  BY Zenon, <1>1 DEF QueueInv
<1>3. ~ Given(k) /\ ~ Asleep(k) /\ k.on[WORKER] # FIFO
  BY Zenon, <1>1, Worker DEF Given, Asleep
<1>4. next' \in [Nodes -> Nodes \cup {NULL}] /\ \A x \in Nodes \ {work} : next'[x] = next[x]
  BY Zenon, <1>1, <1>2
<1>5. \A j \in 1 .. Len(order) : order[j] \in Nodes \ {work}
  BY <1>2 DEF Elems
<1>6. \A j \in 1 .. Len(order) : next'[order[j]] = next[order[j]]
  BY Zenon, <1>4, <1>5
<1>7. Listed(next', queue.head, order)
  BY Zenon, <1>2, <1>6, ListedFrame DEF HasList
<1>8. HasList(next', queue', order')
  BY Zenon, <1>1, <1>2, <1>7 DEF HasList
<1>9. pending' = Elems(order)
  BY Zenon, <1>1, <1>2, <1>3 DEF QueueInv
<1> QED BY Zenon, <1>1, <1>3, <1>4, <1>8, <1>9 DEF QueueInv

LEMMA WorkerEndsQueue ==
  ASSUME QueueInv, WorkerEnds
  PROVE  QueueInv'
<1>1. /\ k' = z_scheduler(k) \/ k' = k
      /\ swap_data' = swap_data /\ next' = next /\ queue' = queue /\ order' = order
      /\ pending' = pending /\ pc = "run" /\ pc' = "get"
  BY Zenon DEF WorkerEnds, fifoVars
<1>2. OneWaiter(k') /\ k'.state = k.state /\ k'.on = k.on
  <2>1. OneWaiter(k)
    BY Zenon DEF QueueInv
  <2>2. CASE k' = k
    BY Zenon, <2>1, <2>2
  <2>3. CASE k' = z_scheduler(k)
    <3> DEFINE r == z_scheduler(k)
    <3>1. OneWaiter(r) /\ r.state = k.state /\ r.on = k.on
      BY Zenon, <2>1, SwitchWaiter
    <3> HIDE DEF r
    <3>2. k' = r
      BY Zenon, <2>3 DEF r
    <3> QED BY Zenon, <3>1, <3>2
  <2> QED BY Zenon, <1>1, <2>2, <2>3
<1> QED BY Zenon, <1>1, <1>2, QueueFrame

\* What every step of the work queue does to the works.
LEMMA QueueStep ==
  ASSUME Careful = TRUE, QueueInv, EventsInv, WorksInv, [Next]_vars
  PROVE  QueueInv'
<1>1. CASE z_workqueue_entry
  BY Zenon, <1>1, WorkerGetQueue, WorkerGetsQueue, WorkerStartsQueue, WorkerEndsQueue
     DEF z_workqueue_entry
<1>2. Delayables = Nodes \cap Events
  BY Zenon, WorkqueueAssumption
<1>3. CASE OnWorks
  <2>1. PICK c \in Callers :
          \/ \E i \in Nodes \ Delayables : k_work_submit(c, i)
          \/ k_workqueue_enable_yieldeach(c) \/ k_workqueue_disable_yieldeach(c)
          \/ \E d \in Delayables :
               \/ \E n \in 0 .. MAX_TIMEOUT : \/ k_work_delayable_schedule(c, d, n)
                                              \/ k_work_delayable_reschedule(c, d, n)
               \/ k_work_delayable_cancel(c, d)
    BY Zenon, <1>3 DEF OnWorks
  <2>2. ASSUME NEW i \in Nodes, Submits(c, i), z_work_submittable(i)
        PROVE  i \notin pending
    BY Zenon, <2>2 DEF Submits, z_work_submittable
  <2>3. ASSUME NEW i \in Nodes \ Delayables, k_work_submit(c, i)
        PROVE  QueueInv'
    <3>1. CASE z_work_submittable(i)
      BY Zenon, <2>2, <2>3, <3>1, SubmitQueue DEF k_work_submit
    <3>2. CASE ~ z_work_submittable(i)
      BY Zenon, <2>3, <3>2, Idles DEF k_work_submit
    <3> QED BY Zenon, <3>1, <3>2
  <2>4. CASE k_workqueue_enable_yieldeach(c) \/ k_workqueue_disable_yieldeach(c)
    BY Zenon, <2>4, Idles DEF k_workqueue_enable_yieldeach, k_workqueue_disable_yieldeach,
       SetYieldEach
  <2>5. ASSUME NEW d \in Delayables, NEW n, Submits(c, d), z_work_submittable(d),
               z_work_delayable_schedule(d, n), UNCHANGED <<pc, work>>
        PROVE  QueueInv'
    <3>1. d \in Nodes /\ d \notin pending
      BY Zenon, <1>2, <2>2, <2>5
    <3>2. CASE n = K_NO_WAIT
      BY Zenon, <2>5, <3>1, <3>2, SubmitQueue DEF z_work_delayable_schedule
    <3>3. CASE n # K_NO_WAIT
      BY Zenon, <2>5, <3>3, Idles DEF z_work_delayable_schedule
    <3> QED BY Zenon, <3>2, <3>3
  <2>6. ASSUME NEW d \in Delayables, NEW n \in 0 .. MAX_TIMEOUT,
               k_work_delayable_schedule(c, d, n)
        PROVE  QueueInv'
    BY Zenon, <2>5, <2>6 DEF k_work_delayable_schedule
  <2>7. ASSUME NEW d \in Delayables, NEW n \in 0 .. MAX_TIMEOUT,
               k_work_delayable_reschedule(c, d, n)
        PROVE  QueueInv'
    <3>1. CASE d \in scheduled
      BY Zenon, <2>7, <3>1, Idles DEF k_work_delayable_reschedule
    <3>2. CASE d \notin scheduled
      BY Zenon, <2>5, <2>7, <3>2 DEF k_work_delayable_reschedule
    <3> QED BY Zenon, <3>1, <3>2
  <2>8. ASSUME NEW d \in Delayables, k_work_delayable_cancel(c, d)
        PROVE  QueueInv'
    BY Zenon, <2>8, Idles DEF k_work_delayable_cancel, k_event_cancel, workVars
  <2> QED BY Zenon, <2>1, <2>3, <2>4, <2>6, <2>7, <2>8
<1>4. CASE OnEvents
  <2>1. PICK c \in Callers, e \in Events \ Delayables :
          k_event_cancel(c, e) \/ \E n \in 0 .. MAX_TIMEOUT : k_event_schedule(c, e, n)
    BY Zenon, <1>4 DEF OnEvents
  <2>2. k' = k
    BY Zenon, <2>1 DEF k_event_cancel, k_event_schedule
  <2> QED BY Zenon, <1>4, <2>2, Idles DEF OnEvents, workVars
<1>5. CASE OnTimers
  <2>1. k' = k
    BY Zenon, <1>5 DEF OnTimers, k_timer_init, k_timer_start, k_timer_stop, k_timer_start_end,
                k_timer_stop_end
  <2> QED BY Zenon, <1>5, <2>1, Idles DEF OnTimers, workVars
<1>6. CASE Systick
  <2>1. CASE z_sched_enter
    <3>1. UNCHANGED <<swap_data, fifoVars, pc, work, pending>>
      BY Zenon, <2>1 DEF z_sched_enter, workVars
    <3>2. CASE SysTick
      <4>1. /\ KernelOK(k, {}) /\ CurrentOK(k) /\ OneWaiter(k)
        BY Zenon DEF QueueInv, OneWaiter
      <4>2. /\ KernelOK(k', {}) /\ CurrentOK(k')
            /\ k'.state = k.state /\ k'.on = k.on
            /\ k'.expired = k.expired /\ k'.canceled = k.canceled
        BY Zenon, <3>2, <4>1, TickOK
      <4>3. OneWaiter(k')
        BY Zenon, <4>1, <4>2 DEF OneWaiter
      <4> QED BY Zenon, <3>1, <4>2, <4>3, SameQueue
    <3>3. CASE z_timers_process \/ z_event_q_process \/ \E ends \in BOOLEAN : TimerFires(ends)
      <4>1. k' = k
        BY Zenon, <3>3 DEF z_timers_process, z_event_q_process, TimerFires
      <4> QED BY Zenon, <3>1, <4>1, Idles
    <3>4. CASE SchedExit
      <4>1. k' = k \/ k' = z_scheduler(k)
        BY Zenon, <3>4 DEF SchedExit
      <4> QED BY Zenon, <3>1, <4>1, Switches
    <3> QED BY Zenon, <2>1, <3>2, <3>3, <3>4 DEF z_sched_enter
  <2>2. CASE EventHandler
    BY Zenon, <2>2, Idles DEF EventHandler, workVars
  <2>3. ASSUME NEW d \in Delayables, z_delayable_work_trigger(d)
        PROVE  QueueInv'
    <3>1. events # <<>> /\ d = events[1].item
      BY Zenon, <2>3 DEF z_delayable_work_trigger, EventFires, HasExpired
    <3>2. d \in Items(events)
      BY Zenon, <3>1, TailItems DEF EventsInv, EventsOK
    <3>3. d \in Nodes /\ d \notin pending
      BY Zenon, <1>2, <3>2 DEF EventsInv, EventsOK, WorksInv, DelayedOnce
    <3> QED BY Zenon, <2>3, <3>3, SubmitQueue DEF z_delayable_work_trigger
  <2> QED BY Zenon, <1>6, <2>1, <2>2, <2>3 DEF Systick
<1>7. CASE Yields
  BY Zenon, <1>7, Switches DEF Yields, k_yield, workVars
<1>8. CASE UNCHANGED vars
  BY Zenon, <1>8, Idles DEF vars, workVars
<1> QED BY Zenon, <1>1, <1>3, <1>4, <1>5, <1>6, <1>7, <1>8 DEF Next

LEMMA InitQueue ==
  ASSUME Init
  PROVE  QueueInv
<1>1. {} \in SUBSET Threads /\ KernelInit
  BY Zenon DEF Init
<1>2. /\ KernelOK(k, {}) /\ CurrentOK(k) /\ ctx = InThread
      /\ k.on = [t \in Threads |-> NULL]
      /\ k.state = [t \in Threads \cup {Idle} |->
                      IF t = Idle THEN "IDLE"
                      ELSE IF t \in AutoStart THEN "READY" ELSE "STOPPED"]
      /\ k.wakeup = {} /\ k.expired = {} /\ k.canceled = {}
  BY Zenon, <1>1, InitKernel
<1>3. \A t \in Threads : k.on[t] = NULL
  BY Zenon, <1>2
<1>4. OneWaiter(k) /\ k.on[WORKER] # FIFO
  BY Zenon, <1>2, <1>3, Worker DEF OneWaiter
<1>5. /\ swap_data = [t \in Threads |-> NULL] /\ next = [i \in Nodes |-> NULL]
      /\ queue.head = NULL /\ order = <<>> /\ pc = "get" /\ pending = {}
  BY Zenon DEF Init, FifoInit, EmptySlist
<1>6. order \in Seq(Nodes) /\ HasList(next, queue, order) /\ Elems(order) = {}
  BY <1>5 DEF HasList, Listed, Elems
<1>7. ~ Given(k)
  BY Zenon, <1>4 DEF Given
<1> QED BY Zenon, <1>4, <1>5, <1>6, <1>7 DEF QueueInv

\* A work is in at most one of the places, and in one exactly if it is pending.
LEMMA PlacesCount ==
  ASSUME QueueInv
  PROVE  NoWorkLost
<1>1. /\ next \in [Nodes -> Nodes \cup {NULL}] /\ order \in Seq(Nodes)
      /\ Listed(next, queue.head, order)
  BY Zenon DEF QueueInv, HasList
<1>2. Reached(next, queue.head) = order
  BY Zenon, <1>1, FifoAssumption, ReachedListed
<1>3. HandedOver(FIFO) = IF Given(k) THEN {WORKER} ELSE {}
  <2>1. /\ k.expired = {} /\ k.canceled = {}
        /\ \A t \in Threads \ {WORKER} : k.on[t] = NULL
    BY Zenon DEF QueueInv, OneWaiter
  <2>2. \A t \in Threads : PendResult(k, t) = "OK"
    BY Zenon, <2>1 DEF PendResult
  <2> QED BY Zenon, <2>1, <2>2, Worker DEF HandedOver, Given
<1> DEFINE InFifo(i) == {<<"fifo", n>> : n \in {n \in DOMAIN order : order[n] = i}}
           InSwap(i) == {<<"swap", t>> : t \in {t \in HandedOver(FIFO) : swap_data[t] = i}}
           InWork(i) == IF pc = "got" /\ work = i THEN {<<"work", 1>>} ELSE {}
<1>4. \A i : Places(i) = InFifo(i) \cup InSwap(i) \cup InWork(i)
  BY <1>2, Zenon DEF Places
<1>5. /\ DOMAIN order = 1 .. Len(order)
      /\ \A i, j \in 1 .. Len(order) : order[i] = order[j] => i = j
  <2>1. DOMAIN order = 1 .. Len(order)
    BY <1>1
  <2> QED BY ONLY Zenon, <1>1, <2>1 DEF Listed
<1>6. ASSUME NEW i \in Nodes
      PROVE  Cardinality(Places(i)) = IF i \in pending THEN 1 ELSE 0
  <2>1. i \notin Elems(order) => InFifo(i) = {}
    BY Zenon, <1>5 DEF Elems
  <2>2. ~ (Given(k) /\ swap_data[WORKER] = i) => InSwap(i) = {}
    BY Zenon, <1>3
  <2>3. ~ (pc = "got" /\ work = i) => InWork(i) = {}
    BY Zenon
  <2>4. Given(k) => pc # "got"
    BY Zenon DEF QueueInv, Given
  <2>5. CASE i \in Elems(order)
    <3>1. i \in pending /\ InSwap(i) = {} /\ InWork(i) = {}
      BY Zenon, <2>2, <2>3, <2>5 DEF QueueInv
    <3>2. PICK m \in 1 .. Len(order) : order[m] = i
      BY Zenon, <2>5 DEF Elems
    <3>3. {n \in DOMAIN order : order[n] = i} = {m}
      BY Zenon, <1>5, <3>2
    <3>4. InFifo(i) = {<<"fifo", m>>}
      BY Zenon, <3>3
    <3>5. Places(i) = {<<"fifo", m>>}
      BY Zenon, <1>4, <3>1, <3>4
    <3> QED BY Zenon, <3>1, <3>5, FS_Singleton
  <2>6. CASE i \notin Elems(order) /\ Given(k) /\ swap_data[WORKER] = i
    <3>1. i \in pending /\ InFifo(i) = {} /\ InWork(i) = {}
      BY Zenon, <2>1, <2>3, <2>4, <2>6 DEF QueueInv
    <3>2. InSwap(i) = {<<"swap", WORKER>>}
      BY Zenon, <1>3, <2>6
    <3>3. Places(i) = {<<"swap", WORKER>>}
      BY Zenon, <1>4, <3>1, <3>2
    <3> QED BY Zenon, <3>1, <3>3, FS_Singleton
  <2>7. CASE i \notin Elems(order) /\ pc = "got" /\ work = i
    <3>1. i \in pending /\ InFifo(i) = {} /\ InSwap(i) = {}
      BY Zenon, <2>1, <2>2, <2>4, <2>7 DEF QueueInv
    <3>2. InWork(i) = {<<"work", 1>>}
      BY Zenon, <2>7
    <3>3. Places(i) = {<<"work", 1>>}
      BY Zenon, <1>4, <3>1, <3>2
    <3> QED BY Zenon, <3>1, <3>3, FS_Singleton
  <2>8. CASE /\ i \notin Elems(order) /\ ~ (Given(k) /\ swap_data[WORKER] = i)
             /\ ~ (pc = "got" /\ work = i)
    <3>1. i \notin pending
      BY Zenon, <2>8 DEF QueueInv
    <3>2. Places(i) = {}
      BY Zenon, <1>4, <2>1, <2>2, <2>3, <2>8
    <3> QED BY Zenon, <3>1, <3>2, FS_EmptySet
  <2> QED BY Zenon, <2>5, <2>6, <2>7, <2>8
<1> QED BY Zenon, <1>6 DEF NoWorkLost

\* With callers that are Careful (k_work_submit refuses every other submission of a
\* pending work), no submission is lost and none is run twice, whatever the works,
\* the threads, and the interleaving of the callers, the worker thread and the
\* interrupts.
THEOREM WorksCorrect ==
  ASSUME Careful = TRUE
  PROVE  Spec => []NoWorkLost
<1> DEFINE I == QueueInv /\ EventsInv /\ WorksInv
<1>1. Init => I
  BY Zenon, InitQueue, EventsInitInv DEF Init, EventsInit, WorksInv, DelayedOnce
<1>2. I /\ [Next]_vars => I'
  BY Zenon, QueueStep, EventsStep, WorksStep
<1>3. I => NoWorkLost
  BY Zenon, PlacesCount
<1> QED BY <1>1, <1>2, <1>3, PTL DEF Spec

===============================================================================
