-------------------------------- MODULE Timers --------------------------------
(***************************************************************************)
(* The timers (timer.c): z_timers_process runs in the tick interrupt, on   *)
(* the timers queue (see TimeoutList), between the timeouts of the threads *)
(* and the events.  k_timer_start and k_timer_stop look at the timer       *)
(* before they disable the interrupts: each is two steps.                  *)
(***************************************************************************)
EXTENDS Waiters, Functions

CONSTANTS
  Timers,
  PERIOD,         \* timer -> K_TIMEOUT_TICKS(timer.timeout)
  Starters        \* the threads that start timers

ASSUME TimersAssumption == /\ IsFiniteSet(Timers)
                           /\ PERIOD \in [Timers -> Nat \ {0}]
                           /\ Starters \subseteq Threads

VARIABLES
  timers,         \* z_timers_runqueue
  stopped,        \* the timers whose tie.timeout is K_TIMER_STOPPED
  call            \* thread -> [fn, timer, delay], the call it is in the middle of

timersVars == <<timers, stopped, call>>

NoCall == [fn |-> "none", timer |-> NULL, delay |-> 0]

\* What z_timer_init_module leaves, whichever timers are defined as started and in
\* whichever order.
TimersInit ==
  /\ stopped \in SUBSET Timers
  /\ LET started == Timers \ stopped
     IN  \E order \in Bijection(1 .. Cardinality(started), started),
            delay \in [Timers -> 0 .. MAX_TIMEOUT] :
           /\ \A i, j \in DOMAIN order : i <= j => delay[order[i]] <= delay[order[j]]
           /\ timers = [i \in DOMAIN order |-> [item |-> order[i], left |-> delay[order[i]]]]
  /\ call = [t \in Threads |-> NoCall]

\* tie.timeout holds the delta of the timer from now on.
z_timer_start(i, delay) == /\ timers' = Schedule(timers, i, delay)
                           /\ stopped' = stopped \ {i}

\* On a timer that is not in use, with a timeout other than K_FOREVER (with that, the
\* timer stays stopped) and a starting delay other than K_FOREVER, for which, unlike
\* k_timer_start, the code does not test: it would queue a timer whose tie.timeout is
\* K_TIMER_STOPPED.
k_timer_init(t, i, delay) ==
  /\ Running(t) /\ call[t] = NoCall
  /\ i \in stopped
  /\ z_timer_start(i, delay)
  /\ UNCHANGED <<k, ctx, call>>

\* The test of k_timer_started at the start of k_timer_start ...
k_timer_start(t, i, delay) ==
  /\ Running(t) /\ call[t] = NoCall
  /\ i \in stopped
  /\ call' = [call EXCEPT ![t] = [fn |-> "start", timer |-> i, delay |-> delay]]
  /\ UNCHANGED <<k, ctx, timers, stopped>>

\* ... and the rest of it.
k_timer_start_end(t) ==
  /\ Running(t) /\ call[t].fn = "start"
  /\ z_timer_start(call[t].timer, call[t].delay)
  /\ call' = [call EXCEPT ![t] = NoCall]
  /\ UNCHANGED <<k, ctx>>

k_timer_stop(t, i) ==
  /\ Running(t) /\ call[t] = NoCall
  /\ i \notin stopped
  /\ call' = [call EXCEPT ![t] = [fn |-> "stop", timer |-> i, delay |-> 0]]
  /\ UNCHANGED <<k, ctx, timers, stopped>>

\* k_timer_stop that leaves a timer which fired meanwhile as it is.
k_timer_stop_end_KeepsMark(t) ==
  /\ Running(t) /\ call[t].fn = "stop"
  /\ timers' = Without(timers, call[t].timer)
  /\ call' = [call EXCEPT ![t] = NoCall]
  /\ UNCHANGED <<k, ctx, stopped>>

k_timer_stop_end(t) ==
  /\ Running(t) /\ call[t].fn = "stop"
  /\ timers' = Without(timers, call[t].timer)
  /\ stopped' = stopped \cup {call[t].timer}
  /\ call' = [call EXCEPT ![t] = NoCall]
  /\ UNCHANGED <<k, ctx>>

\* z_timers_process: from the end of the loop of z_sched_enter to its own loop.
z_timers_process ==
  /\ ctx.in = "sched_enter"
  /\ ~ HasExpired(k.timeouts)
  /\ timers' = Shift(timers, SLICE)
  /\ ctx' = [in |-> "timers", q |-> NULL]
  /\ UNCHANGED <<k, stopped, call>>

\* One iteration.  ends: the handler returns a value other than 0, or stops the
\* timer itself.
TimerFires(ends) ==
  LET i == timers[1].item
  IN  /\ ctx.in = "timers"
      /\ HasExpired(timers)
      /\ stopped' = IF ends THEN stopped \cup {i} ELSE stopped
      /\ timers' = IF ends THEN Tail(timers)
                           ELSE Schedule(Tail(timers), i, PERIOD[i])
      /\ UNCHANGED <<k, ctx, call>>

-------------------------------------------------------------------------------
\* k_timer_started tells the truth: exactly the timers not marked as stopped are
\* in the timers queue, each once.  A start or a stop that was decided on before a
\* tick, or before another thread ran, puts no timer in the queue twice and leaves
\* none in it that is taken for stopped.
TimersOK == /\ Items(timers) = Timers \ stopped
            /\ NoRepeat(timers)
===============================================================================
