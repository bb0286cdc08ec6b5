-------------------------------- MODULE Events --------------------------------
(***************************************************************************)
(* The events (event.c), which z_event_q_process triggers at the end of    *)
(* the tick interrupt, after the timeouts of the threads and the timers.   *)
(***************************************************************************)
EXTENDS Timers

CONSTANT Events

VARIABLES
  events,         \* z_event_q.first (see TimeoutList)
  scheduled       \* the events whose scheduled flag is set

eventsVars == <<events, scheduled>>

EventsInit == events = <<>> /\ scheduled = {}

z_event_schedule(e, n) == /\ events' = Schedule(events, e, n)
                          /\ scheduled' = scheduled \cup {e}

z_event_reschedule(e, n) == /\ events' = Schedule(Without(events, e), e, n)
                            /\ UNCHANGED scheduled

\* With K_NO_WAIT the handler runs at once, and the queue stays as it is.
k_event_schedule(c, e, n) ==
  /\ Calls(c)
  /\ e \notin scheduled
  /\ IF n = K_NO_WAIT THEN UNCHANGED eventsVars ELSE z_event_schedule(e, n)
  /\ UNCHANGED <<k, ctx>>

k_event_cancel(c, e) ==
  /\ Calls(c)
  /\ e \in scheduled
  /\ events' = Without(events, e)
  /\ scheduled' = scheduled \ {e}
  /\ UNCHANGED <<k, ctx>>

\* z_event_q_process: from the end of the loop of the timers to its own loop.
z_event_q_process ==
  /\ ctx.in = "timers"
  /\ ~ HasExpired(timers)
  /\ events' = Shift(events, SLICE)
  /\ ctx' = [in |-> "events", q |-> NULL]
  /\ UNCHANGED <<k, scheduled>>

\* EventFires that leaves the flag set.
EventFires_StaysScheduled(e, again) ==
  /\ ctx.in = "events"
  /\ HasExpired(events)
  /\ e = events[1].item
  /\ events' = IF again = 0 THEN Tail(events) ELSE Schedule(Tail(events), e, again)
  /\ UNCHANGED <<ctx, scheduled>>

\* One iteration on the event e, whose handler may schedule it again (again > 0).
EventFires(e, again) ==
  /\ ctx.in = "events"
  /\ HasExpired(events)
  /\ e = events[1].item
  /\ events' = IF again = 0 THEN Tail(events) ELSE Schedule(Tail(events), e, again)
  /\ scheduled' = IF again = 0 THEN scheduled \ {e} ELSE scheduled
  /\ UNCHANGED ctx

\* The end of z_sched_enter and of the tick interrupt.
SchedExit ==
  /\ ctx.in = "events"
  /\ ~ HasExpired(events)
  /\ k' = IF Preemptible(k) THEN z_scheduler(k) ELSE k
  /\ ctx' = InThread

-------------------------------------------------------------------------------
\* The flag of an event says whether it is in the events queue, and no event is in
\* it twice, whichever of a trigger, a cancel, a reschedule and a schedule from
\* its own handler comes first.
EventsOK == /\ Items(events) = scheduled
            /\ NoRepeat(events)
===============================================================================
