--------------------------------- MODULE Poll ---------------------------------
(***************************************************************************)
(* k_poll (poll.c) on semaphores, in a build with CONFIG_POLLING: the      *)
(* nodes of a wait queue are threads and poll descriptors, and the kernel  *)
(* wakes up the thread of the descriptor without handing it anything.      *)
(* Like the heads, the nodes of the descriptors are members of Queues.     *)
(***************************************************************************)
EXTENDS Waiters, SequencesExt

CONSTANTS
  Sems,           \* the wait queues of the semaphores, which name them
  Pollfds,        \* the descriptors
  OBJ,            \* descriptor -> pfd.obj
  PollSets,       \* the arrays of descriptors of the application, as sets
  PollTimeouts,   \* the timeouts it polls with
  POLL,           \* stands in k.on for the NULL queue of a thread in k_poll
  LIMIT           \* sem.limit

ASSUME PollAssumption == /\ Sems \cup Pollfds \cup {POLL} \subseteq Queues
                         /\ Sems \cap Pollfds = {}
                         /\ POLL \notin Sems \cup Pollfds
                         /\ OBJ \in [Pollfds -> Sems]
                         /\ PollSets \subseteq SUBSET Pollfds
                         /\ LIMIT \in 1 .. 255

VARIABLES
  count,          \* semaphore -> sem.count
  ready,          \* the descriptors whose revents is K_POLL_READY
  fds             \* thread -> the array of the k_poll it waits in

pollVars == <<count, ready, fds>>

PollInit == /\ count = [q \in Sems |-> 0]
            /\ ready = {}
            /\ fds = [t \in Threads |-> {}]

Link(d, p) == dlist_append(d, OBJ[p], p)
Unlink(d, p) == dlist_remove(d, p)

\* The last loop of k_poll that forgets the descriptors.
Cleanup_Forgets(d, S) == d

\* The last loop of k_poll, over the descriptors that are not ready.
Cleanup(d, S) == FoldLeft(Unlink, d, SetToSeq(S))

\* k_poll, from the call to its return or to the switch.
k_poll(t, S, timeout) ==
  LET now == {p \in S : count[OBJ[p]] > 0}
      d   == FoldLeft(Link, k.wq, SetToSeq(S \ now))
  IN  /\ Running(t)
      /\ S \cap UNION {fds[u] : u \in Threads} = {}
      /\ ready' = (ready \ S) \cup now
      /\ IF now # {} \/ timeout = K_NO_WAIT
           THEN /\ k' = [k EXCEPT !.wq = Cleanup(d, S \ now)]
                /\ UNCHANGED fds
           ELSE /\ k' = z_pend_current([k EXCEPT !.wq = d,
                          !.on = [@ EXCEPT ![t] = POLL]], timeout)
                /\ fds' = [fds EXCEPT ![t] = S]
      /\ UNCHANGED <<ctx, swap_data, count>>

k_poll_return(t) ==
  /\ Returning(t) /\ k.on[t] = POLL
  /\ k' = Returned([k EXCEPT !.wq = Cleanup(@, fds[t] \ ready)], t)
  /\ fds' = [fds EXCEPT ![t] = {}]
  /\ UNCHANGED <<ctx, swap_data, count, ready>>

\* z_unpend_first_thread with CONFIG_POLLING, when the wait queue is not empty.
z_unpend_first_polling(s, q) ==
  LET tie == s.wq.next[q]
      t   == IF tie \in Pollfds THEN CHOOSE u \in Threads : tie \in fds[u] ELSE tie
  IN  z_wake_up([s EXCEPT !.wq = dlist_init(dlist_remove(@, tie), t)], t)

\* A thread gets the unit; for a descriptor, as for none, the unit is counted.
k_sem_give(c, q) ==
  LET tie == FirstPending(k, q)
  IN  /\ Calls(c)
      /\ k' = IF tie = NULL THEN k ELSE z_unpend_first_polling(k, q)
      /\ ready' = ready \cup (Pollfds \cap {tie})
      /\ count' = IF tie \in Threads \/ count[q] = LIMIT THEN count
                  ELSE [count EXCEPT ![q] = @ + 1]
      /\ UNCHANGED <<ctx, swap_data, fds>>

k_sem_take(c, q, timeout) ==
  /\ Calls(c)
  /\ \/ /\ count[q] > 0
        /\ count' = [count EXCEPT ![q] = @ - 1]
        /\ UNCHANGED k
     \/ /\ count[q] = 0
        /\ k' = z_pend_current_on(k, q, timeout)
        /\ UNCHANGED count
  /\ UNCHANGED <<ctx, swap_data, ready, fds>>

k_sem_take_return(t) == \E q \in Sems : PendReturn(t, q) /\ UNCHANGED pollVars

\* The services of the semaphores and k_poll; the takers wait forever or not at all.
PollNext ==
  \/ \E c \in Callers, q \in Sems :
       \/ k_sem_give(c, q)
       \/ \E n \in Timeouts(c) \cap {K_NO_WAIT, K_FOREVER} : k_sem_take(c, q, n)
  \/ \E t \in Threads :
       \/ \E S \in PollSets, n \in PollTimeouts : k_poll(t, S, n)
       \/ k_poll_return(t) \/ k_sem_take_return(t)

-------------------------------------------------------------------------------
\* The descriptors that are in the wait queue of an object.
Polled(q) ==
  {p \in Pollfds : OBJ[p] = q /\ p \notin ready /\ \E t \in Threads : p \in fds[t]}
===============================================================================
