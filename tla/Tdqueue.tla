------------------------------- MODULE Tdqueue -------------------------------
(***************************************************************************)
(* The delta queue of dstruct/tdqueue.c, the doubly linked variant that    *)
(* the repository offers to applications.  ROOT is its list head.          *)
(* The functions are called from one thread: a call is one step, and its   *)
(* loop a recursive function of the node it has reached.  The calls are    *)
(* made on the list of TimeoutList too.                                    *)
(***************************************************************************)
EXTENDS Tqueue, Dlist

VARIABLES
  nodes,          \* the dnode of every item and of the queue
  delay_shift,    \* the field of the items (a union with timeout)
  tdlist          \* the reference list (history)

tdqueueVars == <<nodes, delay_shift, tdlist>>

\* The walk of z_tdqueue_schedule and of tdqueue_shift over the items whose delay
\* is up after the given time: the items it has passed, the node it stops at and
\* what is left of the time there.
Walk(d, time) ==
  LET w[n \in 0 .. Cardinality(Entries)] ==
        IF n = 0 THEN [past |-> {}, at |-> d.next[ROOT], left |-> time]
        ELSE LET p == w[n - 1]
             IN  IF p.at # ROOT /\ delay_shift[p.at] <= p.left
                   THEN [past |-> p.past \cup {p.at},
                         at   |-> d.next[p.at],
                         left |-> p.left - delay_shift[p.at]]
                   ELSE p
  IN  w[Cardinality(Entries)]

z_tdqueue_schedule(d, i, timeout) ==
  LET w == Walk(d, timeout)
  IN  /\ nodes' = dlist_insert(d, w.at, i)
      /\ delay_shift' = [e \in Entries |->
                     CASE e = i    -> w.left
                       [] e = w.at -> delay_shift[e] - w.left
                       [] OTHER    -> delay_shift[e]]

tdqueue_schedule(i, timeout) ==
  /\ i \notin Items(tdlist)
  /\ z_tdqueue_schedule(dlist_init(nodes, i), i, timeout)
  /\ tdlist' = Schedule(tdlist, i, timeout)

tdqueue_shift(time) ==
  LET w == Walk(nodes, time)
  IN  /\ delay_shift' = [e \in Entries |->
                     CASE e \in w.past -> 0
                       [] e = w.at     -> delay_shift[e] - w.left
                       [] OTHER        -> delay_shift[e]]
      /\ tdlist' = Shift(tdlist, time)
      /\ UNCHANGED nodes

\* tdqueue_pop does not test for an empty queue: it takes the head of the list for
\* the node of an item, whose delay is whatever lies before the head in memory, so
\* that it may pop that.  The queue stays empty then; what tdqueue_pop_reschedule
\* writes before the head is not modelled.
Pops == ~ DLIST_EMPTY(nodes, ROOT) => delay_shift[nodes.next[ROOT]] = 0

Popped(l) == IF l = <<>> THEN l ELSE Tail(l)

tdqueue_pop ==
  /\ Pops
  /\ nodes' = dlist_remove(nodes, nodes.next[ROOT])
  /\ tdlist' = Popped(tdlist)
  /\ UNCHANGED delay_shift

tdqueue_pop_reschedule(timeout) ==
  LET i == nodes.next[ROOT]
  IN  /\ Pops
      /\ z_tdqueue_schedule(dlist_init(dlist_remove(nodes, i), i), i, timeout)
      /\ tdlist' = IF tdlist = <<>> THEN tdlist ELSE Schedule(Tail(tdlist), i, timeout)

\* The delay of the item is not added to its successor's.
tdqueue_remove_DropsTime(i) ==
  /\ i \in Items(tdlist)
  /\ nodes' = dlist_remove(nodes, i)
  /\ tdlist' = Without(tdlist, i)
  /\ UNCHANGED delay_shift

tdqueue_remove(i) ==
  LET next_ == nodes.next[i]
  IN  /\ i \in Items(tdlist)
      /\ nodes' = dlist_remove(nodes, i)
      /\ delay_shift' = IF next_ = ROOT THEN delay_shift
                  ELSE [delay_shift EXCEPT ![next_] = (@ + delay_shift[i]) % WIDTH]
      /\ tdlist' = Without(tdlist, i)

-----------------------------------------------------------------------------
TdqueueInit == /\ nodes = [next |-> [i \in Entries \cup {ROOT} |-> i],
                           prev |-> [i \in Entries \cup {ROOT} |-> i]]
               /\ delay_shift = [i \in Entries |-> 0]
               /\ tdlist = <<>>

TdqueueCall == \/ tdqueue_pop
               \/ \E time \in Delta :
                    \/ tdqueue_shift(time) \/ tdqueue_pop_reschedule(time)
                    \/ \E i \in Entries : tdqueue_schedule(i, time)
               \/ \E i \in Entries : tdqueue_remove(i)

\* Between two calls the doubly linked queue is the list of TimeoutList: a ring of
\* the head and the items of that list in their order, in which the delays up to an
\* item add up to the time it has left, whatever was removed or rescheduled between.
AgreesWithTdlist ==
  LET left[n \in 0 .. Len(tdlist)] ==
        IF n = 0 THEN 0 ELSE left[n - 1] + delay_shift[tdlist[n].item]
  IN  /\ Ring(nodes, {ROOT} \cup Items(tdlist))
      /\ \A n \in DOMAIN tdlist : /\ Hop(nodes, ROOT, n) = tdlist[n].item
                                  /\ left[n] = tdlist[n].left
==============================================================================
