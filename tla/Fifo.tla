--------------------------------- MODULE Fifo ---------------------------------
(***************************************************************************)
(* The fifo (fifo.c): a singly linked list of the application's items and  *)
(* a wait queue.  An item that is put while a thread waits goes to that    *)
(* thread, past the list.                                                  *)
(***************************************************************************)
EXTENDS Waiters

CONSTANTS
  FIFO,           \* the wait queue of the fifo, which names it
  Nodes           \* the items, as the memory they are in

ASSUME FifoAssumption == /\ FIFO \in Queues
                         /\ IsFiniteSet(Nodes) /\ NULL \notin Nodes

VARIABLES
  queue,          \* fifo.queue: [head, tail]
  next,           \* node -> its first word, where the next pointer is
  order           \* the items put and not taken yet, the oldest first (history)

fifoVars == <<queue, next, order>>

FifoInit == /\ queue = EmptySlist
            /\ order = <<>>

\* z_fifo_put that queues the item although a thread waits for one.
z_fifo_put_NoHandOver(i) ==
  /\ queue' = slist_append(queue, i)
  /\ next' = slist_append_next(next, queue, i)
  /\ order' = Append(order, i)
  /\ UNCHANGED <<k, swap_data>>

z_fifo_put(i) ==
  IF FirstPending(k, FIFO) # NULL
    THEN /\ z_unpend_first_and_swap(FIFO, i)
         /\ UNCHANGED fifoVars
    ELSE /\ queue' = slist_append(queue, i)
         /\ next' = slist_append_next(next, queue, i)
         /\ order' = Append(order, i)
         /\ UNCHANGED <<k, swap_data>>

k_fifo_put(c, i) == /\ Calls(c)
                    /\ z_fifo_put(i)
                    /\ UNCHANGED ctx

\* The item is queue.head; without one the caller waits, or gets NULL at once.
k_fifo_get(c, timeout) ==
  /\ Calls(c)
  /\ IF queue.head # NULL
       THEN /\ queue' = slist_get(next, queue)
            /\ order' = IF order = <<>> THEN order ELSE Tail(order)
            /\ UNCHANGED k
       ELSE /\ k' = z_pend_current_on(k, FIFO, timeout)
            /\ UNCHANGED <<queue, order>>
  /\ UNCHANGED <<ctx, swap_data, next>>

\* The end of a k_fifo_get that waited, and the item it returns.
k_fifo_get_return(t) == PendReturn(t, FIFO) /\ UNCHANGED fifoVars

Received(t) == IF PendResult(k, t) = "OK" THEN {swap_data[t]} ELSE {}

k_fifo_cancel_wait(c) == z_cancel_all_pending(c, FIFO) /\ UNCHANGED fifoVars

-------------------------------------------------------------------------------
\* The linked list holds the items put and not taken, each once and in order, and
\* tail is its last node: whatever else was done with the memory of the items.
FifoIntact ==
  /\ Reached(next, queue.head) = order
  /\ order # <<>> => queue.tail = order[Len(order)]
===============================================================================
