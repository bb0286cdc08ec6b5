------------------------------- MODULE MemSlab -------------------------------
(***************************************************************************)
(* The memory slab (mem_slab.c on alloc/slab.c), used with a fifo of its   *)
(* blocks the way examples/fifo-slab does: blocks are allocated, put in    *)
(* the fifo, taken from it and freed.  The free list of the slab and the   *)
(* list of the fifo go through the same word, the first one of a block     *)
(* (next): a block on two lists corrupts both.                             *)
(***************************************************************************)
EXTENDS Fifo, Functions

CONSTANT SLAB     \* the wait queue of the memory slab, which names it

ASSUME MemSlabAssumption == SLAB \in Queues \ {FIFO} /\ Nodes # {}

VARIABLES
  free_list,      \* slab.allocator.free_list
  held            \* caller -> the blocks the application has there (history)

slabVars == <<free_list, held>>

\* z_slab_alloc_finalize_init pushes the blocks one by one on the free list: a
\* chain of all of them, in some order of their addresses.
SlabInit ==
  /\ \E block \in Bijection(1 .. Cardinality(Nodes), Nodes) :
       /\ free_list = block[1]
       /\ next \in [Nodes -> Nodes \cup {NULL}]
       /\ \A i \in 1 .. Cardinality(Nodes) :
            next[block[i]] = IF i = Cardinality(Nodes) THEN NULL ELSE block[i + 1]
  /\ held = [c \in Callers |-> {}]

Take(c, B) == held' = [held EXCEPT ![c] = @ \cup B]
Drop(c, b) == held' = [held EXCEPT ![c] = @ \ {b}]

\* The two branches without a free block: -ENOMEM, and waiting for one.
k_mem_slab_alloc(c, timeout) ==
  /\ Calls(c)
  /\ \/ /\ free_list # NULL
        /\ free_list' = next[free_list]
        /\ Take(c, {free_list})
        /\ UNCHANGED k
     \/ /\ free_list = NULL
        /\ k' = IF timeout = K_NO_WAIT THEN k
                ELSE z_pend_current_on(k, SLAB, timeout)
        /\ UNCHANGED slabVars
  /\ UNCHANGED <<ctx, swap_data, fifoVars>>

\* The end of a k_mem_slab_alloc that waited.
k_mem_slab_alloc_return(t) ==
  /\ PendReturn(t, SLAB)
  /\ Take(t, Received(t))
  /\ UNCHANGED <<fifoVars, free_list>>

\* k_mem_slab_free that puts the block on the free list although it gave it to a
\* thread.
k_mem_slab_free_Twice(c, b) ==
  /\ Calls(c)
  /\ b \in held[c]
  /\ IF FirstPending(k, SLAB) # NULL
       THEN z_unpend_first_and_swap(SLAB, b)
       ELSE UNCHANGED <<k, swap_data>>
  /\ next' = [next EXCEPT ![b] = free_list]
  /\ free_list' = b
  /\ Drop(c, b)
  /\ UNCHANGED <<ctx, queue, order>>

k_mem_slab_free(c, b) ==
  /\ Calls(c)
  /\ b \in held[c]
  /\ IF FirstPending(k, SLAB) # NULL
       THEN /\ z_unpend_first_and_swap(SLAB, b)
            /\ UNCHANGED <<next, free_list>>
       ELSE /\ next' = [next EXCEPT ![b] = free_list]
            /\ free_list' = b
            /\ UNCHANGED <<k, swap_data>>
  /\ Drop(c, b)
  /\ UNCHANGED <<ctx, queue, order>>

-------------------------------------------------------------------------------
(* The use of the fifo on the blocks *)

Put(c, b) == /\ b \in held[c]
             /\ k_fifo_put(c, b)
             /\ Drop(c, b)
             /\ UNCHANGED free_list

Get(c, timeout) ==
  /\ k_fifo_get(c, timeout)
  /\ Take(c, {queue.head} \ {NULL})
  /\ UNCHANGED free_list

GetReturn(t) == /\ k_fifo_get_return(t)
                /\ Take(t, Received(t))
                /\ UNCHANGED free_list

\* The services of the slab and of the fifo, called by U, and their ends.
BlocksNext(U) ==
  \/ \E c \in U :
       \/ \E n \in Timeouts(c) : k_mem_slab_alloc(c, n) \/ Get(c, n)
       \/ \E b \in held[c] : k_mem_slab_free(c, b) \/ Put(c, b)
       \/ k_fifo_cancel_wait(c) /\ UNCHANGED slabVars
  \/ \E t \in Threads : k_mem_slab_alloc_return(t) \/ GetReturn(t)
  \/ CancelEnd(FIFO) /\ UNCHANGED <<fifoVars, slabVars>>

-------------------------------------------------------------------------------
\* Every block is in exactly one place, whoever allocates, frees, puts, gets,
\* waits, times out or is canceled, and in whatever order: on the free list, in
\* the fifo, with the application, or on its way to the one thread that was woken
\* up with it.  No block leaks and none is given to two owners.
BlocksConserved ==
  LET free  == Reached(next, free_list)
      moved == HandedOver(FIFO) \cup HandedOver(SLAB)
      Places(b) == {<<"free", i>> : i \in {i \in DOMAIN free : free[i] = b}}
              \cup {<<"fifo", i>> : i \in {i \in DOMAIN order : order[i] = b}}
              \cup {<<"held", c>> : c \in {c \in Callers : b \in held[c]}}
              \cup {<<"swap", t>> : t \in {t \in moved : swap_data[t] = b}}
  IN  \A b \in Nodes : Cardinality(Places(b)) = 1
===============================================================================
