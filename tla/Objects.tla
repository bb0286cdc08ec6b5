------------------------------- MODULE Objects -------------------------------
(***************************************************************************)
(* Programs that use the objects which hand something over to the threads  *)
(* that wait on them: a fifo of the blocks of a memory slab, flags, a      *)
(* signal, a message queue, semaphores that are polled, or mutexes with    *)
(* their condition variables.  A program (use) has the objects of one kind.*)
(***************************************************************************)
EXTENDS MemSlab, Flags, Signal, Msgq, Poll, Mutex

CONSTANTS
  Users,          \* the callers of the blocks, the flags and the signal
  Uses            \* the kinds of programs

Kinds == {"blocks", "flags", "signal", "msgq", "poll", "mutex"}

\* The wait queues of the objects of a kind.
QueuesOf(u) ==
  CASE u = "blocks" -> {FIFO, SLAB}
    [] u = "flags"  -> {FLAGS}
    [] u = "signal" -> {SIGNAL}
    [] u = "msgq"   -> {MSGQ}
    [] u = "poll"   -> Sems \cup Pollfds \cup {POLL}
    [] u = "mutex"  -> Mutexes \cup Condvars

ASSUME ObjectsAssumption ==
  /\ Users \subseteq Callers
  /\ Uses \subseteq Kinds
  /\ \A u, v \in Kinds : u # v => QueuesOf(u) \cap QueuesOf(v) = {}

VARIABLE use      \* the kind of the program

objects == <<swap_data, fifoVars, slabVars, flagsVars, signaled, msgqVars, pollVars,
             mutexVars>>
vars == <<k, ctx, objects, use>>

Init == /\ KernelInit
        /\ swap_data = [t \in Threads |-> NULL]
        /\ FifoInit /\ SlabInit /\ FlagsInit /\ SignalInit /\ MsgqInit /\ PollInit
        /\ MutexInit
        /\ use \in Uses

OnBlocks ==
  /\ use = "blocks"
  /\ UNCHANGED <<flagsVars, signaled, msgqVars, pollVars, mutexVars, use>>
  /\ BlocksNext(Users)

OnFlags ==
  /\ use = "flags"
  /\ UNCHANGED <<fifoVars, slabVars, signaled, msgqVars, pollVars, mutexVars, use>>
  /\ FlagsNext(Users)

OnSignal ==
  /\ use = "signal"
  /\ UNCHANGED <<fifoVars, slabVars, flagsVars, msgqVars, pollVars, mutexVars, use>>
  /\ SignalNext(Users)

OnMsgq ==
  /\ use = "msgq"
  /\ UNCHANGED <<fifoVars, slabVars, flagsVars, signaled, pollVars, mutexVars, use>>
  /\ MsgqNext

OnPoll ==
  /\ use = "poll"
  /\ UNCHANGED <<fifoVars, slabVars, flagsVars, signaled, msgqVars, mutexVars, use>>
  /\ PollNext

OnMutex ==
  /\ use = "mutex"
  /\ UNCHANGED <<fifoVars, slabVars, flagsVars, signaled, msgqVars, pollVars, use>>
  /\ MutexNext

\* A thread yields between two calls, not within k_condvar_wait.
Sys == /\ \/ Tick \/ k_yield_from_isr \/ DrainStep \/ CancelStep
          \/ \E t \in Threads : relock[t] = NULL /\ k_yield(t)
       /\ UNCHANGED <<objects, use>>

Next == OnBlocks \/ OnFlags \/ OnSignal \/ OnMsgq \/ OnPoll \/ OnMutex \/ Sys

Spec == Init /\ [][Next]_vars

-------------------------------------------------------------------------------
\* Every wait queue is one circular list of its head, exactly the threads that
\* wait on it and the descriptors of the threads that poll its object: a node of a
\* wait or of a k_poll that ended, which is on the stack of its thread, is in none,
\* whether it ended by a hand-over, a notification, a cancel or a timeout.
WaitersInv ==
  \A q \in Queues \ (Pollfds \cup {POLL}) :
    Ring(k.wq, {q} \cup Waiting(k, q) \cup Polled(q))

\* No thread waits for what the object has: an item while the fifo is not empty,
\* a block while one is free, a bit of its mask that is set, a raised signal, a
\* mutex that is not locked.
\* Every service that gives something looks at the wait queue in the same
\* critical section, so nothing slips in between.
NoWaitInVain ==
  ctx = InThread =>
    /\ Waiting(k, FIFO) # {} => queue.head = NULL
    /\ Waiting(k, SLAB) # {} => free_list = NULL
    /\ \A t \in Waiting(k, FLAGS) : swap_data[t].mask \cap flags = {}
    /\ Waiting(k, SIGNAL) # {} => ~ signaled
    /\ \A m \in Mutexes : Waiting(k, m) # {} => lock[m] # 0
===============================================================================
