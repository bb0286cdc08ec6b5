---------------------------- MODULE ObjectsProofs ----------------------------
(***************************************************************************)
(* The blocks of a slab in a fifo, the signal, the message queue, and the  *)
(* mutexes with their condition variables are correct for any number of    *)
(* threads, blocks, messages, mutexes and condition variables.             *)
(*                                                                         *)
(* The invariant has a part for the kernel (WaitsInv) and one for every    *)
(* kind of object.  An action preserves the part of its own kind, see      *)
(* ServiceProofs and BufferProofs; the other parts only depend on the      *)
(* variables and on the waits of their own objects, which the action       *)
(* leaves alone.                                                           *)
(***************************************************************************)
EXTENDS Objects, BufferProofs

\* The kinds of programs the theorems are about.
Proved == {"blocks", "signal", "msgq", "mutex"}

\* The wait queues that a loop wakes up all the threads of.
DrainedOf(u) == QueuesOf(u) \cap ({SIGNAL} \cup Condvars)

\* The kernel is in order, and the threads only wait on the objects of the program.
Program == use \in Proved /\ Serving(QueuesOf(use), DrainedOf(use))

WaitsInv ==
  /\ use \in Proved /\ Served(QueuesOf(use), DrainedOf(use))
  /\ fds = [t \in Threads |-> {}]

IInv == WaitsInv /\ MutexInv /\ SignalInv /\ MsgqInv /\ BlocksInv

-------------------------------------------------------------------------------
(* The kernel under the programs *)

\* The wait queues of the objects are different wait queues.
LEMMA ObjectQueues ==
  /\ QueuesOf("blocks") = {FIFO, SLAB} /\ QueuesOf("signal") = {SIGNAL}
  /\ QueuesOf("msgq") = {MSGQ} /\ QueuesOf("mutex") = Mutexes \cup Condvars
  /\ FIFO \in Queues /\ SLAB \in Queues /\ SIGNAL \in Queues /\ MSGQ \in Queues
  /\ Mutexes \subseteq Queues /\ Condvars \subseteq Queues
  /\ FIFO # SLAB /\ SIGNAL \notin {FIFO, SLAB} /\ MSGQ \notin {FIFO, SLAB, SIGNAL}
  /\ \A q \in Mutexes \cup Condvars : q \notin {FIFO, SLAB, SIGNAL, MSGQ}
  /\ \A m \in Mutexes : m \notin Condvars
<1>1. /\ QueuesOf("blocks") = {FIFO, SLAB} /\ QueuesOf("signal") = {SIGNAL}
      /\ QueuesOf("msgq") = {MSGQ} /\ QueuesOf("mutex") = Mutexes \cup Condvars
  BY Zenon DEF QueuesOf
<1>2. \A u, v \in Proved : u # v => QueuesOf(u) \cap QueuesOf(v) = {}
  BY Zenon, ObjectsAssumption DEF Proved, Kinds
<1>3. /\ QueuesOf("blocks") \cap QueuesOf("signal") = {}
      /\ QueuesOf("blocks") \cap QueuesOf("msgq") = {}
      /\ QueuesOf("signal") \cap QueuesOf("msgq") = {}
      /\ QueuesOf("blocks") \cap QueuesOf("mutex") = {}
      /\ QueuesOf("signal") \cap QueuesOf("mutex") = {}
      /\ QueuesOf("msgq") \cap QueuesOf("mutex") = {}
  BY Zenon, <1>2 DEF Proved
<1> QED BY Zenon, <1>1, <1>3, FifoAssumption, MemSlabAssumption, SignalAssumption, MsgqAssumption,
           MutexAssumption

LEMMA QueuesOfProved ==
  ASSUME use \in Proved
  PROVE  QueuesOf(use) \subseteq Queues
BY Zenon, ObjectQueues DEF Proved

\* The program of each kind, in the words of its services.
LEMMA ServicesOf ==
  /\ use = "blocks" => QueuesOf(use) = {FIFO, SLAB} /\ DrainedOf(use) = {}
  /\ use = "signal" => QueuesOf(use) = {SIGNAL} /\ DrainedOf(use) = {SIGNAL}
  /\ use = "msgq" => QueuesOf(use) = {MSGQ} /\ DrainedOf(use) = {}
  /\ use = "mutex" => QueuesOf(use) = Locks /\ DrainedOf(use) = Condvars
<1>1. /\ QueuesOf("blocks") = {FIFO, SLAB} /\ QueuesOf("signal") = {SIGNAL}
      /\ QueuesOf("msgq") = {MSGQ} /\ QueuesOf("mutex") = Mutexes \cup Condvars
      /\ SIGNAL \notin {FIFO, SLAB} /\ MSGQ \notin {FIFO, SLAB, SIGNAL}
      /\ \A q \in Mutexes \cup Condvars : q \notin {FIFO, SLAB, SIGNAL, MSGQ}
      /\ \A m \in Mutexes : m \notin Condvars
  BY Zenon, ObjectQueues
<1>2. DrainedOf("blocks") = {}
  BY Zenon, <1>1 DEF DrainedOf
<1>3. DrainedOf("signal") = {SIGNAL}
  BY Zenon, <1>1 DEF DrainedOf
<1>4. DrainedOf("msgq") = {}
  BY Zenon, <1>1 DEF DrainedOf
<1>5. DrainedOf("mutex") = Condvars
  BY Zenon, <1>1 DEF DrainedOf
<1> QED BY Zenon, <1>1, <1>2, <1>3, <1>4, <1>5 DEF Locks

\* Nobody waits, or is woken up, on the objects of another kind.
LEMMA Elsewhere ==
  ASSUME Program, NEW q \in Queues, q \notin QueuesOf(use)
  PROVE  Handed(k, q) = {} /\ Waiting(k, q) = {}
BY HandedDef, WaitingDef, Disjoint DEF Program, Serving

\* The scheduler and the loops hand something to the threads that wait for the signal
\* or on a condition variable, to no other.
LEMMA SysStep ==
  ASSUME Program, Sys
  PROVE  /\ Program'
         /\ \A q \in {FIFO, SLAB, MSGQ} \cup Mutexes :
              Handed(k', q) = Handed(k, q) /\ Waiting(k', q) \subseteq Waiting(k, q)
         /\ Waiting(k', SIGNAL) \subseteq Waiting(k, SIGNAL)
         /\ ctx.in \in {"cancel", "drain"} => ctx' = ctx
<1> DEFINE S == {}
<1>1. /\ S \in SUBSET Threads /\ Settled(k, S) /\ LoopOK /\ use' = use
  BY Zenon DEF Program, Serving, Sys
<1>2. /\ ctx.in = "cancel" => ctx.q \in QueuesOf(use)
      /\ ctx.in = "drain" => ctx.q \in QueuesOf(use) \cap ({SIGNAL} \cup Condvars)
      /\ InThread \in LoopsOf(QueuesOf(use), DrainedOf(use))
      /\ [in |-> "sched_enter", q |-> NULL] \in LoopsOf(QueuesOf(use), DrainedOf(use))
  BY DEF Program, Serving, DrainedOf, LoopsOf, InThread
<1>3. QueuesOf(use) \subseteq Queues
  BY Zenon, QueuesOfProved DEF Program, Serving
<1> HIDE DEF S
<1>4. CASE Tick \/ k_yield_from_isr \/ CancelStep \/ \E t \in Threads : k_yield(t)
  <2>1. /\ Settled(k', S) /\ NoneHanded(k, k') /\ k'.on = k.on /\ LoopOK'
        /\ ctx' \in {ctx, InThread, [in |-> "sched_enter", q |-> NULL]}
        /\ ctx.in \in {"cancel", "drain"} => ctx' = ctx
    BY Zenon, <1>1, <1>2, <1>3, <1>4, SystemSettled
  <2>2. Program'
    BY Zenon, <1>1, <1>2, <2>1 DEF Program, Serving, S
  <2> QED BY Zenon, <2>1, <2>2, ObjectQueues DEF NoneHanded
<1>5. CASE DrainStep
  <2>1. ctx.q \in Queues /\ ctx.q \in {SIGNAL} \cup Condvars
    BY Zenon, <1>2, <1>3, <1>5 DEF DrainStep
  <2>2. /\ Settled(k', S) /\ HandedTo(k, k', ctx.q, k.wq.next[ctx.q])
        /\ k'.on = k.on /\ LoopOK' /\ ctx' = ctx /\ ctx.in = "drain"
    BY Zenon, <1>1, <1>5, <2>1, DrainSettled
  <2>3. Program'
    BY Zenon, <1>1, <2>2 DEF Program, Serving, S
  <2>4. \A q \in {FIFO, SLAB, MSGQ} \cup Mutexes : q \in Queues /\ q # ctx.q
    BY Zenon, <2>1, ObjectQueues
  <2>5. \A q \in Queues : Waiting(k', q) \subseteq Waiting(k, q)
    BY Zenon, <2>2 DEF HandedTo
  <2> QED BY Zenon, <2>2, <2>3, <2>4, <2>5, ObjectQueues DEF HandedTo
<1> QED BY Zenon, <1>4, <1>5 DEF Sys
-------------------------------------------------------------------------------
(* All the objects together *)

\* At the start all the blocks are on the free list, in the order of their addresses.
LEMMA SlabStart ==
  ASSUME SlabInit
  PROVE  /\ next \in [Nodes -> Nodes \cup {NULL}] /\ held = [c \in Callers |-> {}]
         /\ \E free \in Seq(Nodes) : Listed(next, free_list, free) /\ Elems(free) = Nodes
<1> DEFINE N == Cardinality(Nodes)
<1>1. N \in Nat \ {0}
  BY Zenon, FifoAssumption, MemSlabAssumption, FS_CardinalityType, FS_EmptySet
<1> HIDE DEF N
<1>2. PICK block \in Bijection(1 .. N, Nodes) :
        /\ free_list = block[1] /\ next \in [Nodes -> Nodes \cup {NULL}]
        /\ \A i \in 1 .. N : next[block[i]] = IF i = N THEN NULL ELSE block[i + 1]
  BY Zenon DEF SlabInit, N
<1>3. /\ block \in [1 .. N -> Nodes]
      /\ \A i, j \in 1 .. N : block[i] = block[j] => i = j
      /\ \A n \in Nodes : \E i \in 1 .. N : block[i] = n
  BY Zenon DEF Bijection, Injection, Surjection, IsInjective
<1>4. block \in Seq(Nodes) /\ Len(block) = N
  BY <1>1, <1>3
<1>5. Listed(next, free_list, block)
  BY Zenon, <1>1, <1>2, <1>3, <1>4 DEF Listed
<1>6. Elems(block) = Nodes
  BY <1>3, <1>4 DEF Elems
<1> QED BY Zenon, <1>2, <1>4, <1>5, <1>6 DEF SlabInit

\* The initial states satisfy the invariant.
LEMMA InitInv ==
  ASSUME Init, use \in Proved
  PROVE  IInv
<1>1. KernelInit /\ {} \in SUBSET Threads
  BY Zenon DEF Init
<1>2. /\ KernelOK(k, {}) /\ CurrentOK(k) /\ ctx = InThread
      /\ k.on = [t \in Threads |-> NULL] /\ k.expired = {} /\ k.canceled = {}
  BY Zenon, <1>1, InitKernel
<1>3. /\ Settled(k, {}) /\ LoopOK /\ ctx \in LoopsOf(QueuesOf(use), DrainedOf(use))
      /\ \A t \in Threads : k.on[t] \in QueuesOf(use) \cup {NULL}
  BY Zenon, <1>2 DEF Settled, LoopOK, LoopsOf
<1>4. \A q \in Queues : Handed(k, q) = {} /\ Waiting(k, q) = {}
  <2>1. \A t \in Threads : k.on[t] = NULL
    BY Zenon, <1>2
  <2>2. NULL \notin Queues
    BY Zenon, Disjoint
  <2> QED BY <2>1, <2>2, HandedDef, WaitingDef
<1>5. /\ Handed(k, FIFO) = {} /\ Waiting(k, FIFO) = {}
      /\ Handed(k, SLAB) = {} /\ Waiting(k, SLAB) = {}
      /\ Handed(k, MSGQ) = {} /\ Waiting(k, MSGQ) = {}
      /\ Waiting(k, SIGNAL) = {}
      /\ \A m \in Mutexes : Handed(k, m) = {} /\ Waiting(k, m) = {}
  BY Zenon, <1>4, ObjectQueues
<1>6. WaitsInv
  <2>1. QueuesOf(use) \subseteq Queues /\ DrainedOf(use) \subseteq QueuesOf(use)
    BY Zenon, QueuesOfProved DEF DrainedOf
  <2>2. swap_data = [t \in Threads |-> NULL] /\ fds = [t \in Threads |-> {}]
    BY Zenon DEF Init, PollInit
  <2> QED BY Zenon, <1>3, <2>1, <2>2 DEF WaitsInv, Served, Serving
<1>7. MutexInv
  <2>1. /\ lock = [m \in Mutexes |-> 0] /\ owner = [m \in Mutexes |-> NULL]
        /\ relock = [t \in Threads |-> NULL] /\ has = [t \in Threads |-> {}]
        /\ reclaimed = {}
    BY Zenon DEF Init, MutexInit
  <2>2. \A m \in Mutexes : Owned(m)
    BY Zenon, <1>5, <2>1 DEF Owned
  <2> QED BY Zenon, <1>5, <2>1, <2>2 DEF MutexInv
<1>8. SignalInv
  BY Zenon, <1>5 DEF Init, SignalInit, SignalInv
<1>9. MsgqInv
  <2>1. /\ msgq = [buf |-> [i \in 0 .. MAX_MSGS - 1 |-> NULL],
                   read |-> 0, write |-> 0, used |-> 0]
        /\ role = [t \in Threads |-> "none"] /\ accepted = <<>>
        /\ due = [t \in Threads |-> NULL] /\ inOrder = TRUE
    BY Zenon DEF Init, MsgqInit
  <2>2. MAX_MSGS \in Nat /\ MAX_MSGS > 0
    BY MsgqAssumption
  <2>3. /\ msgq \in Buffers /\ msgq.read = 0 /\ msgq.write = 0 /\ msgq.used = 0
    BY <2>1, <2>2 DEF Buffers
  <2>4. Place(0 + 0) = 0
    BY <2>2 DEF Place
  <2>5. Queued(msgq, accepted)
    BY <2>1, <2>3, <2>4 DEF Queued
  <2> QED BY Zenon, <1>5, <2>1, <2>5 DEF MsgqInv
<1>10. BlocksInv
  <2>1. PICK free \in Seq(Nodes) : Listed(next, free_list, free) /\ Elems(free) = Nodes
    BY Zenon, SlabStart DEF Init
  <2>2. /\ next \in [Nodes -> Nodes \cup {NULL}] /\ held = [c \in Callers |-> {}]
        /\ queue.head = NULL /\ order = <<>>
    BY Zenon, SlabStart DEF Init, FifoInit, EmptySlist
  <2>3. Moved = {} /\ Elems(order) = {}
    BY <1>5, <2>2 DEF Moved, Elems
  <2>4. order \in Seq(Nodes) /\ Len(order) = 0 /\ Listed(next, queue.head, order)
    BY <2>2 DEF Listed
  <2>5. Partition(Elems(free), Elems(order), held, Moved, swap_data)
    BY Zenon, <2>1, <2>2, <2>3 DEF Partition
  <2> QED BY Zenon, <1>5, <2>1, <2>2, <2>4, <2>5 DEF BlocksInv
<1> QED BY Zenon, <1>6, <1>7, <1>8, <1>9, <1>10 DEF IInv

\* A program does not touch the waits on the objects of the other kinds.
LEMMA Apart ==
  ASSUME WaitsInv, WaitsInv', use' = use, NEW q \in Queues, q \notin QueuesOf(use)
  PROVE  Handed(k', q) = Handed(k, q) /\ Waiting(k', q) = {} /\ Handed(k, q) = {}
<1>1. /\ \A t \in Threads : k.on[t] \in QueuesOf(use) \cup {NULL}
      /\ \A t \in Threads : k'.on[t] \in QueuesOf(use) \cup {NULL}
  BY Zenon DEF WaitsInv, Served, Serving
<1>2. q # NULL
  BY Zenon, Disjoint
<1>3. \A t \in Threads : k.on[t] # q /\ k'.on[t] # q
  BY <1>1, <1>2
<1>4. Handed(k, q) = {}
  BY <1>3, HandedDef
<1>5. Handed(k', q) = {}
  BY Zenon, <1>3, HandedDef
<1>6. Waiting(k', q) = {}
  BY <1>3, WaitingDef
<1> QED BY Zenon, <1>4, <1>5, <1>6

\* The services of one kind preserve the invariants of the other kinds.
LEMMA OthersStep ==
  ASSUME IInv, WaitsInv', use' = use
  PROVE  /\ use # "blocks" /\ UNCHANGED <<fifoVars, slabVars>> => BlocksInv'
         /\ use # "signal" /\ UNCHANGED signaled => SignalInv'
         /\ use # "msgq" /\ UNCHANGED msgqVars => MsgqInv'
         /\ use # "mutex" /\ UNCHANGED mutexVars => MutexInv'
<1>1. WaitsInv /\ use \in Proved
  BY Zenon DEF IInv, WaitsInv
<1>2. ASSUME use # "blocks", UNCHANGED <<fifoVars, slabVars>>
      PROVE  BlocksInv'
  <2>1. FIFO \in Queues /\ SLAB \in Queues /\ FIFO \notin QueuesOf(use) /\ SLAB \notin QueuesOf(use)
    BY Zenon, <1>1, <1>2, ObjectQueues DEF Proved
  <2>2. /\ Handed(k', FIFO) = Handed(k, FIFO) /\ Waiting(k', FIFO) = {} /\ Handed(k, FIFO) = {}
        /\ Handed(k', SLAB) = Handed(k, SLAB) /\ Waiting(k', SLAB) = {} /\ Handed(k, SLAB) = {}
    BY Zenon, <1>1, <2>1, Apart
  <2>3. Moved = {}
    BY Zenon, <2>2 DEF Moved
  <2> QED BY Zenon, <1>2, <2>2, <2>3, BlocksFrame DEF IInv
<1>3. ASSUME use # "signal", UNCHANGED signaled
      PROVE  SignalInv'
  <2>1. SIGNAL \in Queues /\ SIGNAL \notin QueuesOf(use)
    BY Zenon, <1>1, <1>3, ObjectQueues DEF Proved
  <2>2. Waiting(k', SIGNAL) = {}
    BY Zenon, <1>1, <2>1, Apart
  <2> QED BY Zenon, <1>3, <2>2, SignalFrame DEF IInv
<1>4. ASSUME use # "msgq", UNCHANGED msgqVars
      PROVE  MsgqInv'
  <2>1. MSGQ \in Queues /\ MSGQ \notin QueuesOf(use)
    BY Zenon, <1>1, <1>4, ObjectQueues DEF Proved
  <2>2. Handed(k', MSGQ) = {} /\ Waiting(k', MSGQ) = {} /\ Handed(k, MSGQ) = {}
    BY Zenon, <1>1, <2>1, Apart
  <2>3. Waiting(k, MSGQ) = {}
    BY Zenon, <1>1, <2>1, Elsewhere DEF WaitsInv, Served, Program
  <2> QED BY Zenon, <1>4, <2>2, <2>3, MsgqFrame DEF IInv
<1>5. ASSUME use # "mutex", UNCHANGED mutexVars
      PROVE  MutexInv'
  <2>1. \A m \in Mutexes : m \in Queues /\ m \notin QueuesOf(use)
    BY Zenon, <1>1, <1>5, ObjectQueues DEF Proved
  <2>2. \A m \in Mutexes : Handed(k', m) = Handed(k, m) /\ Waiting(k', m) = {}
    BY Zenon, <1>1, <2>1, Apart
  <2> QED BY Zenon, <1>5, <2>2, MutexFrame DEF IInv
<1> QED BY Zenon, <1>2, <1>3, <1>4, <1>5

\* Every step preserves the invariant.
LEMMA NextInv ==
  ASSUME IInv, [Next]_vars
  PROVE  IInv'
<1>1. use \in Proved /\ WaitsInv /\ MutexInv /\ SignalInv /\ MsgqInv /\ BlocksInv
  BY Zenon DEF IInv, WaitsInv
<1>2. use # "flags" /\ use # "poll"
  BY Zenon, <1>1 DEF Proved
<1>3. CASE OnBlocks
  <2>1. /\ use = "blocks" /\ use' = use /\ UNCHANGED <<signaled, msgqVars, mutexVars>>
        /\ fds' = fds /\ fds = [t \in Threads |-> {}]
        /\ BlocksNext(Users) /\ Served({FIFO, SLAB}, {})
    BY Zenon, <1>1, <1>3, ServicesOf DEF OnBlocks, WaitsInv, pollVars
  <2>2. Served({FIFO, SLAB}, {})' /\ BlocksInv'
    BY Zenon, <1>1, <2>1, BlocksStep, ObjectsAssumption
  <2>3. WaitsInv'
    BY Zenon, <1>1, <2>1, <2>2, ServicesOf DEF WaitsInv
  <2> QED BY Zenon, <2>1, <2>2, <2>3, OthersStep DEF IInv
<1>4. CASE OnSignal
  <2>1. /\ use = "signal" /\ use' = use /\ UNCHANGED <<fifoVars, slabVars, msgqVars, mutexVars>>
        /\ fds' = fds /\ fds = [t \in Threads |-> {}]
        /\ SignalNext(Users) /\ Served({SIGNAL}, {SIGNAL})
    BY Zenon, <1>1, <1>4, ServicesOf DEF OnSignal, WaitsInv, pollVars
  <2>2. Served({SIGNAL}, {SIGNAL})' /\ SignalInv'
    BY Zenon, <1>1, <2>1, SignalStep, ObjectsAssumption
  <2>3. WaitsInv'
    BY Zenon, <1>1, <2>1, <2>2, ServicesOf DEF WaitsInv
  <2> QED BY Zenon, <2>1, <2>2, <2>3, OthersStep DEF IInv
<1>5. CASE OnMsgq
  <2>1. /\ use = "msgq" /\ use' = use /\ UNCHANGED <<fifoVars, slabVars, signaled, mutexVars>>
        /\ fds' = fds /\ fds = [t \in Threads |-> {}]
        /\ MsgqNext /\ Served({MSGQ}, {})
    BY Zenon, <1>1, <1>5, ServicesOf DEF OnMsgq, WaitsInv, pollVars
  <2>2. Served({MSGQ}, {})' /\ MsgqInv'
    BY Zenon, <1>1, <2>1, MsgqStep
  <2>3. WaitsInv'
    BY Zenon, <1>1, <2>1, <2>2, ServicesOf DEF WaitsInv
  <2> QED BY Zenon, <2>1, <2>2, <2>3, OthersStep DEF IInv
<1>6. CASE OnMutex
  <2>1. /\ use = "mutex" /\ use' = use /\ UNCHANGED <<fifoVars, slabVars, signaled, msgqVars>>
        /\ fds' = fds /\ fds = [t \in Threads |-> {}]
        /\ MutexNext /\ Served(Locks, Condvars)
    BY Zenon, <1>1, <1>6, ServicesOf DEF OnMutex, WaitsInv, pollVars
  <2>2. Served(Locks, Condvars)' /\ MutexInv'
    BY Zenon, <1>1, <2>1, MutexStep
  <2>3. WaitsInv'
    BY Zenon, <1>1, <2>1, <2>2, ServicesOf DEF WaitsInv
  <2> QED BY Zenon, <2>1, <2>2, <2>3, OthersStep DEF IInv
<1>7. CASE Sys
  <2>1. UNCHANGED <<swap_data, fifoVars, slabVars, signaled, msgqVars, pollVars, mutexVars>>
    BY Zenon, <1>7 DEF Sys, objects
  <2>2. /\ Program'
        /\ \A q \in {FIFO, SLAB, MSGQ} \cup Mutexes :
             Handed(k', q) = Handed(k, q) /\ Waiting(k', q) \subseteq Waiting(k, q)
        /\ Waiting(k', SIGNAL) \subseteq Waiting(k, SIGNAL)
        /\ ctx.in \in {"cancel", "drain"} => ctx' = ctx
    BY Zenon, <1>1, <1>7, SysStep DEF WaitsInv, Served, Program
  <2>3. WaitsInv'
    BY Zenon, <1>1, <2>1, <2>2 DEF WaitsInv, Served, Program, pollVars
  <2>4. MutexInv'
    BY Zenon, <1>1, <2>1, <2>2, MutexFrame
  <2>5. SignalInv'
    BY SMTT(30), <1>1, <2>1, <2>2, SignalFrame
  <2>6. MsgqInv'
    BY Zenon, <1>1, <2>1, <2>2, MsgqFrame
  <2>7. BlocksInv'
    BY Zenon, <1>1, <2>1, <2>2, BlocksFrame
  <2> QED BY Zenon, <2>3, <2>4, <2>5, <2>6, <2>7 DEF IInv
<1>8. CASE UNCHANGED vars
  <2>1. UNCHANGED <<k, ctx, use, swap_data, fifoVars, slabVars, signaled, msgqVars, pollVars,
                    mutexVars>>
    BY Zenon, <1>8 DEF vars, objects
  <2>2. Serving(QueuesOf(use), DrainedOf(use))'
    BY <1>1, <2>1, Zenon DEF WaitsInv, Served, Serving, LoopOK
  <2>3. WaitsInv'
    BY Zenon, <1>1, <2>1, <2>2 DEF WaitsInv, Served, pollVars
  <2> QED BY Zenon, <1>1, <2>1, <2>3, MutexFrame, SignalFrame, MsgqFrame, BlocksFrame DEF IInv
<1> QED BY Zenon, <1>2, <1>3, <1>4, <1>5, <1>6, <1>7, <1>8 DEF Next, OnFlags, OnPoll

\* The whole invariant, for the programs of these kinds.
THEOREM ObjectsInvariant == Spec => [](use \in Proved => IInv)
<1>1. Init => (use \in Proved => IInv)
  BY Zenon, InitInv
<1>2. (use \in Proved => IInv) /\ [Next]_vars => (use \in Proved => IInv)'
  <2> SUFFICES ASSUME use \in Proved => IInv, [Next]_vars, use' \in Proved
               PROVE  IInv'
    BY Zenon
  <2>1. use' = use
    BY Zenon DEF Next, OnBlocks, OnFlags, OnSignal, OnMsgq, OnPoll, OnMutex, Sys, vars
  <2> QED BY Zenon, <2>1, NextInv
<1> QED BY <1>1, <1>2, PTL DEF Spec

-------------------------------------------------------------------------------
(* The properties of the objects *)

\* The threads that were handed something, as the objects see them.
LEMMA HandedOverIs ==
  ASSUME NEW q
  PROVE  HandedOver(q) = Handed(k, q)
BY Zenon DEF HandedOver, Handed, PendResult

\* Nobody polls in these programs.
LEMMA WaitersOK ==
  ASSUME IInv
  PROVE  WaitersInv
<1>1. WaitQueuesOK(k) /\ fds = [t \in Threads |-> {}]
  BY Zenon DEF IInv, WaitsInv, Served, Serving, Settled, KernelOK
<1>2. \A q : Polled(q) = {}
  BY Zenon, <1>1 DEF Polled
<1>3. ASSUME NEW q \in Queues
      PROVE  Ring(k.wq, {q} \cup Waiting(k, q) \cup Polled(q))
  <2>1. {q} \cup Waiting(k, q) \cup Polled(q) = {q} \cup Waiting(k, q)
    BY Zenon, <1>2
  <2> QED BY Zenon, <1>1, <2>1 DEF WaitQueuesOK
<1> QED BY Zenon, <1>3 DEF WaitersInv

LEMMA WaitInVainOK ==
  ASSUME IInv
  PROVE  NoWaitInVain
<1>1. Waiting(k, FLAGS) = {}
  <2>1. QueuesOf("flags") = {FLAGS} /\ FLAGS \in Queues
    BY Zenon, FlagsAssumption DEF QueuesOf
  <2>2. use \in Kinds /\ use # "flags" /\ "flags" \in Kinds /\ Program
    BY Zenon DEF IInv, WaitsInv, Served, Program, Proved, Kinds
  <2>3. QueuesOf(use) \cap QueuesOf("flags") = {}
    BY Zenon, <2>2, ObjectsAssumption
  <2> QED BY Zenon, <2>1, <2>2, <2>3, Elsewhere
<1>2. ctx = InThread => (Waiting(k, SIGNAL) # {} => ~ signaled)
  BY DEF IInv, SignalInv, InThread
<1> QED BY Zenon, <1>1, <1>2 DEF IInv, BlocksInv, MutexInv, NoWaitInVain

LEMMA HolderOK ==
  ASSUME IInv
  PROVE  OneHolder
<1> SUFFICES ASSUME NEW m \in Mutexes \ reclaimed
             PROVE  /\ Cardinality(Holders(m) \cup HandedOver(m)) = lock[m]
                    /\ Holders(m) \cap HandedOver(m) = {}
                    /\ \A t \in Holders(m) : owner[m] = t
  BY Zenon DEF OneHolder
<1>1. Owned(m) /\ lock[m] \in {0, 1}
  BY Zenon DEF IInv, MutexInv
<1>2. HandedOver(m) = Handed(k, m) /\ Handed(k, m) \subseteq Threads
  BY Zenon, HandedOverIs, HandedDef
<1>3. Holders(m) \cap HandedOver(m) = {} /\ \A t \in Holders(m) : owner[m] = t
  BY Zenon, <1>1, <1>2 DEF Owned, Holders
<1>4. CASE lock[m] = 0
  <2>1. Holders(m) \cup HandedOver(m) = {}
    BY Zenon, <1>1, <1>2, <1>4 DEF Owned, Holders
  <2> QED BY Zenon, <1>3, <1>4, <2>1, FS_EmptySet
<1>5. CASE lock[m] = 1
  <2>1. PICK u \in Threads : \A t \in Threads : (m \in has[t] \/ t \in Handed(k, m)) <=> t = u
    BY <1>1, <1>5 DEF Owned
  <2>2. Holders(m) \cup HandedOver(m) = {u}
    BY Zenon, <1>2, <2>1 DEF Holders
  <2> QED BY Zenon, <1>3, <1>5, <2>2, FS_Singleton
<1> QED BY Zenon, <1>1, <1>4, <1>5

LEMMA OrderOK ==
  ASSUME IInv
  PROVE  FifoOrder
<1>1. /\ msgq \in Buffers /\ accepted \in Seq(Messages) /\ Len(accepted) = msgq.used
      /\ \A i \in 1 .. msgq.used : accepted[i] = msgq.buf[Place(msgq.read + i - 1)]
      /\ inOrder = TRUE
  BY Zenon DEF IInv, MsgqInv, Queued
<1>2. msgq.read \in 0 .. MAX_MSGS - 1 /\ msgq.used \in 0 .. MAX_MSGS
  BY Zenon, <1>1 DEF Buffers
<1>3. ASSUME NEW i \in 1 .. msgq.used
      PROVE  (msgq.read + i - 1) % MAX_MSGS = Place(msgq.read + i - 1)
  <2>1. msgq.read + i - 1 \in Nat /\ msgq.read + i - 1 < 2 * MAX_MSGS
    BY <1>2, MsgqAssumption
  <2> QED BY Zenon, <2>1, Wrap
<1>4. Contents = [i \in 1 .. msgq.used |-> accepted[i]]
  BY Zenon, <1>1, <1>3 DEF Contents
<1>5. accepted = [i \in 1 .. msgq.used |-> accepted[i]]
  BY <1>1
<1> QED BY Zenon, <1>1, <1>4, <1>5 DEF FifoOrder

LEMMA MixedOK ==
  ASSUME IInv
  PROVE  NoMixedWaiters
BY DEF IInv, MsgqInv, NoMixedWaiters, InThread

LEMMA FifoOK ==
  ASSUME IInv
  PROVE  FifoIntact
<1>1. /\ next \in [Nodes -> Nodes \cup {NULL}]
      /\ order \in Seq(Nodes) /\ Listed(next, queue.head, order)
      /\ Len(order) # 0 => queue.tail = order[Len(order)]
  BY Zenon DEF IInv, BlocksInv
<1>2. Reached(next, queue.head) = order
  BY Zenon, <1>1, FifoAssumption, ReachedListed
<1>3. order # <<>> => Len(order) # 0
  BY <1>1
<1> QED BY Zenon, <1>1, <1>2, <1>3 DEF FifoIntact

LEMMA ConservedOK ==
  ASSUME IInv
  PROVE  BlocksConserved
<1>1. PICK free \in Seq(Nodes) :
        /\ Listed(next, free_list, free)
        /\ Partition(Elems(free), Elems(order), held, Moved, swap_data)
  BY Zenon DEF IInv, BlocksInv
<1>2. /\ next \in [Nodes -> Nodes \cup {NULL}] /\ order \in Seq(Nodes)
      /\ Listed(next, queue.head, order)
  BY Zenon DEF IInv, BlocksInv
<1>3. Reached(next, free_list) = free
  BY Zenon, <1>1, <1>2, FifoAssumption, ReachedListed
<1>4. HandedOver(FIFO) \cup HandedOver(SLAB) = Moved
  BY Zenon, HandedOverIs DEF Moved
<1> DEFINE InFree(b)  == {<<"free", i>> : i \in {i \in DOMAIN free : free[i] = b}}
           InFifo(b)  == {<<"fifo", i>> : i \in {i \in DOMAIN order : order[i] = b}}
           AtHeld(b)  == {<<"held", c>> : c \in {c \in Callers : b \in held[c]}}
           InSwap(b)  == {<<"swap", t>> : t \in {t \in Moved : swap_data[t] = b}}
<1>5. /\ DOMAIN free = 1 .. Len(free) /\ DOMAIN order = 1 .. Len(order)
      /\ \A i, j \in 1 .. Len(free) : free[i] = free[j] => i = j
      /\ \A i, j \in 1 .. Len(order) : order[i] = order[j] => i = j
  <2>1. DOMAIN free = 1 .. Len(free) /\ DOMAIN order = 1 .. Len(order)
    BY <1>1, <1>2
  <2> QED BY ONLY Zenon, <1>1, <1>2, <2>1 DEF Listed
<1>6. ASSUME NEW b \in Nodes
      PROVE  \E p : InFree(b) \cup InFifo(b) \cup AtHeld(b) \cup InSwap(b) = {p}
  <2>1. /\ b \notin Elems(free) => InFree(b) = {}
        /\ b \notin Elems(order) => InFifo(b) = {}
    BY Zenon, <1>5 DEF Elems
  <2>2. /\ (\A c \in Callers : b \notin held[c]) => AtHeld(b) = {}
        /\ (\A t \in Moved : swap_data[t] # b) => InSwap(b) = {}
    BY Zenon
  <2>3. CASE b \in Elems(free)
    <3>1. PICK i \in 1 .. Len(free) : free[i] = b
      BY Zenon, <2>3 DEF Elems
    <3>2. {j \in DOMAIN free : free[j] = b} = {i}
      BY Zenon, <1>5, <3>1
    <3>3. InFree(b) = {<<"free", i>>}
      BY Zenon, <3>2
    <3>4. InFifo(b) = {} /\ AtHeld(b) = {} /\ InSwap(b) = {}
      BY Zenon, <1>1, <2>1, <2>2, <2>3 DEF Partition
    <3> HIDE DEF InFree, InFifo, AtHeld, InSwap
    <3>5. InFree(b) \cup InFifo(b) \cup AtHeld(b) \cup InSwap(b) = {<<"free", i>>}
      BY Zenon, <3>3, <3>4
    <3> QED BY Zenon, <3>5
  <2>4. CASE b \in Elems(order)
    <3>1. PICK i \in 1 .. Len(order) : order[i] = b
      BY Zenon, <2>4 DEF Elems
    <3>2. {j \in DOMAIN order : order[j] = b} = {i}
      BY Zenon, <1>5, <3>1
    <3>3. InFifo(b) = {<<"fifo", i>>}
      BY Zenon, <3>2
    <3>4. InFree(b) = {} /\ AtHeld(b) = {} /\ InSwap(b) = {}
      BY Zenon, <1>1, <2>1, <2>2, <2>4 DEF Partition
    <3> HIDE DEF InFree, InFifo, AtHeld, InSwap
    <3>5. InFree(b) \cup InFifo(b) \cup AtHeld(b) \cup InSwap(b) = {<<"fifo", i>>}
      BY Zenon, <3>3, <3>4
    <3> QED BY Zenon, <3>5
  <2>5. CASE \E c \in Callers : b \in held[c]
    <3>1. PICK c \in Callers : b \in held[c]
      BY Zenon, <2>5
    <3>2. {d \in Callers : b \in held[d]} = {c}
      BY Zenon, <1>1, <3>1 DEF Partition
    <3>3. AtHeld(b) = {<<"held", c>>}
      BY Zenon, <3>2
    <3>4. InFree(b) = {} /\ InFifo(b) = {} /\ InSwap(b) = {}
      BY Zenon, <1>1, <2>1, <2>2, <3>1 DEF Partition
    <3> HIDE DEF InFree, InFifo, AtHeld, InSwap
    <3>5. InFree(b) \cup InFifo(b) \cup AtHeld(b) \cup InSwap(b) = {<<"held", c>>}
      BY Zenon, <3>3, <3>4
    <3> QED BY Zenon, <3>5
  <2>6. CASE \E t \in Moved : swap_data[t] = b
    <3>1. PICK t \in Moved : swap_data[t] = b
      BY Zenon, <2>6
    <3>2. {u \in Moved : swap_data[u] = b} = {t}
      BY Zenon, <1>1, <3>1 DEF Partition
    <3>3. InSwap(b) = {<<"swap", t>>}
      BY Zenon, <3>2
    <3>4. InFree(b) = {} /\ InFifo(b) = {} /\ AtHeld(b) = {}
      BY Zenon, <1>1, <2>1, <2>2, <3>1 DEF Partition
    <3> HIDE DEF InFree, InFifo, AtHeld, InSwap
    <3>5. InFree(b) \cup InFifo(b) \cup AtHeld(b) \cup InSwap(b) = {<<"swap", t>>}
      BY Zenon, <3>3, <3>4
    <3> QED BY Zenon, <3>5
  <2> HIDE DEF InFree, InFifo, AtHeld, InSwap
  <2> QED BY Zenon, <1>1, <2>3, <2>4, <2>5, <2>6 DEF Partition
<1>7. ASSUME NEW b \in Nodes
      PROVE  Cardinality(InFree(b) \cup InFifo(b) \cup AtHeld(b) \cup InSwap(b)) = 1
  <2> HIDE DEF InFree, InFifo, AtHeld, InSwap
  <2> QED BY Zenon, <1>6, FS_Singleton
<1> QED BY Zenon, <1>3, <1>4, <1>7 DEF BlocksConserved

\* The wait queues of the objects hold exactly the threads that wait on them, the run
\* queue exactly the READY threads, and the timeouts queue the ones with a wake-up,
\* whatever is handed over, canceled, or times out.
THEOREM ObjectsKernelCorrect ==
  Spec => [](use \in Proved => WaitersInv /\ RunQueueInv /\ TimeoutsInv)
<1>1. IInv => WaitersInv /\ RunQueueInv /\ TimeoutsInv
  BY Zenon, WaitersOK DEF IInv, WaitsInv, Served, Serving, Settled, KernelOK, RunQueueInv,
     TimeoutsInv
<1> QED BY <1>1, ObjectsInvariant, PTL

\* No thread waits for an item, a block, a signal or a mutex that is there.
THEOREM NobodyWaitsInVain == Spec => [](use \in Proved => NoWaitInVain)
<1>1. IInv => NoWaitInVain
  BY Zenon, WaitInVainOK
<1> QED BY <1>1, ObjectsInvariant, PTL

\* A locked mutex has exactly one holder, or one thread it is handed to.
THEOREM MutexesOwned == Spec => [](use \in Proved => OneHolder)
<1>1. IInv => OneHolder
  BY SMTT(30), HolderOK
<1> QED BY <1>1, ObjectsInvariant, PTL

\* Every message accepted by k_msgq_put is delivered once, in the order of acceptance.
THEOREM MessagesInOrder == Spec => [](use \in Proved => FifoOrder)
<1>1. IInv => FifoOrder
  BY OrderOK
<1> QED BY <1>1, ObjectsInvariant, PTL

\* The wait queue of a message queue never has a consumer while there is a message, or
\* a producer while there is room.
THEOREM WaitersNotMixed == Spec => [](use \in Proved => NoMixedWaiters)
<1>1. IInv => NoMixedWaiters
  BY MixedOK
<1> QED BY <1>1, ObjectsInvariant, PTL

\* The linked list of the fifo has the items put and not taken, in order.
THEOREM FifoCorrect == Spec => [](use \in Proved => FifoIntact)
<1>1. IInv => FifoIntact
  BY FifoOK
<1> QED BY <1>1, ObjectsInvariant, PTL

\* No block of a slab leaks, and none has two owners.
THEOREM NoBlockLost == Spec => [](use \in Proved => BlocksConserved)
<1>1. IInv => BlocksConserved
  BY ConservedOK
<1> QED BY <1>1, ObjectsInvariant, PTL

==============================================================================
