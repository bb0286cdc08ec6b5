# A TLA+ model of the AVRTOS kernel

AVRTOS is a small real-time kernel for 8-bit AVR microcontrollers: one core,
threads with their own stacks, a tick interrupt, and the usual objects on top.
This directory holds TLA+ modules translated from the C and assembly sources
under `src/src/avrtos/`, the TLC models that check them on small instances, and
TLAPS proofs of the central invariants for any number of threads and objects.
The kernel objects, the services that run in the tick interrupt, the byte ring
and the drivers with a protocol of their own are modelled.

Paths below are relative to `src/src/avrtos/`.

## 1. Inventory

| Part | Source | State | Operations | What is hard about it |
|---|---|---|---|---|
| Run queue, thread switch | `kernel.c`, `arch/thread_switch_preempt.S` | ring of run queue nodes, `ready_count`, `run_queue`, `current`, thread states and flags | `z_schedule`, `z_scheduler`, `z_suspend`, yields, scheduler lock | threads readied by interrupts while another thread pends, stops or idles |
| Tick, timeouts | `kernel.c`, `arch/thread_switch_preempt.S` | `timeouts_queue`, slice counter | `z_sched_enter`, `z_schedule_wake_up`, preemption | expiry racing with a wake-up; slices of several ticks |
| Wait queues | `kernel.c`, `dstruct/dlist.c` | list head per object, one node per thread | pend on, unpend first, cancel first / all | the node is unlinked by three parties; stale links |
| Thread life cycle | `kernel.c` | join wait queue | create, start, abort, join, set priority | tests outside of the interrupt lock |
| Timeouts queue | `dstruct/tqueue.c` | next pointers, delta times | schedule, shift, pop, remove, reschedule | differences of unsigned 16-bit times |
| Semaphore | `semaphore.c` | count, limit, wait queue | take, give, cancel | hand-over of a unit to a thread that has not run yet |
| Mutex, condition variable | `mutex.c`, `condvar.c` | lock, owner, wait queues | lock, unlock, cancel; wait, broadcast | owner changes late; timeouts while handing over |
| Message queue | `msgq.c` | ring buffer, cursors, one wait queue | put, get, purge, peek | producers and consumers in one wait queue; copies that bypass the buffer |
| Fifo, memory slab | `fifo.c`, `dstruct/slist.c`, `mem_slab.c`, `alloc/slab.c` | next pointers in the items, free list in the blocks, `swap_data` | put/get, alloc/free, cancel | hand-over through `swap_data` while waits time out |
| Flags, signal | `flags.c`, `signal.c` | bits, masks in `swap_data`, wait queue | poll, notify, reset; poll, raise, cancel | walk of a wait queue that the walk changes |
| Poll | `poll.c`, `kernel.c` (`CONFIG_POLLING`) | descriptors linked into the objects' wait queues | `k_poll` | several nodes per thread |
| Timers, events | `timer.c`, `event.c` | two more timeouts queues, the mark "stopped", the flag `scheduled` | start/stop, schedule/reschedule/cancel, processing in the tick | tests outside of the lock, handlers that reschedule |
| Work queue | `workqueue.c` | a thread, a fifo of works, events of delayable works | submit, schedule, reschedule, cancel, yieldeach | the `next` pointer is also the "free" mark |
| tdqueue, byte ring | `dstruct/tdqueue.c`, `ring.c` | delta times on a doubly linked list; two cursors | every function | 8-bit and unsigned differences |
| USART, I2C | `drivers/usart.c`, `drivers/i2c.c` | transfer contexts, control registers | asynchronous transfers, interrupt handlers | interrupts between the stores of a call; statuses the bus chooses |
| SD card, CAN controller | `devices/sd.c`, `devices/mcp2515.c`, `drivers/spi.c` | chip select, retries; buffers of the chip | init, block read/write; send, receive, filters | every command may fail; the chip acts between two transactions |
| The rest | allocators, clock, atomics, debugging, bindings | | | sequential or pure I/O |

`PROJECT.json` lists every component with its status, and the hazards of this
code with the line at which each one bites.

How the parts interact: every object is a counter or buffer plus a wait queue.
A service disables the interrupts, looks at the object, and either completes,
or appends the current thread to the wait queue and calls `z_pend_current()`,
which switches to another thread in the middle of the service. Another thread
or an interrupt handler later removes it from the wait queue and makes it ready
(`z_unpend_first_thread()`), with what it waited for *already reserved* for it;
or the tick does, when its time is up; or a cancellation does. The waiting
thread learns which of these happened from two flags, and only once it runs.

## 2. Modules

| Module | Models |
|---|---|
| `Dlist` | the pointers of `dstruct/dlist.c`; `Ring(d, S)`: the nodes `S` form one circular doubly linked list |
| `TimeoutList` | the timeouts queue as a sequence of items with their remaining time (the interface the kernel relies on) |
| `Tqueue` | `dstruct/tqueue.c` itself, pointer by pointer, one step per loop iteration, shown to agree with `TimeoutList` |
| `Kernel` | run queue, timeouts, wait queues, tick interrupt, thread switch |
| `Scheduler` | thread life cycle on `Kernel` |
| `Semaphore` | `semaphore.c` on `Kernel` |
| `SemaphoreAbs`, `SemaphoreRefinement` | what a semaphore promises, and the mapping under which `Semaphore` implements it |
| `Waiters` | what the objects below share: who may call, the wait queue functions that cancel or hand over (`z_unpend_first_and_swap`, `z_cancel_all_pending`), the end of a wait |
| `Slist`, `Fifo`, `MemSlab` | `dstruct/slist.c`, `fifo.c`, `mem_slab.c` with `alloc/slab.c` |
| `Flags`, `Signal`, `Msgq`, `Poll` | `flags.c`, `signal.c`, `msgq.c`, `poll.c` on semaphores |
| `Mutex` | `mutex.c` composed with `condvar.c` |
| `Objects` | programs that use the objects of one of these kinds |
| `Timers`, `Events`, `Workqueue` | `timer.c`, `event.c`, `workqueue.c`, composed with each other, with `Fifo` and with the tick |
| `Tdqueue`, `Bytering` | `dstruct/tdqueue.c`, `ring.c` |
| `Usart`, `I2c`, `Sd`, `Mcp2515` | `drivers/usart.c` (asynchronous), `drivers/i2c.c` (interrupt driven), `devices/sd.c` with the chip select of `drivers/spi.c`, `devices/mcp2515.c` |
| `Standalone` | one behaviour per part that needs no thread of the kernel |
| `YieldOrder` | `Semaphore` with a history variable on the order in which threads run |
| `KernelProofs` | lemmas on the lists and on every function of `Kernel` |
| `SemaphoreProofs`, `SchedulerProofs`, `WorkqueueProofs`, `StandaloneProofs` | theorems and proofs about the module they are named for |
| `ServiceProofs`, `BufferProofs`, `ObjectsProofs` | the services of the objects, then the theorems about `Objects` |
| `MC*` | the instances that TLC checks |

**State.** The kernel state is one record `k` with the fields of `z_ker` and of
the threads; the header of `Kernel.tla` gives the correspondence. Thread flags
are sets of threads. The list nodes are functions `next` and `prev`, so that an
unlink of a node that is not in a list does in the model what it does in
memory; `NULL` has a node too, since writing through it does not trap on AVR.
`tie` is a union in the code, so scheduling a wake-up overwrites the run queue
node.

**Steps.** C functions that run with the interrupts disabled are operators from
kernel states to kernel states, with their C names. A service is one action
when it is one critical section. It is several actions when it

* loops over a list: `ctx` says which loop runs, and everything else waits;
* tests something before it disables the interrupts (`k_thread_start`,
  `k_thread_abort`): the test is an action, and `pc` remembers it;
* pends: the part after the switch is an action `..._return` of the thread,
  taken when it runs again, before it does anything else.

The tick is three actions: the shift of the timeouts, one step per expired
thread, and the preemption test; in `Workqueue` the processing of the timers and
of the events, one step per handler, comes between the last two. Other interrupt handlers appear as gives, puts,
gets, broadcasts and `k_yield_from_isr` whenever the interrupts are enabled.

**Hardware.** The drivers are modelled with the part of the chip they talk to,
which is external code: the transmitter and receiver of the USART, the statuses
of the TWI unit, an SD card that answers, refuses or stays mute, a CAN controller
that sends and stores frames between any two transactions. A step of the USART
model is a store of the thread or an interrupt handler; of the I2C model one
interrupt; of the SD and CAN models one transaction on the bus.

**Data** is abstract: no stacks or messages' bytes; of the registers only the
bits that enable interrupts. A block, a work or a frame is a name, a byte of an
I2C buffer its index. Debug events, canaries and monitoring are left out.

**Configuration.** The default one of `avrtos_conf.h` as far as it matters:
`CONFIG_KERNEL_THREAD_IDLE`, `CONFIG_THREAD_JOIN`, no re-entrancy, polling only
in `Poll`, assertions off (the conditions they state are properties here).

## 3. Runs

| Run | Shows | Distinct states |
|---|---|---|
| `scheduler` | run queue, join queues and timeouts stay consistent, and no join is lost, under create, start, abort, join, sleep, lock, priority changes and preemption | 131,656 |
| `semaphore` | units are conserved, no wake-up is lost, timed waits end, the abstract semaphore is implemented; the inductive invariant of the proofs | 83,759 |
| `objects` | three threads and the interrupts on six kinds of objects (below) | 1,837,559 |
| `workqueue` | every submitted work is in one place and starts; a delayable work is never submitted by its event while it is queued; the timer and event queues agree with the marks that the services test | 304,368 |
| `standalone` | both delta queues agree with the abstract list; the ring delivers in order, but for what a push on a full ring loses; USART, I2C and SD move every byte once, leave the bus free, and the calls end; CAN frames are sent and returned once, but for two losses (below) | 393,316 |

`objects` starts in one of six programs. *blocks*: threads and interrupts
allocate blocks of a slab, put them into a fifo, get and free them; no block is
lost or has two owners (`BlocksConserved`), the fifo's list is intact
(`FifoIntact`). *flags*: bits are consumed once (`ConsumedOnce`). *signal*.
*msgq*: messages arrive once and in order (`FifoOrder`), producers and consumers
never wait together (`NoMixedWaiters`). *poll*: descriptors of a `k_poll` that
ended are in no queue (part of `WaitersInv`). *mutex*: a mutex is taken exactly
when one thread holds it or is being handed it (`OneHolder`). In all of them
the wait queues are exactly the waiters (`WaitersInv`), and the run queue and the
timeouts are consistent. Nobody waits for an item, a block, a bit, a signal or a
mutex that is there (`NoWaitInVain`), nor, in *msgq*, for a message or a place
(`NoMixedWaiters`); no such property is stated of *poll* and of the condition
variables.

Seven runs show a disagreement between the code and what the repository says of
it; they are expected to end in a counterexample:

* `semaphore_stale_link`: when a timed wait expires, `z_sched_enter()` unlinks
  the thread's wait queue node without reinitialising it, the precaution that
  the comment in `z_unpend_first_thread()` explains. If that thread sleeps
  later, the end of the sleep unlinks the node again, through its old links,
  and removes a waiting thread from the queue.
* `mutex_hand_over`: `k_mutex_unlock()` leaves `owner` to the woken thread to
  set. Before that thread runs, the previous owner locks again and is told that
  it already owns the mutex; then both hold it.
* `condvar_timeout`: `k_condvar_wait()` returns without the mutex after a
  timeout, where `condvar.h` says that it is re-acquired.
* `yield_order`: a thread that yields can run again before a thread that was
  ready at that moment, because a pending thread gives the CPU to its
  predecessor in the run queue (`kernel.c:512`); `kernel.h` says that the
  yielding thread goes to the end of the run queue.
* `workqueue_resubmit`: a work counts as free when its `next` pointer is NULL,
  which is also so for the last work of the fifo and for one just taken out
  (`workqueue.c:96`); submitted again, it is linked to itself.
* `poll_two_objects`: a thread that polls two semaphores is readied once per
  semaphore given before it runs, and enters the run queue twice.
* `i2c_write`: the cursor of a write moves twice per byte (`drivers/i2c.c:255`
  and `259`), so a write of two bytes sends one and ends without an error.

The passing runs use the system so that these cases are out of the way, and say
so in their constants or properties:

| Where | Restriction |
|---|---|
| `semaphore` | the threads that sleep are not the ones that take with a timeout |
| `objects` | `OneHolder` leaves out a mutex that was reclaimed during a hand-over; arrays of one poll descriptor, and `k_poll` waits forever or not at all |
| `scheduler` | threads that wait in a join queue are not aborted; each thread has one starter and one aborter |
| `workqueue` | `Careful`: a work is not submitted again in the case that `workqueue_resubmit` shows; `Starters`: one thread starts timers, because two that both pass the test of `k_timer_start` insert the timer twice |
| `workqueue`, timers | `k_timer_init` with finite delays: for K_FOREVER as the starting delay it does not test, unlike `k_timer_start`, and queues a timer that looks stopped (`timer.c:102`) |
| `standalone`, tdqueue | `tdqueue_pop` on an empty queue reads the delay before the list head and may pop that; what `tdqueue_pop_reschedule` would then write there is left out |
| `standalone`, ring | one producer and one consumer; `RingFifo` ends when a push that overruns the ring meets a pop in progress (`torn`) |
| `standalone`, USART | `PROMPT`: an interrupt is served within a character's time; one thread uses the device, does not transmit from the callback, which `usart.c:216` would undo, and gives no other receive buffer while it receives |
| `standalone`, I2C | writes of one byte; one user; arbitration is lost at the address (`LOSES`) |
| `standalone`, SD | cards whose CSD has version 1: for others `sd_read_csd` returns with the card selected (`sd.c:481`) |
| `standalone`, CAN | the device is deinitialised when no thread uses it; both properties end when the mutex is locked during a hand-over (`seen = "reentry"`, the case of `mutex_hand_over`), and the second half of `SentOnce` when a send finds transmit buffer 0 busy (`seen = "busy"`) |

Each restriction is a constant, a guard or a history variable that can be lifted
to see the case.

Four faults of the parts in `standalone` are in the model as they are in the
code, and its properties say exactly what they cost:

* `ring.c:23` computes the room without the wrap of the cursors. A push on a full
  ring is refused, as `ring.h:94` says (-ENOMEM), only while the read cursor is at
  0; else it is accepted, the cursors meet and the unread bytes are lost
  (`Overruns`).
* `MCP_LOAD_TX_BUFFER` (`devices/mcp2515_priv.h:18`) shifts the number of the
  buffer too far: the instruction for buffer 1 is that for buffer 0, and the one
  for buffer 2 is none. A frame sent while buffer 0 waits for the bus overwrites
  the one in it or goes nowhere, and what is sent is what buffer 1 or 2 held.
* `mcp2515_recv` clears the flag of a receive buffer which the chip has cleared at
  the end of the reading instruction. A frame stored in between is dropped.
* `mutex.c:88`: the thread that handed the mutex of the CAN driver over may lock it
  again, after which two threads are in the driver.

**Bounds.** Three threads are the fewest with a ring whose order matters: one
that runs, one that waits and one that acts on it. Timeouts of 0, 1, 2 and
forever cover expiry at once, with others and after others. `semaphore` has a
slice of two ticks, the others of one. Its limit is 2 with a requested initial
count of 3, so that the clamp in `k_sem_init()` and the saturation in
`k_sem_give()` happen. `objects` has three blocks (one held, one queued, one
free or handed over) and two bits (one consumed, one left). In `workqueue` a work
and a delayable work make a fifo of two, and the timer's period of two ticks with
delays of 0 to 2 makes timers and events fire in the same tick, before and after
each other. The ring has three places, the fewest where the cursors wrap while
it is neither empty nor full, and where a push overruns it; the I2C cursor has two bits and transfers of up
to three bytes; two attempts of `sd_init` have a last try that is not the first;
two CAN users, two frames to send and one that arrives, with the three transmit
and two receive buffers of the chip, let a buffer be chosen while another is
loaded; a frame is sent again only when none of it is owed (`MAXOWED`). The message queue holds two messages, so that the
cursors wrap, the buffer is full, and there are two messages to confuse. In
`Tqueue` the deltas are unsigned with 5 values instead of 2^16, three items.

**Fairness.** `semaphore` assumes strong fairness of the tick: its interrupt
flag stays set until it is served, so a tick is only delayed while the
interrupts are disabled. It assumes weak fairness of the steps that run with the
interrupts disabled (the loops, the return from a wait): nothing else can run
then. No fairness is assumed of threads, and none is needed: `TimedWaitEnds`
says that the thread is made ready, not that it runs, which the scheduler does
not guarantee (`yield_order`). `workqueue` assumes weak fairness of the tick and
its handlers and strong fairness of the work queue thread: it is preempted
again and again, but a time slice is longer than one of its steps. In
`standalone` the loop of a `tqueue` call that has started continues, and the
thread that made a USART call, the transmitter and each handler get their turn
among the characters that arrive (strong fairness: an arriving character
disables them for one interrupt).

## 4. Proofs

All theorems hold for any number of threads, queues and objects, and for every
size, timeout and slice the assumptions of the modules admit (at most 255
threads, since `ready_count` is a byte; distinct names). Further assumptions are
stated in the theorem; each is one of the restrictions of section 3.

### Kernel

`KernelProofs` has one lemma per kernel function: it preserves `KernelOK`, and
this is what it does to the states, flags and queues. The properties of the
queues are not inductive alone. That the wait queues are right depends on where
the nodes of the threads *outside* of them point, because every expiry unlinks
a node: `LinksOK` says that a thread that sleeps has a node without neighbours.
`Ring` is stated so that insertion and removal preserve it without induction
over the list: no proper nonempty subset of the ring is closed under `next`.
The module begins with the lists: rings, the order of the threads in a wait
queue, the timeouts queue, and the singly linked list of `slist.c` as the
sequence of its items.

### Semaphores

`SemaphoreProofs` proves of `Semaphore`

* units are conserved (`UnitsConserved`), no thread waits on a semaphore that has a
  unit (`NoWakeUpLost`), counts stay in range (`TypeCorrect`);
* the run queue is exactly the ready threads and the CPU runs its head or the
  idle thread (`RunQueueCorrect`);
* the wait queues and the timeouts queue are exactly the threads that wait
  (`WaitQueuesCorrect`);
* every behaviour is one of `SemaphoreAbs` (`Refines`): threads are served first
  in, first out, and a wait ends once, by a unit, a timeout or a cancellation.

*Assumption*: `Discipline`, no thread both sleeps and takes with a timeout; see
`semaphore_stale_link`.

*Argument*: `IInv` is inductive. That units are conserved depends on when the
result flags of a wait are cleared: `ContextOK` and `FlagsOK` say that a pending
thread has none, and that no kernel loop starts between a switch and the end of
the wait. For the refinement `Ring` says too little, since it does not say in
which order the threads wait. `LinesOK` adds that `Line`, the threads read off
the `next` pointers, is a sequence of exactly the waiting threads in which each
points to the following one. A pend appends to it, and an unlink anywhere
removes that element (`JoinLines`, `LeaveLines`); one lemma per action then
names the abstract step it takes (`WaitRefines`, `GiveRefines`, ...).

### Thread life cycle

`SchedulerProofs` proves of `Scheduler` that the run queue, the join queues and
the timeouts are right (`RunQueueKept`, `JoinQueuesKept`, `SchedulerTypes`) and that
no thread waits for one that has stopped (`NoJoinLost`). *Assumption*:
`Discipline`, what section 3 says of the run `scheduler`: a thread has one
starter and one aborter, a thread that joins is aborted by itself only and does
not sleep. *Argument*: `LifeInv` adds that the test made outside of the lock
still holds when the call takes effect (`TestInv`), and that the threads waiting
for a stopped thread are being woken by the loop in progress (`JoinInv`).

### Objects

`ObjectsProofs` proves of `Objects`, for the programs *blocks*, *signal*, *msgq* and
*mutex* (`use \in Proved`): the wait queues, run queue and timeouts are right
(`ObjectsKernelCorrect`), nobody waits for what is there (`NobodyWaitsInVain`),
`OneHolder` (`MutexesOwned`), `FifoOrder` (`MessagesInOrder`), `NoMixedWaiters`
(`WaitersNotMixed`), `FifoIntact` (`FifoCorrect`), `BlocksConserved` (`NoBlockLost`).
*Argument*: `IInv` has a part for the kernel and one per object. The part of an
object relates its contents to what is on its way to threads that have not run
yet: a mutex handed over, a message copied past the buffer, a block in
`swap_data`. `ServiceProofs` and `BufferProofs` prove that each service preserves
its own part; the other parts depend on variables and waits it leaves alone.

### Timers, events, works

`WorkqueueProofs` proves of `Workqueue`

* that the stopped mark of a timer agrees with the timers queue (`TimersCorrect`).
  *Assumption*: `OneStarter`, one thread starts timers. *Argument*: `TimersInv` adds
  that a start which passed its test is that of a timer which is still stopped;
* that the scheduled flag of an event agrees with the events queue
  (`EventsCorrect`), with no assumption on the callers;
* that a delayable work waits for its event or is pending, never both
  (`DelayedWorksCorrect`), and that a work submitted and not started is in exactly
  one place (`WorksCorrect`). *Assumption*: `Careful`, nobody submits the pending
  work that `z_work_submittable` mistakes for a free one; see
  `workqueue_resubmit`. *Argument*: `QueueInv` says that the pending works are those
  of the fifo's list, the one in `swap_data` and the one the work queue thread is
  about to start, all different, and that the thread only waits on an empty fifo.

### Parts without threads of the kernel

`StandaloneProofs` proves

* of the byte ring, that the consumer gets the bytes in order, except for those
  that an accepted push on a full ring loses (`RingDelivers`). *Argument*: the places
  between the two cursors hold the bytes that are owed (`Stored`), and a push that
  has begun still has room or the read cursor is not at 0 (`PushHasRoom`): the
  consumer only moves its own cursor, which only frees places;
* of the USART, that reception fills a buffer in order and within its size
  (`ReceivesInOrder`; an overrun, which the driver does not look at, is outside of
  the model), and that transmission sends each character once, in order, and
  notifies the end only after the last (`TransmitsInOrder`). *Assumption* of the
  latter: `PROMPT`; without it TXC is set in the middle of the buffer. *Argument*:
  the characters sent, in the shift register and in UDR are together those before
  the cursor (`Flow`), and an interrupt is enabled only after the call has set all
  fields of the transfer;
* of I2C, that a transfer that ends without an error moved each byte
  (`TransfersMoved`), and that the driver is still ready when a call that found it
  so starts its transfer (`NotOverwritten`). *Assumptions*: one thread uses the
  master, writes of one byte (`i2c_write`), arbitration lost at the address only.
  *Argument*: `PhaseOK` ties the cursor to the status that the bus reports next;
* of the SD card, that a call that returns 0 had its effect (`SdCallsDone`), and that
  the card is selected only during a call (`SdBusReleased`; *assumption*: CSD
  version 1);
* of the CAN controller, that no frame goes out twice, and that none is lost while
  every send finds transmit buffer 0 free (`SendsOnce`); that a frame stored by the
  chip is returned once, or dropped by the second clearing of its flag
  (`ReceivesOnce`). Both are stated until the mutex is locked during a hand-over.
  *Argument*: a call is a sequence of SPI transactions between which the chip runs;
  `McpInv` adds what it may rely on from one to the next. One thread at most is past
  the lock or was handed it (`MutexOK`), the transmit buffer 0 it found free is not
  requested, the receive buffer it found full stays full (`JobOK`), and the buffers
  1 and 2 never hold a frame (`ChipType`).

### Only model-checked

* the liveness properties (`TimedWaitEnds`, `WorkStarts`, ...);
* the delta queues against the list (`AgreesWithList`, `AgreesWithTdlist`): the
  times are sums over the queue, defined by recursion;
* the programs *flags* and *poll*: `k_flags_notify` is a fold over the threads of
  the wait queue, which needs an induction with an operator as a parameter; the
  nodes of a polled queue are descriptors, not threads, so `KernelOK` does not hold
  of it as it stands.

## 5. Not modelled

* *Memory contents*: stacks, canaries, sentinels, linker sections, the bump and
  default allocators (plain pointer arithmetic).
* *Registers and I/O*: clock, GPIO, external interrupt and timer configuration,
  the synchronous USART and SPI transfers (loops on a status bit), console
  output, LEDs, the TCN75 sensor (three I2C transfers, see `i2c_write`).
* *Pure functions*: checksum, pseudo-random numbers, time conversions, the
  parsing of CSD, CID and CAN identifiers.
* *Atomics*: each is one step with the interrupts disabled, and the kernel does
  not use them. `atomic_cas` compares the expected value with a register that
  holds 0 (`arch/arch_atomic.S:111`), which a unit test shows better than a model.
* *Variants*: the recursive mutex (`CONFIG_KERNEL_REENTRANCY`), `k_poll` on other
  objects than semaphores and with a timeout (the expiry unlinks the thread's own
  wait queue node, not the descriptors), the asynchronous SPI transceive.
* *Bindings and examples*: they call the C API. More than half of the lines of
  the repository are examples, headers with declarations and register names,
  and bindings; they hold no state of the system, so the modules map to a small
  share of all lines. Of the C and assembly files of the library, 8261 lines with
  their comments and blank lines, they map 3514.

Hazards without a property, each with its reason, are in `PROJECT.json`: a
transmission started from the USART callback, `mcp2515_deinit` with threads
waiting, early expiry with long slices.
