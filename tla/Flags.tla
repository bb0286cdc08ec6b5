-------------------------------- MODULE Flags --------------------------------
(***************************************************************************)
(* The flags (flags.c): a set of bits, and threads that wait for one bit   *)
(* of their mask, to see it or to consume it.  swap_data of a thread that  *)
(* waits is [mask, consume]; once it is notified it is the bits it gets.   *)
(***************************************************************************)
EXTENDS Waiters, SequencesExt

CONSTANTS
  FLAGS,          \* the wait queue of the flags, which names them
  Bits,           \* the bits of the flags
  RESET_VALUE     \* flags.reset_value, the bits set at the start

ASSUME FlagsAssumption == FLAGS \in Queues /\ RESET_VALUE \subseteq Bits

VARIABLES
  flags,          \* flags.flags, as the set of its bits
  balance         \* bit -> the number of times it was raised and not consumed (history)

flagsVars == <<flags, balance>>

\* 1 for the bits of a set, 0 for the others.
Ones(S) == [x \in Bits |-> IF x \in S THEN 1 ELSE 0]

FlagsInit == flags = RESET_VALUE /\ balance = Ones(RESET_VALUE)

Consumed(b, S) == [x \in Bits |-> IF x \in S THEN b[x] - 1 ELSE b[x]]

\* With an empty mask the call returns at once.
k_flags_poll(c, mask, consume, timeout) ==
  LET trig == flags \cap mask
  IN  /\ Calls(c)
      /\ IF trig = {} /\ mask # {}
           THEN /\ k' = z_pend_current_on(k, FLAGS, timeout)
                /\ swap_data' = IF timeout = K_NO_WAIT THEN swap_data ELSE [swap_data EXCEPT
                     ![c] = [mask |-> mask, consume |-> consume]]
                /\ UNCHANGED flagsVars
           ELSE /\ flags' = IF consume THEN flags \ mask ELSE flags
                /\ balance' = IF consume THEN Consumed(balance, trig) ELSE balance
                /\ UNCHANGED <<k, swap_data>>
      /\ UNCHANGED ctx

k_flags_poll_return(t) == PendReturn(t, FLAGS) /\ UNCHANGED flagsVars

\* The threads of the wait queue of the flags, in its order.
FlagsWaiters ==
  LET at[i \in 1 .. Cardinality(Threads)] ==
        IF i = 1 THEN k.wq.next[FLAGS]
        ELSE IF at[i - 1] \in Threads THEN k.wq.next[at[i - 1]] ELSE FLAGS
  IN  SelectSeq(at, LAMBDA x : x \in Threads)

\* Notify that leaves a bit to the other threads although it was consumed.
Notify_KeepsBits(n, t) ==
  LET wait == n.swap[t]
      trig == n.value \cap wait.mask
  IN  IF trig = {} THEN n
      ELSE [n EXCEPT !.swap = [@ EXCEPT ![t] = trig],
                     !.s = z_wake_up([@ EXCEPT !.wq = dlist_remove(@, t)], t),
                     !.balance = IF wait.consume THEN Consumed(@, trig) ELSE @]

\* One iteration of the loop of k_flags_notify on a thread that waits: the links
\* of the thread stay as dlist_remove leaves them.
Notify(n, t) ==
  LET wait == n.swap[t]
      trig == n.value \cap wait.mask
  IN  IF trig = {} THEN n
      ELSE [n EXCEPT !.swap = [@ EXCEPT ![t] = trig],
                     !.s = z_wake_up([@ EXCEPT !.wq = dlist_remove(@, t)], t),
                     !.value = IF wait.consume THEN @ \ trig ELSE @,
                     !.balance = IF wait.consume THEN Consumed(@, trig) ELSE @]

\* k_flags_notify: the bits no thread consumed are stored.  sched: K_FLAGS_SCHED.
k_flags_notify(c, value, sched) ==
  LET fresh == value \ flags
      n == FoldLeft(Notify, [s |-> k, swap |-> swap_data, value |-> fresh,
             balance |-> [x \in Bits |-> balance[x] + Ones(fresh)[x]]],
             FlagsWaiters)
  IN  /\ Calls(c)
      /\ flags' = flags \cup n.value
      /\ balance' = n.balance
      /\ swap_data' = n.swap
      /\ k' = IF sched /\ n.s # k THEN z_scheduler(n.s) ELSE n.s
      /\ UNCHANGED ctx

\* Up to the loop of z_cancel_all_pending, and its end.
k_flags_reset(c) == z_cancel_all_pending(c, FLAGS) /\ UNCHANGED flagsVars

k_flags_reset_end == /\ CancelEnd(FLAGS)
                     /\ flags' = RESET_VALUE
                     /\ balance' = Ones(RESET_VALUE)

\* The services of the flags, called by U, and their ends.
FlagsNext(U) ==
  \/ \E c \in U :
       \/ \E mask \in SUBSET Bits, consume \in BOOLEAN, n \in Timeouts(c) :
            k_flags_poll(c, mask, consume, n)
       \/ \E value \in SUBSET Bits, sched \in {c # ISR, FALSE} :
            k_flags_notify(c, value, sched)
       \/ k_flags_reset(c)
  \/ \E t \in Threads : k_flags_poll_return(t)
  \/ k_flags_reset_end

-------------------------------------------------------------------------------
\* Every time a bit is raised, one consumer at most gets it, and if none did it
\* is in the flags: a bit is neither lost nor consumed twice, however the threads
\* that look, that consume and that time out are mixed in the wait queue.
ConsumedOnce == balance = Ones(flags)
===============================================================================
