--------------------------------- MODULE Msgq ---------------------------------
(***************************************************************************)
(* Message queues (msgq.c) on the kernel: threads put and get with any     *)
(* timeout, interrupt handlers without waiting.  The message queue is      *)
(* named by its wait queue, which its consumers and its producers share.   *)
(* A thread that waits leaves in swap_data the address of its message or   *)
(* of its buffer: swap_data[t] is what is at that address.                 *)
(***************************************************************************)
EXTENDS Waiters

CONSTANTS
  MSGQ,           \* the message queue
  MAX_MSGS,       \* msgq.max_msgs
  Messages        \* the messages

ASSUME MsgqAssumption == /\ MSGQ \in Queues
                         /\ MAX_MSGS \in 1 .. 255
                         /\ NULL \notin Messages

VARIABLES
  msgq,           \* [buf, read, write, used]
  role,           \* thread that waits -> its call, "put" or "get" (history)
  accepted,       \* the messages accepted and not delivered yet, the oldest first
                  \* (history)
  due,            \* consumer that waited -> the message put for it (history)
  inOrder         \* every message delivered was the one due (history)

msgqVars == <<msgq, role, accepted, due, inOrder>>

\* The cursor one message further, back at buf_start when it is at buf_end.
Advance(cursor) == (cursor + 1) % MAX_MSGS

Store(m, v) ==
  [m EXCEPT !.buf = [@ EXCEPT ![m.write] = v], !.write = Advance(@)]

\* The thread waits in a put or a get, with v at its swap_data.
Wait(t, fn, v, timeout) ==
  /\ k' = z_pend_current_on(k, MSGQ, timeout)
  /\ swap_data' = [swap_data EXCEPT ![t] = v]
  /\ role' = [role EXCEPT ![t] = fn]
  /\ UNCHANGED <<msgq, accepted, due, inOrder>>

-------------------------------------------------------------------------------
\* k_msgq_put that stores the message although a consumer waits for it.
PutNow_NoHandOver(v) ==
  /\ msgq' = [Store(msgq, v) EXCEPT !.used = @ + 1]
  /\ accepted' = Append(accepted, v)
  /\ UNCHANGED <<k, swap_data, role, due, inOrder>>

\* k_msgq_put when there is room: a waiting consumer gets the message directly.
PutNow(v) ==
  LET consumer == FirstPending(k, MSGQ)
  IN  /\ IF consumer # NULL
           THEN /\ z_unpend_first_and_swap(MSGQ, v)
                /\ due' = [due EXCEPT ![consumer] = v]
                /\ inOrder' = (inOrder /\ accepted = <<>>)
                /\ UNCHANGED <<msgq, accepted>>
           ELSE /\ msgq' = [Store(msgq, v) EXCEPT !.used = @ + 1]
                /\ accepted' = Append(accepted, v)
                /\ UNCHANGED <<k, swap_data, due, inOrder>>
      /\ UNCHANGED role

\* The second branch returns -ENOMEM.
k_msgq_put(c, v, timeout) ==
  /\ Calls(c)
  /\ \/ msgq.used < MAX_MSGS /\ PutNow(v)
     \/ /\ msgq.used = MAX_MSGS /\ timeout = K_NO_WAIT
        /\ UNCHANGED <<k, swap_data, msgqVars>>
     \/ msgq.used = MAX_MSGS /\ timeout # K_NO_WAIT /\ Wait(c, "put", v, timeout)
  /\ UNCHANGED ctx

\* k_msgq_get that stores the message of a waiting producer before it copies the
\* oldest one.
GetNow_StoresFirst ==
  LET producer == FirstPending(k, MSGQ)
      m == IF producer = NULL THEN [msgq EXCEPT !.used = @ - 1]
           ELSE Store(msgq, swap_data[producer])
  IN  /\ k' = z_unpend_first_thread(k, MSGQ)
      /\ msgq' = [m EXCEPT !.read = Advance(@)]
      /\ accepted' = IF producer = NULL THEN Tail(accepted)
                     ELSE Append(Tail(accepted), swap_data[producer])
      /\ inOrder' = (inOrder /\ m.buf[m.read] = Head(accepted))
      /\ UNCHANGED <<swap_data, role, due>>

\* -ENOMSG (here NULL) when there is none.
k_msgq_peek == IF msgq.used > 0 THEN msgq.buf[msgq.read] ELSE NULL

\* k_msgq_get when there is a message: the place it leaves goes to the message of
\* a waiting producer.
GetNow ==
  LET producer == FirstPending(k, MSGQ)
      m == [msgq EXCEPT !.read = Advance(@)]
  IN  /\ k' = z_unpend_first_thread(k, MSGQ)
      /\ msgq' = IF producer = NULL THEN [m EXCEPT !.used = @ - 1]
                 ELSE Store(m, swap_data[producer])
      /\ accepted' = IF producer = NULL THEN Tail(accepted)
                     ELSE Append(Tail(accepted), swap_data[producer])
      /\ inOrder' = (inOrder /\ k_msgq_peek = Head(accepted))
      /\ UNCHANGED <<swap_data, role, due>>

\* The second branch returns -ENOMSG.
k_msgq_get(c, timeout) ==
  /\ Calls(c)
  /\ \/ msgq.used > 0 /\ GetNow
     \/ msgq.used = 0 /\ timeout = K_NO_WAIT /\ UNCHANGED <<k, swap_data, msgqVars>>
     \/ msgq.used = 0 /\ timeout # K_NO_WAIT /\ Wait(c, "get", NULL, timeout)
  /\ UNCHANGED ctx

\* The end of a k_msgq_put or k_msgq_get that had to wait.
k_msgq_return(t) ==
  /\ PendReturn(t, MSGQ)
  /\ inOrder' = (inOrder /\ (role[t] = "get" /\ PendResult(k, t) = "OK"
                               => swap_data[t] = due[t] /\ due[t] # NULL))
  /\ due' = [due EXCEPT ![t] = NULL]
  /\ role' = [role EXCEPT ![t] = "none"]
  /\ UNCHANGED <<msgq, accepted>>

\* Up to the loop of z_cancel_all_pending.
k_msgq_purge(c) ==
  /\ z_cancel_all_pending(c, MSGQ)
  /\ msgq' = [msgq EXCEPT !.write = msgq.read, !.used = 0]
  /\ accepted' = <<>>
  /\ UNCHANGED <<role, due, inOrder>>

\* NULL is whatever is in a place of the buffer that no message was stored in.
MsgqInit ==
  /\ msgq = [buf |-> [i \in 0 .. MAX_MSGS - 1 |-> NULL],
             read |-> 0, write |-> 0, used |-> 0]
  /\ role = [t \in Threads |-> "none"]
  /\ accepted = <<>>
  /\ due = [t \in Threads |-> NULL]
  /\ inOrder = TRUE

\* The services of the message queue and their ends.
MsgqNext ==
  \/ \E c \in Callers :
       \/ \E n \in Timeouts(c) :
            k_msgq_get(c, n) \/ \E v \in Messages : k_msgq_put(c, v, n)
       \/ k_msgq_purge(c)
  \/ \E t \in Threads : k_msgq_return(t)
  \/ CancelEnd(MSGQ) /\ UNCHANGED msgqVars

-------------------------------------------------------------------------------
(* Properties *)

\* The messages in the buffer, from the read cursor on.
Contents ==
  [i \in 1 .. msgq.used |-> msgq.buf[(msgq.read + i - 1) % MAX_MSGS]]

\* Every accepted message is delivered once and in the order of acceptance, also
\* when it goes from thread to thread past the buffer, or waits in the memory of
\* its producer for a place: the buffer holds the accepted messages in order, and
\* every k_msgq_get delivered the oldest one.
FifoOrder == inOrder /\ Contents = accepted

\* The consumers and the producers share a wait queue without mixing: no consumer
\* waits while there is a message, no producer while there is room.  A put would
\* otherwise overwrite the message of a producer, and a get store the buffer of
\* a consumer as a message.
NoMixedWaiters ==
  ctx = InThread => \A t \in Waiting(k, MSGQ) :
    msgq.used = IF role[t] = "get" THEN 0 ELSE MAX_MSGS
===============================================================================
