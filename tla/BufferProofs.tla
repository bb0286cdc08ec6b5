---------------------------- MODULE BufferProofs -----------------------------
(***************************************************************************)
(* The services of the message queue, and of the slab and the fifo of its  *)
(* blocks, preserve the invariant of their object and keep the kernel in   *)
(* order, for any number of threads, messages and blocks.                  *)
(***************************************************************************)
EXTENDS ServiceProofs

Buffers == [buf : [0 .. MAX_MSGS - 1 -> Messages \cup {NULL}],
            read : 0 .. MAX_MSGS - 1, write : 0 .. MAX_MSGS - 1, used : 0 .. MAX_MSGS]

\* i % MAX_MSGS for the positions that occur, without the remainder.
Place(i) == IF i < MAX_MSGS THEN i ELSE i - MAX_MSGS

\* The cursors of a message queue m delimit the messages a in its buffer.
Queued(m, a) ==
  /\ m \in Buffers
  /\ m.write = Place(m.read + m.used)
  /\ a \in Seq(Messages) /\ Len(a) = m.used
  /\ \A i \in 1 .. m.used : a[i] = m.buf[Place(m.read + i - 1)]

\* The buffer has the accepted messages; the threads that wait in a k_msgq_put left
\* their message, the ones woken up in a k_msgq_get have theirs.
MsgqInv ==
  /\ Queued(msgq, accepted)
  /\ role \in [Threads -> {"none", "put", "get"}]
  /\ due \in [Threads -> Messages \cup {NULL}]
  /\ inOrder = TRUE
  /\ \A t \in Waiting(k, MSGQ) :
       /\ role[t] = "get" \/ (role[t] = "put" /\ swap_data[t] \in Messages)
       /\ ctx.in # "cancel" => msgq.used = IF role[t] = "get" THEN 0 ELSE MAX_MSGS
  /\ \A t \in Handed(k, MSGQ) :
       role[t] = "get" => swap_data[t] = due[t] /\ due[t] # NULL

\* Every block is on the free list (F), in the fifo (O), held by one caller (h) or in
\* the swap data (w) of one thread that was woken up with it (M).
Partition(F, O, h, M, w) ==
  /\ \A n \in Nodes : \/ n \in F \/ n \in O \/ \E c \in Callers : n \in h[c]
                      \/ \E t \in M : w[t] = n
  /\ \A n \in F : n \notin O
  /\ \A c \in Callers : \A n \in h[c] : n \notin F /\ n \notin O
  /\ \A c, d \in Callers : \A n \in h[c] : n \in h[d] => c = d
  /\ \A t \in M : /\ w[t] \in Nodes /\ w[t] \notin F /\ w[t] \notin O
                  /\ \A c \in Callers : w[t] \notin h[c]
  /\ \A t, u \in M : w[t] = w[u] => t = u

Moved == Handed(k, FIFO) \cup Handed(k, SLAB)

\* The fifo and the free list are chains of the items in order, and of the free blocks.
BlocksInv ==
  /\ next \in [Nodes -> Nodes \cup {NULL}]
  /\ order \in Seq(Nodes) /\ Listed(next, queue.head, order)
  /\ Len(order) # 0 => queue.tail = order[Len(order)]
  /\ held \in [Callers -> SUBSET Nodes]
  /\ \E free \in Seq(Nodes) : /\ Listed(next, free_list, free)
                              /\ Partition(Elems(free), Elems(order), held, Moved, swap_data)
  /\ Waiting(k, FIFO) # {} => queue.head = NULL
  /\ Waiting(k, SLAB) # {} => free_list = NULL

-------------------------------------------------------------------------------
(* The message queue *)

LEMMA MsgqFrame ==
  ASSUME MsgqInv, UNCHANGED msgqVars, Handed(k', MSGQ) = Handed(k, MSGQ),
         Waiting(k', MSGQ) \subseteq Waiting(k, MSGQ),
         ctx.in = "cancel" => ctx'.in = "cancel" \/ Waiting(k', MSGQ) = {},
         \A t \in Handed(k, MSGQ) \cup Waiting(k, MSGQ) : swap_data'[t] = swap_data[t]
  PROVE  MsgqInv'
<1> USE DEF MsgqInv
<1>1. msgq' = msgq /\ role' = role /\ accepted' = accepted /\ due' = due /\ inOrder' = inOrder
  BY Zenon DEF msgqVars
<1>2. \A t \in Waiting(k', MSGQ) :
       /\ role[t] = "get" \/ (role[t] = "put" /\ swap_data'[t] \in Messages)
       /\ ctx'.in # "cancel" => msgq.used = IF role[t] = "get" THEN 0 ELSE MAX_MSGS
  BY Zenon
<1>3. \A t \in Handed(k', MSGQ) : role[t] = "get" => swap_data'[t] = due[t] /\ due[t] # NULL
  BY Zenon
<1> QED BY Zenon, <1>1, <1>2, <1>3

\* The cursors and the positions in the buffer.
LEMMA Wrap ==
  ASSUME NEW i \in Nat, i < 2 * MAX_MSGS
  PROVE  i % MAX_MSGS = Place(i) /\ Place(i) \in 0 .. MAX_MSGS - 1
<1>1. MAX_MSGS \in Nat /\ MAX_MSGS > 0
  BY MsgqAssumption
<1> QED BY <1>1 DEF Place

LEMMA PlaceAfter ==
  ASSUME NEW c \in 0 .. MAX_MSGS - 1, NEW i \in 0 .. MAX_MSGS - 1
  PROVE  Place(Place(c + 1) + i) = Place(c + 1 + i)
BY MsgqAssumption DEF Place

LEMMA AdvancePlace ==
  ASSUME NEW c \in 0 .. MAX_MSGS - 1
  PROVE  Advance(c) = Place(c + 1) /\ Advance(c) \in 0 .. MAX_MSGS - 1
<1>1. MAX_MSGS \in Nat /\ MAX_MSGS > 0
  BY MsgqAssumption
<1>2. c + 1 \in Nat /\ c + 1 < 2 * MAX_MSGS
  BY <1>1
<1>3. (c + 1) % MAX_MSGS = Place(c + 1) /\ Place(c + 1) \in 0 .. MAX_MSGS - 1
  BY Zenon, <1>2, Wrap
<1> QED BY Zenon, <1>3 DEF Advance

\* A message that is stored becomes the last one.
LEMMA StoreQueued ==
  ASSUME NEW m, NEW a, Queued(m, a), m.used < MAX_MSGS, NEW v \in Messages
  PROVE  Queued([Store(m, v) EXCEPT !.used = @ + 1], Append(a, v))
<1> DEFINE r == [Store(m, v) EXCEPT !.used = @ + 1]
           s == Append(a, v)
<1>0. MAX_MSGS \in Nat /\ MAX_MSGS > 0
  BY MsgqAssumption
<1>1. /\ m.buf \in [0 .. MAX_MSGS - 1 -> Messages \cup {NULL}]
      /\ m.read \in 0 .. MAX_MSGS - 1 /\ m.write \in 0 .. MAX_MSGS - 1 /\ m.used \in 0 .. MAX_MSGS
      /\ m.write = Place(m.read + m.used)
      /\ a \in Seq(Messages) /\ Len(a) = m.used
      /\ \A i \in 1 .. m.used : a[i] = m.buf[Place(m.read + i - 1)]
  BY Zenon DEF Queued, Buffers
<1>2. /\ r.buf = [m.buf EXCEPT ![m.write] = v] /\ r.read = m.read
      /\ r.write = Advance(m.write) /\ r.used = m.used + 1
  BY Zenon DEF Store, Queued, Buffers
<1>3. Advance(m.write) = Place(m.write + 1) /\ Advance(m.write) \in 0 .. MAX_MSGS - 1
  BY Zenon, <1>1, AdvancePlace
<1>4. /\ s \in Seq(Messages) /\ Len(s) = m.used + 1 /\ s[m.used + 1] = v
      /\ \A i \in 1 .. m.used : s[i] = a[i]
  BY <1>1
<1>5. r \in Buffers
  <2>1. /\ [m.buf EXCEPT ![m.write] = v] \in [0 .. MAX_MSGS - 1 -> Messages \cup {NULL}]
        /\ m.used + 1 \in 0 .. MAX_MSGS
    BY <1>0, <1>1
  <2> QED BY <1>1, <1>3, <2>1, Zenon DEF Store, Queued, Buffers
<1> HIDE DEF r, s
<1>6. r.write = Place(r.read + r.used)
  BY <1>0, <1>1, <1>2, <1>3 DEF Place
<1>7. ASSUME NEW i \in 1 .. r.used
      PROVE  s[i] = r.buf[Place(r.read + i - 1)]
  <2> DEFINE p == Place(m.read + i - 1)
  <2>0. i \in 1 .. m.used + 1
    BY Zenon, <1>2, <1>7
  <2>1. p \in 0 .. MAX_MSGS - 1
    BY <1>0, <1>1, <2>0 DEF Place
  <2>2. CASE i = m.used + 1
    <3>1. p = m.write
      BY <1>0, <1>1, <2>2
    <3>2. r.buf[p] = v /\ s[i] = v /\ r.read = m.read
      BY <1>1, <1>2, <1>4, <2>2, <3>1, Zenon
    <3> QED BY Zenon, <3>2
  <2>3. CASE i # m.used + 1
    <3>1. i \in 1 .. m.used
      BY <1>0, <1>1, <2>0, <2>3
    <3>2. p # m.write
      BY <1>0, <1>1, <3>1 DEF Place
    <3>3. r.buf[p] = m.buf[p] /\ s[i] = a[i] /\ a[i] = m.buf[p] /\ r.read = m.read
      BY Zenon, <1>1, <1>2, <1>4, <2>1, <3>1, <3>2
    <3> QED BY Zenon, <3>3
  <2> QED BY Zenon, <2>2, <2>3
<1>8. Queued(r, s)
  BY Zenon, <1>2, <1>4, <1>5, <1>6, <1>7 DEF Queued
<1> QED BY Zenon, <1>8 DEF r, s

\* The message at the read cursor is the oldest one, and the next one follows it.
LEMMA FetchQueued ==
  ASSUME NEW m, NEW a, Queued(m, a), m.used > 0
  PROVE  /\ Queued([[m EXCEPT !.read = Advance(@)] EXCEPT !.used = @ - 1], Tail(a))
         /\ m.buf[m.read] = Head(a)
<1> DEFINE r == [[m EXCEPT !.read = Advance(@)] EXCEPT !.used = @ - 1]
           s == Tail(a)
<1>0. MAX_MSGS \in Nat /\ MAX_MSGS > 0
  BY MsgqAssumption
<1>1. /\ m.buf \in [0 .. MAX_MSGS - 1 -> Messages \cup {NULL}]
      /\ m.read \in 0 .. MAX_MSGS - 1 /\ m.write \in 0 .. MAX_MSGS - 1 /\ m.used \in 1 .. MAX_MSGS
      /\ m.write = Place(m.read + m.used)
      /\ a \in Seq(Messages) /\ Len(a) = m.used
      /\ \A i \in 1 .. m.used : a[i] = m.buf[Place(m.read + i - 1)]
  BY <1>0 DEF Queued, Buffers
<1>2. /\ r.buf = m.buf /\ r.read = Advance(m.read)
      /\ r.write = m.write /\ r.used = m.used - 1
  BY Zenon DEF Queued, Buffers
<1>3. Advance(m.read) = Place(m.read + 1) /\ Advance(m.read) \in 0 .. MAX_MSGS - 1
  BY Zenon, <1>1, AdvancePlace
<1>4. /\ s \in Seq(Messages) /\ Len(s) = m.used - 1 /\ Head(a) = a[1]
      /\ \A i \in 1 .. m.used - 1 : s[i] = a[i + 1]
  BY <1>1
<1>5. r \in Buffers
  <2>1. m.used - 1 \in 0 .. MAX_MSGS
    BY <1>0, <1>1
  <2> QED BY <1>1, <1>3, <2>1, Zenon DEF Queued, Buffers
<1> HIDE DEF r, s
<1>6. r.write = Place(r.read + r.used)
  <2>1. Place(m.read + m.used) = Place(Place(m.read + 1) + (m.used - 1))
    <3>1. m.used - 1 \in 0 .. MAX_MSGS - 1 /\ m.read + m.used = m.read + 1 + (m.used - 1)
      BY <1>0, <1>1
    <3> QED BY <1>1, <3>1, PlaceAfter
  <2> QED BY Zenon, <1>1, <1>2, <1>3, <2>1
<1>7. ASSUME NEW i \in 1 .. r.used
      PROVE  s[i] = r.buf[Place(r.read + i - 1)]
  <2>1. i + 1 \in 1 .. m.used /\ i \in 1 .. m.used - 1
    BY <1>0, <1>1, <1>2, <1>7
  <2>2. s[i] = m.buf[Place(m.read + (i + 1) - 1)]
    BY Zenon, <1>1, <1>4, <2>1
  <2>3. Place(m.read + (i + 1) - 1) = Place(Place(m.read + 1) + i - 1)
    <3>1. i - 1 \in 0 .. MAX_MSGS - 1
      BY <1>0, <1>1, <2>1
    <3>2. m.read + (i + 1) - 1 = m.read + 1 + (i - 1)
      BY <1>1, <2>1
    <3>3. Place(m.read + 1) \in Int
      BY <1>3
    <3>4. Place(m.read + 1) + i - 1 = Place(m.read + 1) + (i - 1)
      BY Zenon, <2>1, <3>3
    <3>5. Place(Place(m.read + 1) + (i - 1)) = Place(m.read + 1 + (i - 1))
      BY Zenon, <1>1, <3>1, PlaceAfter
    <3> QED BY <3>2, <3>4, <3>5, Zenon
  <2> QED BY Zenon, <1>2, <1>3, <2>2, <2>3
<1>8. Queued(r, s)
  BY Zenon, <1>2, <1>4, <1>5, <1>6, <1>7 DEF Queued
<1>9. m.buf[m.read] = Head(a)
  <2>1. 1 \in 1 .. m.used /\ Place(m.read + 1 - 1) = m.read
    BY <1>0, <1>1 DEF Place
  <2> QED BY Zenon, <1>1, <1>4, <2>1
<1> QED BY Zenon, <1>8, <1>9 DEF r, s

\* The place the oldest message leaves takes the message of a producer.
LEMMA ReplaceQueued ==
  ASSUME NEW m, NEW a, Queued(m, a), m.used > 0, NEW v \in Messages
  PROVE  Queued(Store([m EXCEPT !.read = Advance(@)], v), Append(Tail(a), v))
<1> DEFINE f == [[m EXCEPT !.read = Advance(@)] EXCEPT !.used = @ - 1]
           q == [Store(f, v) EXCEPT !.used = @ + 1]
           r == Store([m EXCEPT !.read = Advance(@)], v)
<1>0. MAX_MSGS \in Nat /\ MAX_MSGS > 0
  BY MsgqAssumption
<1>1. /\ m \in Buffers /\ m.used \in 1 .. MAX_MSGS /\ m.used - 1 + 1 = m.used
      /\ Advance(m.read) \in 0 .. MAX_MSGS - 1 /\ Advance(m.write) \in 0 .. MAX_MSGS - 1
  <2>1. m \in Buffers
    BY Zenon DEF Queued
  <2>2. /\ m.used \in 0 .. MAX_MSGS /\ m.read \in 0 .. MAX_MSGS - 1
        /\ m.write \in 0 .. MAX_MSGS - 1
    BY Zenon, <2>1 DEF Buffers
  <2>3. Advance(m.read) \in 0 .. MAX_MSGS - 1 /\ Advance(m.write) \in 0 .. MAX_MSGS - 1
    BY Zenon, <2>2, AdvancePlace
  <2> QED BY <1>0, <2>1, <2>2, <2>3
<1>2. Queued(f, Tail(a))
  BY FetchQueued, Zenon
<1>3. f.used = m.used - 1 /\ f.used < MAX_MSGS
  BY <1>0, <1>1 DEF Buffers
<1>4. q.buf = r.buf /\ q.read = r.read /\ q.write = r.write /\ q.used = r.used
  BY Zenon, <1>1 DEF Store, Buffers
<1>5. r \in Buffers
  BY <1>1, Zenon DEF Store, Buffers
<1> HIDE DEF f
<1>6. Queued(q, Append(Tail(a), v))
  BY Zenon, <1>2, <1>3, StoreQueued
<1> HIDE DEF q, r
<1>7. Queued(r, Append(Tail(a), v))
  BY Zenon, <1>4, <1>5, <1>6 DEF Queued
<1> QED BY Zenon, <1>7 DEF r

\* What waits in the message queue: the conjuncts of MsgqInv about the threads.
LEMMA MsgqWaiters ==
  ASSUME Queued(msgq', accepted'), inOrder' = TRUE,
         role' \in [Threads -> {"none", "put", "get"}],
         due' \in [Threads -> Messages \cup {NULL}],
         \A t \in Waiting(k', MSGQ) :
           /\ role'[t] = "get" \/ (role'[t] = "put" /\ swap_data'[t] \in Messages)
           /\ ctx'.in # "cancel" => msgq'.used = IF role'[t] = "get" THEN 0 ELSE MAX_MSGS,
         \A t \in Handed(k', MSGQ) :
           role'[t] = "get" => swap_data'[t] = due'[t] /\ due'[t] # NULL
  PROVE  MsgqInv'
BY Zenon DEF MsgqInv

\* A put that finds a place: the first consumer, or the buffer when none waits.
LEMMA PutNowStep ==
  ASSUME Serving({MSGQ}, {}), ctx' = ctx, InterruptsEnabled, MsgqInv,
         swap_data \in [Threads -> Nodes \cup Messages \cup {NULL}],
         NEW v \in Messages, msgq.used < MAX_MSGS, PutNow(v)
  PROVE  /\ Serving({MSGQ}, {})' /\ MsgqInv'
         /\ swap_data' \in [Threads -> Nodes \cup Messages \cup {NULL}]
<1>1. MSGQ \in {MSGQ} /\ MSGQ \in Queues /\ ctx = InThread /\ ctx \in LoopsOf({MSGQ}, {})
  BY Zenon, ServiceQueues DEF InterruptsEnabled, Serving
<1>2. /\ Queued(msgq, accepted) /\ inOrder = TRUE
      /\ role \in [Threads -> {"none", "put", "get"}]
      /\ due \in [Threads -> Messages \cup {NULL}]
      /\ \A t \in Waiting(k, MSGQ) :
           /\ role[t] = "get" \/ (role[t] = "put" /\ swap_data[t] \in Messages)
           /\ msgq.used = IF role[t] = "get" THEN 0 ELSE MAX_MSGS
      /\ \A t \in Handed(k, MSGQ) :
           role[t] = "get" => swap_data[t] = due[t] /\ due[t] # NULL
  BY Zenon, <1>1 DEF MsgqInv, InThread
<1>3. PICK u : u = FirstPending(k, MSGQ)
  BY Zenon
<1>4. CASE u # NULL
  <2>1. /\ k' = z_unpend_first_thread(k, MSGQ)
        /\ swap_data' = [swap_data EXCEPT ![u] = v] /\ due' = [due EXCEPT ![u] = v]
        /\ inOrder' = (inOrder /\ accepted = <<>>)
        /\ msgq' = msgq /\ accepted' = accepted /\ role' = role
    BY Zenon, <1>3, <1>4 DEF PutNow, z_unpend_first_and_swap
  <2>2. Serving({MSGQ}, {})' /\ HandedTo(k, k', MSGQ, u) /\ u \in Threads
    BY Zenon, <1>1, <1>3, <1>4, <2>1, UnpendStep, NoFirst
  <2>3. /\ u \in Waiting(k, MSGQ) /\ u \notin Handed(k, MSGQ)
        /\ Handed(k', MSGQ) = Handed(k, MSGQ) \cup {u}
        /\ Waiting(k', MSGQ) = Waiting(k, MSGQ) \ {u}
    BY Zenon, <2>2 DEF HandedTo
  <2>4. role[u] = "get" /\ msgq.used = 0
    BY <1>2, <2>3, MsgqAssumption
  <2>5. accepted = <<>> /\ inOrder' = TRUE
    <3>1. accepted \in Seq(Messages) /\ Len(accepted) = 0
      BY Zenon, <1>2, <2>4 DEF Queued
    <3>2. accepted = <<>>
      BY <3>1
    <3> QED BY <1>2, <2>1, <3>2, Zenon
  <2>6. /\ swap_data' \in [Threads -> Nodes \cup Messages \cup {NULL}]
        /\ due' \in [Threads -> Messages \cup {NULL}]
        /\ swap_data'[u] = v /\ due'[u] = v /\ v # NULL
        /\ \A t \in Threads \ {u} : swap_data'[t] = swap_data[t] /\ due'[t] = due[t]
    BY Zenon, <1>2, <2>1, <2>2, MsgqAssumption
  <2>7. \A q : Waiting(k, q) \subseteq Threads /\ Handed(k, q) \subseteq Threads
    BY HandedDef, WaitingDef, Zenon
  <2>8. \A t \in Waiting(k', MSGQ) :
           /\ role'[t] = "get" \/ (role'[t] = "put" /\ swap_data'[t] \in Messages)
           /\ msgq'.used = IF role'[t] = "get" THEN 0 ELSE MAX_MSGS
    BY Zenon, <1>2, <2>1, <2>3, <2>6, <2>7
  <2>9. \A t \in Handed(k', MSGQ) :
           role'[t] = "get" => swap_data'[t] = due'[t] /\ due'[t] # NULL
    BY Zenon, <1>2, <2>1, <2>3, <2>6, <2>7
  <2> QED BY <1>2, <2>1, <2>2, <2>5, <2>6, <2>8, <2>9, MsgqWaiters, Zenon
<1>5. CASE u = NULL
  <2>1. /\ msgq' = [Store(msgq, v) EXCEPT !.used = @ + 1]
        /\ accepted' = Append(accepted, v)
        /\ k' = k /\ swap_data' = swap_data /\ due' = due /\ inOrder' = inOrder /\ role' = role
    BY Zenon, <1>3, <1>5 DEF PutNow
  <2>2. Waiting(k', MSGQ) = {} /\ Serving({MSGQ}, {})'
    BY <1>1, <1>3, <1>5, <2>1, NoFirst, LoopStep, Zenon
  <2>3. Queued(msgq', accepted')
    BY Zenon, <1>2, <2>1, StoreQueued
  <2> QED BY Zenon, <1>2, <2>1, <2>2, <2>3, MsgqWaiters
<1> QED BY Zenon, <1>4, <1>5

\* A get that finds a message takes the oldest one and the message of a producer.
LEMMA GetNowStep ==
  ASSUME Serving({MSGQ}, {}), ctx' = ctx, InterruptsEnabled, MsgqInv,
         msgq.used > 0, GetNow
  PROVE  Serving({MSGQ}, {})' /\ MsgqInv' /\ swap_data' = swap_data
<1>1. MSGQ \in {MSGQ} /\ MSGQ \in Queues /\ ctx = InThread /\ ctx \in LoopsOf({MSGQ}, {})
  BY Zenon, ServiceQueues DEF InterruptsEnabled, Serving
<1>2. /\ Queued(msgq, accepted) /\ inOrder = TRUE
      /\ role \in [Threads -> {"none", "put", "get"}]
      /\ due \in [Threads -> Messages \cup {NULL}]
      /\ \A t \in Waiting(k, MSGQ) :
           /\ role[t] = "get" \/ (role[t] = "put" /\ swap_data[t] \in Messages)
           /\ msgq.used = IF role[t] = "get" THEN 0 ELSE MAX_MSGS
      /\ \A t \in Handed(k, MSGQ) :
           role[t] = "get" => swap_data[t] = due[t] /\ due[t] # NULL
  BY Zenon, <1>1 DEF MsgqInv, InThread
<1>3. PICK u : u = FirstPending(k, MSGQ)
  BY Zenon
<1>4. /\ k' = z_unpend_first_thread(k, MSGQ)
      /\ swap_data' = swap_data /\ role' = role /\ due' = due
      /\ inOrder' = (inOrder /\ msgq.buf[msgq.read] = Head(accepted))
  BY Zenon DEF GetNow, k_msgq_peek
<1>5. inOrder' = TRUE
  BY <1>2, <1>4, FetchQueued, Zenon
<1>6. CASE u = NULL
  <2>1. /\ msgq' = [[msgq EXCEPT !.read = Advance(@)] EXCEPT !.used = @ - 1]
        /\ accepted' = Tail(accepted)
    BY Zenon, <1>3, <1>6 DEF GetNow
  <2>2. k' = k /\ Waiting(k, MSGQ) = {} /\ Serving({MSGQ}, {})'
    BY <1>1, <1>3, <1>4, <1>6, NoFirst, LoopStep, Zenon
  <2>3. Queued(msgq', accepted')
    <3>1. Queued([[msgq EXCEPT !.read = Advance(@)] EXCEPT !.used = @ - 1], Tail(accepted))
      BY <1>2, FetchQueued, Zenon
    <3> QED BY <2>1, <3>1, Zenon
  <2> QED BY <1>2, <1>4, <1>5, <2>2, <2>3, MsgqWaiters, Zenon
<1>7. CASE u # NULL
  <2>1. /\ msgq' = Store([msgq EXCEPT !.read = Advance(@)], swap_data[u])
        /\ accepted' = Append(Tail(accepted), swap_data[u])
    BY Zenon, <1>3, <1>7 DEF GetNow
  <2>2. Serving({MSGQ}, {})' /\ HandedTo(k, k', MSGQ, u) /\ u \in Threads
    BY <1>1, <1>3, <1>4, <1>7, UnpendStep, NoFirst, Zenon
  <2>3. /\ u \in Waiting(k, MSGQ) /\ u \notin Handed(k, MSGQ)
        /\ Handed(k', MSGQ) = Handed(k, MSGQ) \cup {u}
        /\ Waiting(k', MSGQ) = Waiting(k, MSGQ) \ {u}
    BY Zenon, <2>2 DEF HandedTo
  <2>4. role[u] = "put" /\ swap_data[u] \in Messages
    BY <1>2, <2>3
  <2>5. Queued(msgq', accepted')
    BY Zenon, <1>2, <2>1, <2>4, ReplaceQueued
  <2>6. msgq'.used = msgq.used
    BY Zenon, <1>2, <2>1 DEF Queued, Buffers, Store
  <2>7. \A t \in Waiting(k', MSGQ) :
           /\ role'[t] = "get" \/ (role'[t] = "put" /\ swap_data'[t] \in Messages)
           /\ msgq'.used = IF role'[t] = "get" THEN 0 ELSE MAX_MSGS
    BY Zenon, <1>2, <1>4, <2>3, <2>6
  <2>8. \A t \in Handed(k', MSGQ) :
           role'[t] = "get" => swap_data'[t] = due'[t] /\ due'[t] # NULL
    BY Zenon, <1>2, <1>4, <2>3, <2>4
  <2> QED BY <1>2, <1>4, <1>5, <2>2, <2>5, <2>7, <2>8, MsgqWaiters, Zenon
<1> QED BY Zenon, <1>6, <1>7

\* A put finds the message queue full, or a get finds it empty, and waits.
LEMMA MsgqWaitStep ==
  ASSUME Serving({MSGQ}, {}), ctx' = ctx, ctx = InThread, MsgqInv,
         swap_data \in [Threads -> Nodes \cup Messages \cup {NULL}],
         NEW t \in Threads, k.current = t, k.on[t] = NULL,
         NEW n \in Nat \cup {K_FOREVER}, n # K_NO_WAIT, NEW fn, NEW v, Wait(t, fn, v, n),
         \/ fn = "get" /\ v = NULL /\ msgq.used = 0
         \/ fn = "put" /\ v \in Messages /\ msgq.used = MAX_MSGS
  PROVE  /\ Serving({MSGQ}, {})' /\ MsgqInv'
         /\ swap_data' \in [Threads -> Nodes \cup Messages \cup {NULL}]
<1>1. MSGQ \in {MSGQ} /\ MSGQ \in Queues
  BY ServiceQueues, Zenon
<1>2. /\ Queued(msgq, accepted) /\ inOrder = TRUE
      /\ role \in [Threads -> {"none", "put", "get"}]
      /\ due \in [Threads -> Messages \cup {NULL}]
      /\ \A u \in Waiting(k, MSGQ) :
           /\ role[u] = "get" \/ (role[u] = "put" /\ swap_data[u] \in Messages)
           /\ msgq.used = IF role[u] = "get" THEN 0 ELSE MAX_MSGS
      /\ \A u \in Handed(k, MSGQ) :
           role[u] = "get" => swap_data[u] = due[u] /\ due[u] # NULL
  BY Zenon DEF MsgqInv, InThread
<1>3. /\ k' = z_pend_current_on(k, MSGQ, n)
      /\ swap_data' = [swap_data EXCEPT ![t] = v]
      /\ role' = [role EXCEPT ![t] = fn]
      /\ msgq' = msgq /\ accepted' = accepted /\ due' = due /\ inOrder' = inOrder
  BY Zenon DEF Wait
<1>4. Serving({MSGQ}, {})' /\ StartsWait(k, k', MSGQ, t)
  BY <1>1, <1>3, PendStep, Zenon
<1>5. /\ Waiting(k', MSGQ) = Waiting(k, MSGQ) \cup {t} /\ Handed(k', MSGQ) = Handed(k, MSGQ)
      /\ t \notin Handed(k, MSGQ) /\ t \notin Waiting(k, MSGQ)
  BY <1>1, <1>4, Zenon DEF StartsWait
<1>6. /\ swap_data' \in [Threads -> Nodes \cup Messages \cup {NULL}]
      /\ role' \in [Threads -> {"none", "put", "get"}]
      /\ swap_data'[t] = v /\ role'[t] = fn
      /\ \A u \in Threads \ {t} : swap_data'[u] = swap_data[u] /\ role'[u] = role[u]
  BY <1>2, <1>3, Zenon
<1>7. \A q : Waiting(k, q) \subseteq Threads /\ Handed(k, q) \subseteq Threads
  BY HandedDef, WaitingDef, Zenon
<1>8. \A u \in Waiting(k', MSGQ) :
        /\ role'[u] = "get" \/ (role'[u] = "put" /\ swap_data'[u] \in Messages)
        /\ msgq'.used = IF role'[u] = "get" THEN 0 ELSE MAX_MSGS
  <2>1. TAKE u \in Waiting(k', MSGQ)
  <2>2. CASE u = t
    BY Zenon, <1>3, <1>6, <2>2
  <2>3. CASE u # t
    BY Zenon, <1>2, <1>3, <1>5, <1>6, <1>7, <2>3
  <2> QED BY Zenon, <2>2, <2>3
<1>9. \A u \in Handed(k', MSGQ) :
        role'[u] = "get" => swap_data'[u] = due'[u] /\ due'[u] # NULL
  BY Zenon, <1>2, <1>3, <1>5, <1>6, <1>7
<1> QED BY <1>2, <1>3, <1>4, <1>6, <1>8, <1>9, MsgqWaiters, Zenon

\* The thread returns with the message that was put for it.
LEMMA MsgqReturnStep ==
  ASSUME Serving({MSGQ}, {}), MsgqInv,
         swap_data \in [Threads -> Nodes \cup Messages \cup {NULL}],
         NEW t \in Threads, k_msgq_return(t)
  PROVE  /\ Serving({MSGQ}, {})' /\ MsgqInv'
         /\ swap_data' \in [Threads -> Nodes \cup Messages \cup {NULL}]
<1>1. MSGQ \in {MSGQ} /\ MSGQ \in Queues
  BY Zenon, ServiceQueues
<1>2. /\ PendReturn(t, MSGQ)
      /\ inOrder' = (inOrder /\ (role[t] = "get" /\ PendResult(k, t) = "OK"
                                   => swap_data[t] = due[t] /\ due[t] # NULL))
      /\ due' = [due EXCEPT ![t] = NULL] /\ role' = [role EXCEPT ![t] = "none"]
      /\ msgq' = msgq /\ accepted' = accepted
  BY Zenon DEF k_msgq_return
<1>3. /\ Serving({MSGQ}, {})' /\ EndsWait(k, k', MSGQ, t) /\ ctx = InThread /\ ctx' = ctx
      /\ PendResult(k, t) = "OK" <=> t \in Handed(k, MSGQ)
      /\ swap_data' = [swap_data EXCEPT ![t] = NULL]
  BY Zenon, <1>1, <1>2, ReturnStep
<1>4. /\ Queued(msgq, accepted) /\ inOrder = TRUE
      /\ role \in [Threads -> {"none", "put", "get"}]
      /\ due \in [Threads -> Messages \cup {NULL}]
      /\ \A u \in Waiting(k, MSGQ) :
           /\ role[u] = "get" \/ (role[u] = "put" /\ swap_data[u] \in Messages)
           /\ msgq.used = IF role[u] = "get" THEN 0 ELSE MAX_MSGS
      /\ \A u \in Handed(k, MSGQ) :
           role[u] = "get" => swap_data[u] = due[u] /\ due[u] # NULL
  BY Zenon, <1>3 DEF MsgqInv, InThread
<1>5. /\ Waiting(k', MSGQ) = Waiting(k, MSGQ) /\ t \notin Waiting(k, MSGQ)
      /\ Handed(k', MSGQ) = Handed(k, MSGQ) \ {t}
  BY Zenon, <1>1, <1>3 DEF EndsWait
<1>6. inOrder' = TRUE
  <2>1. role[t] = "get" /\ PendResult(k, t) = "OK" => swap_data[t] = due[t] /\ due[t] # NULL
    BY Zenon, <1>3, <1>4
  <2> QED BY <1>2, <1>4, <2>1, Zenon
<1>7. /\ swap_data' \in [Threads -> Nodes \cup Messages \cup {NULL}]
      /\ role' \in [Threads -> {"none", "put", "get"}]
      /\ due' \in [Threads -> Messages \cup {NULL}]
      /\ \A u \in Threads \ {t} : /\ swap_data'[u] = swap_data[u] /\ role'[u] = role[u]
                                  /\ due'[u] = due[u]
  BY Zenon, <1>2, <1>3, <1>4
<1>8. \A q : Waiting(k, q) \subseteq Threads /\ Handed(k, q) \subseteq Threads
  BY Zenon, HandedDef, WaitingDef
<1>9. \A u \in Waiting(k', MSGQ) :
        /\ role'[u] = "get" \/ (role'[u] = "put" /\ swap_data'[u] \in Messages)
        /\ msgq'.used = IF role'[u] = "get" THEN 0 ELSE MAX_MSGS
  BY Zenon, <1>2, <1>4, <1>5, <1>7, <1>8
<1>10. \A u \in Handed(k', MSGQ) :
         role'[u] = "get" => swap_data'[u] = due'[u] /\ due'[u] # NULL
  BY Zenon, <1>4, <1>5, <1>7, <1>8
<1> QED BY <1>2, <1>3, <1>4, <1>6, <1>7, <1>9, <1>10, MsgqWaiters, Zenon

\* Every service of the message queue preserves the invariant.
LEMMA MsgqStep ==
  ASSUME Served({MSGQ}, {}), MsgqInv, MsgqNext
  PROVE  Served({MSGQ}, {})' /\ MsgqInv'
<1>1. /\ Serving({MSGQ}, {})
      /\ swap_data \in [Threads -> Nodes \cup Messages \cup {NULL}]
  BY Zenon DEF Served
<1>2. MSGQ \in {MSGQ} /\ MSGQ \in Queues
  BY Zenon, <1>1, ServiceQueues
<1>3. SUFFICES /\ Serving({MSGQ}, {})' /\ MsgqInv'
               /\ swap_data' \in [Threads -> Nodes \cup Messages \cup {NULL}]
  BY Zenon, <1>1, <1>3 DEF Served
<1>4. InThread \in LoopsOf({MSGQ}, {}) /\ [in |-> "cancel", q |-> MSGQ] \in LoopsOf({MSGQ}, {})
  BY Zenon, <1>2 DEF LoopsOf
<1>5. ASSUME ctx' = ctx, ctx = InThread, UNCHANGED <<k, swap_data, msgqVars>>
      PROVE  Serving({MSGQ}, {})' /\ MsgqInv' /\ swap_data' = swap_data
  BY Zenon, <1>1, <1>4, <1>5, LoopStep, MsgqFrame
<1>6. ASSUME NEW c \in Callers, NEW v \in Messages, NEW n \in Timeouts(c), k_msgq_put(c, v, n)
      PROVE  /\ Serving({MSGQ}, {})' /\ MsgqInv'
             /\ swap_data' \in [Threads -> Nodes \cup Messages \cup {NULL}]
  <2>1. Calls(c) /\ ctx' = ctx /\ ctx = InThread /\ InterruptsEnabled
    BY Zenon, <1>6, CallsEnabled DEF k_msgq_put
  <2>2. CASE msgq.used < MAX_MSGS /\ PutNow(v)
    BY Zenon, <1>1, <2>1, <2>2, PutNowStep
  <2>3. CASE UNCHANGED <<k, swap_data, msgqVars>>
    BY Zenon, <1>1, <1>5, <2>1, <2>3
  <2>4. CASE msgq.used = MAX_MSGS /\ n # K_NO_WAIT /\ Wait(c, "put", v, n)
    <3>1. c \in Threads /\ n \in Nat \cup {K_FOREVER} /\ k.current = c /\ k.on[c] = NULL
      BY Zenon, <2>1, <2>4, CallsEnabled
    <3> QED BY Zenon, <1>1, <2>1, <2>4, <3>1, MsgqWaitStep
  <2> QED BY Zenon, <1>6, <2>2, <2>3, <2>4 DEF k_msgq_put
<1>7. ASSUME NEW c \in Callers, NEW n \in Timeouts(c), k_msgq_get(c, n)
      PROVE  /\ Serving({MSGQ}, {})' /\ MsgqInv'
             /\ swap_data' \in [Threads -> Nodes \cup Messages \cup {NULL}]
  <2>1. Calls(c) /\ ctx' = ctx /\ ctx = InThread /\ InterruptsEnabled
    BY Zenon, <1>7, CallsEnabled DEF k_msgq_get
  <2>2. CASE msgq.used > 0 /\ GetNow
    BY Zenon, <1>1, <2>1, <2>2, GetNowStep
  <2>3. CASE UNCHANGED <<k, swap_data, msgqVars>>
    BY Zenon, <1>1, <1>5, <2>1, <2>3
  <2>4. CASE msgq.used = 0 /\ n # K_NO_WAIT /\ Wait(c, "get", NULL, n)
    <3>1. c \in Threads /\ n \in Nat \cup {K_FOREVER} /\ k.current = c /\ k.on[c] = NULL
      BY Zenon, <2>1, <2>4, CallsEnabled
    <3> QED BY <1>1, <2>1, <2>4, <3>1, MsgqWaitStep, Zenon
  <2> QED BY Zenon, <1>7, <2>2, <2>3, <2>4 DEF k_msgq_get
<1>8. ASSUME NEW c \in Callers, k_msgq_purge(c)
      PROVE  /\ Serving({MSGQ}, {})' /\ MsgqInv'
             /\ swap_data' \in [Threads -> Nodes \cup Messages \cup {NULL}]
  <2>1. /\ Calls(c) /\ ctx' = [in |-> "cancel", q |-> MSGQ] /\ k' = k /\ swap_data' = swap_data
        /\ msgq' = [msgq EXCEPT !.write = msgq.read, !.used = 0]
        /\ accepted' = <<>> /\ role' = role /\ due' = due /\ inOrder' = inOrder
    BY Zenon, <1>8 DEF k_msgq_purge, z_cancel_all_pending
  <2>2. Serving({MSGQ}, {})'
    BY Zenon, <1>1, <1>4, <2>1, CallsEnabled, LoopStep
  <2>3. /\ Queued(msgq, accepted) /\ msgq \in Buffers /\ msgq.read \in 0 .. MAX_MSGS - 1
        /\ 0 \in 0 .. MAX_MSGS /\ MAX_MSGS \in Nat
    <3>1. Queued(msgq, accepted) /\ msgq \in Buffers
      BY Zenon DEF MsgqInv, Queued
    <3>2. msgq.read \in 0 .. MAX_MSGS - 1
      BY ONLY Zenon, <3>1 DEF Buffers
    <3>3. 0 \in 0 .. MAX_MSGS /\ MAX_MSGS \in Nat
      BY ONLY MsgqAssumption
    <3> QED BY Zenon, <3>1, <3>2, <3>3
  <2>4. /\ msgq' \in Buffers /\ msgq'.read = msgq.read /\ msgq'.write = msgq.read
        /\ msgq'.used = 0
    BY <2>1, <2>3, Zenon DEF Buffers
  <2>5. Place(msgq.read + 0) = msgq.read
    BY <2>3 DEF Place
  <2>6. Queued(msgq', accepted')
    BY <2>1, <2>4, <2>5 DEF Queued
  <2> QED BY Zenon, <1>1, <2>1, <2>2, <2>6 DEF MsgqInv
<1>9. ASSUME NEW t \in Threads, k_msgq_return(t)
      PROVE  /\ Serving({MSGQ}, {})' /\ MsgqInv'
             /\ swap_data' \in [Threads -> Nodes \cup Messages \cup {NULL}]
  BY Zenon, <1>1, <1>9, MsgqReturnStep
<1>10. ASSUME CancelEnd(MSGQ), UNCHANGED msgqVars
       PROVE  /\ Serving({MSGQ}, {})' /\ MsgqInv'
              /\ swap_data' \in [Threads -> Nodes \cup Messages \cup {NULL}]
  <2>1. ctx' = InThread /\ k' = k /\ swap_data' = swap_data /\ DLIST_EMPTY(k.wq, MSGQ)
    BY Zenon, <1>10 DEF CancelEnd
  <2>2. Waiting(k, MSGQ) = {}
    BY Zenon, <1>1, <1>2, <2>1, NoFirst
  <2>3. Serving({MSGQ}, {})'
    BY Zenon, <1>1, <1>4, <2>1, LoopStep
  <2> QED BY Zenon, <1>1, <1>10, <2>1, <2>2, <2>3, MsgqFrame
<1> QED BY Zenon, <1>6, <1>7, <1>8, <1>9, <1>10 DEF MsgqNext

-------------------------------------------------------------------------------
(* The blocks of the slab in the fifo: a block goes from one place to another *)

LEMMA FreeTaken ==
  ASSUME NEW F, NEW O, NEW h \in [Callers -> SUBSET Nodes], NEW M, NEW w,
         Partition(F, O, h, M, w), NEW n \in Nodes, n \in F, NEW c \in Callers
  PROVE  Partition(F \ {n}, O, [h EXCEPT ![c] = h[c] \cup {n}], M, w)
<1> DEFINE g == [h EXCEPT ![c] = h[c] \cup {n}]
<1>1. /\ \A d \in Callers \ {c} : g[d] = h[d]
      /\ g[c] = h[c] \cup {n}
  BY Zenon
<1> HIDE DEF g
<1>2. Partition(F \ {n}, O, g, M, w)
  BY <1>1 DEF Partition
<1> QED BY Zenon, <1>2 DEF g

LEMMA ItemTaken ==
  ASSUME NEW F, NEW O, NEW h \in [Callers -> SUBSET Nodes], NEW M, NEW w,
         Partition(F, O, h, M, w), NEW n \in Nodes, n \in O, NEW c \in Callers
  PROVE  Partition(F, O \ {n}, [h EXCEPT ![c] = h[c] \cup {n}], M, w)
<1> DEFINE g == [h EXCEPT ![c] = h[c] \cup {n}]
<1>1. /\ \A d \in Callers \ {c} : g[d] = h[d]
      /\ g[c] = h[c] \cup {n}
  BY Zenon
<1> HIDE DEF g
<1>2. Partition(F, O \ {n}, g, M, w)
  BY <1>1 DEF Partition
<1> QED BY Zenon, <1>2 DEF g

LEMMA HeldFreed ==
  ASSUME NEW F, NEW O, NEW h \in [Callers -> SUBSET Nodes], NEW M, NEW w,
         Partition(F, O, h, M, w), NEW c \in Callers, NEW n \in h[c]
  PROVE  Partition(F \cup {n}, O, [h EXCEPT ![c] = h[c] \ {n}], M, w)
<1> DEFINE g == [h EXCEPT ![c] = h[c] \ {n}]
<1>1. /\ \A d \in Callers \ {c} : g[d] = h[d]
      /\ g[c] = h[c] \ {n}
  BY Zenon
<1> HIDE DEF g
<1>2. Partition(F \cup {n}, O, g, M, w)
  BY <1>1 DEF Partition
<1> QED BY Zenon, <1>2 DEF g

LEMMA HeldPut ==
  ASSUME NEW F, NEW O, NEW h \in [Callers -> SUBSET Nodes], NEW M, NEW w,
         Partition(F, O, h, M, w), NEW c \in Callers, NEW n \in h[c]
  PROVE  Partition(F, O \cup {n}, [h EXCEPT ![c] = h[c] \ {n}], M, w)
<1> DEFINE g == [h EXCEPT ![c] = h[c] \ {n}]
<1>1. /\ \A d \in Callers \ {c} : g[d] = h[d]
      /\ g[c] = h[c] \ {n}
  OBVIOUS
<1> HIDE DEF g
<1>2. Partition(F, O \cup {n}, g, M, w)
  BY <1>1 DEF Partition
<1> QED BY Zenon, <1>2 DEF g

LEMMA HeldMoved ==
  ASSUME NEW F, NEW O, NEW h \in [Callers -> SUBSET Nodes], NEW M \in SUBSET Threads,
         NEW V, NEW w \in [Threads -> V], Partition(F, O, h, M, w),
         NEW c \in Callers, NEW n \in h[c], NEW t \in Threads, t \notin M
  PROVE  Partition(F, O, [h EXCEPT ![c] = h[c] \ {n}], M \cup {t}, [w EXCEPT ![t] = n])
<1> DEFINE g == [h EXCEPT ![c] = h[c] \ {n}]
           v == [w EXCEPT ![t] = n]
<1>1. /\ \A d \in Callers \ {c} : g[d] = h[d]
      /\ g[c] = h[c] \ {n}
      /\ \A u \in M : v[u] = w[u]
      /\ v[t] = n /\ n \in Nodes
  BY Zenon
<1> HIDE DEF g, v
<1>2. Partition(F, O, g, M \cup {t}, v)
  BY <1>1 DEF Partition
<1> QED BY Zenon, <1>2 DEF g, v

LEMMA MovedTaken ==
  ASSUME NEW F, NEW O, NEW h \in [Callers -> SUBSET Nodes], NEW M \in SUBSET Threads,
         NEW V, NEW w \in [Threads -> V], Partition(F, O, h, M, w), NEW t \in M
  PROVE  Partition(F, O, [h EXCEPT ![t] = h[t] \cup {w[t]}], M \ {t}, [w EXCEPT ![t] = NULL])
<1> DEFINE g == [h EXCEPT ![t] = h[t] \cup {w[t]}]
           v == [w EXCEPT ![t] = NULL]
<1>1. /\ \A d \in Callers \ {t} : g[d] = h[d]
      /\ g[t] = h[t] \cup {w[t]}
      /\ \A u \in M \ {t} : v[u] = w[u]
      /\ t \in Callers
  BY Zenon DEF Callers
<1> HIDE DEF g, v
<1>2. Partition(F, O, g, M \ {t}, v)
  BY <1>1 DEF Partition
<1> QED BY Zenon, <1>2 DEF g, v

LEMMA SwapFrame ==
  ASSUME NEW F, NEW O, NEW h, NEW M, NEW w, NEW v, Partition(F, O, h, M, w),
         \A t \in M : v[t] = w[t]
  PROVE  Partition(F, O, h, M, v)
BY Zenon DEF Partition

\* The conjuncts of BlocksInv, with the free blocks in order.
LEMMA BlocksPrimed ==
  ASSUME next' \in [Nodes -> Nodes \cup {NULL}],
         order' \in Seq(Nodes), Listed(next', queue'.head, order'),
         Len(order') # 0 => queue'.tail = order'[Len(order')],
         held' \in [Callers -> SUBSET Nodes],
         NEW free \in Seq(Nodes), Listed(next', free_list', free),
         Partition(Elems(free), Elems(order'), held', Moved', swap_data'),
         Waiting(k', FIFO) # {} => queue'.head = NULL,
         Waiting(k', SLAB) # {} => free_list' = NULL
  PROVE  BlocksInv'
BY Zenon DEF BlocksInv

LEMMA BlocksFrame ==
  ASSUME BlocksInv, UNCHANGED <<fifoVars, slabVars>>,
         Handed(k', FIFO) = Handed(k, FIFO), Handed(k', SLAB) = Handed(k, SLAB),
         Waiting(k', FIFO) \subseteq Waiting(k, FIFO), Waiting(k', SLAB) \subseteq Waiting(k, SLAB),
         \A t \in Moved : swap_data'[t] = swap_data[t]
  PROVE  BlocksInv'
<1>1. /\ next' = next /\ queue' = queue /\ order' = order /\ free_list' = free_list
      /\ held' = held /\ Moved' = Moved
  BY Zenon DEF fifoVars, slabVars, Moved
<1>2. PICK free \in Seq(Nodes) :
        /\ Listed(next, free_list, free)
        /\ Partition(Elems(free), Elems(order), held, Moved, swap_data)
  BY Zenon DEF BlocksInv
<1>3. Partition(Elems(free), Elems(order), held, Moved, swap_data')
  BY Zenon, <1>2, SwapFrame
<1>4. /\ Waiting(k', FIFO) # {} => queue.head = NULL
      /\ Waiting(k', SLAB) # {} => free_list = NULL
  BY Zenon DEF BlocksInv
<1> QED BY <1>1, <1>2, <1>3, <1>4, BlocksPrimed, Zenon DEF BlocksInv

\* Somebody is handed a block instead of the free list or the fifo.
LEMMA HandBlock ==
  ASSUME Served({FIFO, SLAB}, {}), BlocksInv, ctx' = ctx, InterruptsEnabled,
         NEW q \in {FIFO, SLAB}, FirstPending(k, q) # NULL,
         NEW c \in Callers, NEW n \in held[c], z_unpend_first_and_swap(q, n), Drop(c, n),
         UNCHANGED <<fifoVars, free_list>>
  PROVE  /\ Serving({FIFO, SLAB}, {})' /\ BlocksInv'
         /\ swap_data' \in [Threads -> Nodes \cup Messages \cup {NULL}]
<1>1. /\ Serving({FIFO, SLAB}, {}) /\ swap_data \in [Threads -> Nodes \cup Messages \cup {NULL}]
      /\ q \in {FIFO, SLAB} /\ q \in Queues /\ FIFO # SLAB
      /\ FIFO \in Queues /\ SLAB \in Queues
  BY Zenon, ServiceQueues DEF Served
<1>2. PICK u : u = FirstPending(k, q)
  BY Zenon
<1>3. /\ k' = z_unpend_first_thread(k, q) /\ swap_data' = [swap_data EXCEPT ![u] = n]
      /\ held' = [held EXCEPT ![c] = held[c] \ {n}]
      /\ next' = next /\ queue' = queue /\ order' = order /\ free_list' = free_list
  BY Zenon, <1>2 DEF z_unpend_first_and_swap, Drop, fifoVars
<1>4. Serving({FIFO, SLAB}, {})' /\ HandedTo(k, k', q, u) /\ u \in Threads
  BY Zenon, <1>1, <1>2, <1>3, UnpendStep, NoFirst
<1>5. /\ Waiting(k', FIFO) \subseteq Waiting(k, FIFO)
      /\ Waiting(k', SLAB) \subseteq Waiting(k, SLAB)
      /\ Handed(k', FIFO) \cup Handed(k', SLAB) = Moved \cup {u}
  BY <1>1, <1>4, Zenon DEF HandedTo, Moved
<1>6. Moved' = Moved \cup {u} /\ u \notin Moved /\ Moved \in SUBSET Threads
  <2>1. u \in Waiting(k, q) /\ Moved \in SUBSET Threads
    BY <1>4, HandedDef, Zenon DEF HandedTo, Moved
  <2>2. u \notin Moved
    BY <2>1, HandedDef, WaitingDef DEF Moved
  <2> QED BY <1>5, <2>1, <2>2, Zenon DEF Moved
<1>7. PICK free \in Seq(Nodes) :
        /\ Listed(next, free_list, free)
        /\ Partition(Elems(free), Elems(order), held, Moved, swap_data)
  BY Zenon DEF BlocksInv
<1>8. held \in [Callers -> SUBSET Nodes] /\ n \in Nodes
  BY Zenon DEF BlocksInv
<1>9. Partition(Elems(free), Elems(order), held', Moved', swap_data')
  BY <1>1, <1>3, <1>4, <1>6, <1>7, <1>8, HeldMoved, Zenon
<1>10. held' \in [Callers -> SUBSET Nodes]
  BY Zenon, <1>3, <1>8
<1>11. swap_data' \in [Threads -> Nodes \cup Messages \cup {NULL}]
  BY <1>1, <1>3, <1>8, Zenon
<1>12. /\ Waiting(k', FIFO) # {} => queue.head = NULL
       /\ Waiting(k', SLAB) # {} => free_list = NULL
  BY <1>5, Zenon DEF BlocksInv
<1>13. BlocksInv'
  BY <1>3, <1>7, <1>9, <1>10, <1>12, BlocksPrimed, Zenon DEF BlocksInv
<1> QED BY <1>4, <1>11, <1>13, Zenon

\* A thread returns from its wait with the block it was handed, if any.
LEMMA ReturnBlock ==
  ASSUME Served({FIFO, SLAB}, {}), BlocksInv, NEW q \in {FIFO, SLAB},
         NEW t \in Threads, PendReturn(t, q), Take(t, Received(t)),
         UNCHANGED <<fifoVars, free_list>>
  PROVE  /\ Serving({FIFO, SLAB}, {})' /\ BlocksInv'
         /\ swap_data' \in [Threads -> Nodes \cup Messages \cup {NULL}]
<1>1. /\ Serving({FIFO, SLAB}, {}) /\ swap_data \in [Threads -> Nodes \cup Messages \cup {NULL}]
      /\ q \in {FIFO, SLAB} /\ q \in Queues /\ FIFO # SLAB
      /\ FIFO \in Queues /\ SLAB \in Queues
  BY Zenon, ServiceQueues DEF Served
<1>2. /\ Serving({FIFO, SLAB}, {})' /\ EndsWait(k, k', q, t)
      /\ PendResult(k, t) = "OK" <=> t \in Handed(k, q)
      /\ swap_data' = [swap_data EXCEPT ![t] = NULL]
  BY Zenon, <1>1, ReturnStep
<1>3. /\ Waiting(k', FIFO) = Waiting(k, FIFO) /\ Waiting(k', SLAB) = Waiting(k, SLAB)
      /\ Handed(k', FIFO) \cup Handed(k', SLAB) = Moved \ {t}
      /\ t \in Handed(k, q) <=> t \in Moved
  BY ZenonT(30), <1>1, <1>2 DEF EndsWait, Moved
<1>4. Moved' = Moved \ {t} /\ Moved \in SUBSET Threads
  BY <1>3, HandedDef, Zenon DEF Moved
<1>5. /\ next' = next /\ queue' = queue /\ order' = order /\ free_list' = free_list
      /\ held' = [held EXCEPT ![t] = held[t] \cup Received(t)]
      /\ held \in [Callers -> SUBSET Nodes] /\ t \in Callers
  BY Zenon DEF fifoVars, Take, BlocksInv, Callers
<1>6. PICK free \in Seq(Nodes) :
        /\ Listed(next, free_list, free)
        /\ Partition(Elems(free), Elems(order), held, Moved, swap_data)
  BY Zenon DEF BlocksInv
<1>7. swap_data' \in [Threads -> Nodes \cup Messages \cup {NULL}]
  BY Zenon, <1>1, <1>2
<1>8. /\ Partition(Elems(free), Elems(order), held', Moved', swap_data')
      /\ held' \in [Callers -> SUBSET Nodes]
  <2>1. CASE t \in Moved
    <3>1. Received(t) = {swap_data[t]}
      BY Zenon, <1>2, <1>3, <2>1 DEF Received
    <3>2. Partition(Elems(free), Elems(order), [held EXCEPT ![t] = held[t] \cup {swap_data[t]}],
                    Moved \ {t}, [swap_data EXCEPT ![t] = NULL])
      BY <1>1, <1>4, <1>5, <1>6, <2>1, MovedTaken, Zenon
    <3>3. swap_data[t] \in Nodes
      BY <1>6, <2>1, Zenon DEF Partition
    <3> QED BY Zenon, <1>2, <1>4, <1>5, <3>1, <3>2, <3>3
  <2>2. CASE t \notin Moved
    <3>1. held' = held /\ Moved' = Moved
      BY Zenon, <1>2, <1>3, <1>4, <1>5, <2>2 DEF Received
    <3>2. \A u \in Moved : swap_data'[u] = swap_data[u]
      BY Zenon, <1>1, <1>2, <1>4, <2>2
    <3> QED BY <1>5, <1>6, <3>1, <3>2, SwapFrame, Zenon
  <2> QED BY Zenon, <2>1, <2>2
<1>9. BlocksInv'
  BY <1>3, <1>5, <1>6, <1>8, BlocksPrimed, Zenon DEF BlocksInv
<1> QED BY Zenon, <1>2, <1>7, <1>9

\* The caller waits, for a block or for an item: there is none.
LEMMA WaitBlock ==
  ASSUME Served({FIFO, SLAB}, {}), BlocksInv, ctx' = ctx,
         NEW c \in Callers, Calls(c), NEW n \in Timeouts(c),
         NEW q \in {FIFO, SLAB}, IF q = FIFO THEN queue.head = NULL ELSE free_list = NULL,
         k' = z_pend_current_on(k, q, n), UNCHANGED <<swap_data, fifoVars, slabVars>>
  PROVE  /\ Serving({FIFO, SLAB}, {})' /\ BlocksInv'
         /\ swap_data' \in [Threads -> Nodes \cup Messages \cup {NULL}]
<1>1. /\ Serving({FIFO, SLAB}, {}) /\ swap_data \in [Threads -> Nodes \cup Messages \cup {NULL}]
      /\ q \in {FIFO, SLAB} /\ q \in Queues /\ FIFO # SLAB
      /\ FIFO \in Queues /\ SLAB \in Queues
      /\ ctx = InThread /\ InterruptsEnabled /\ ctx' \in LoopsOf({FIFO, SLAB}, {})
  BY ServiceQueues, CallsEnabled, Zenon DEF Served, Serving
<1>2. CASE n = K_NO_WAIT
  <2>1. k' = k
    BY Zenon, <1>2 DEF z_pend_current_on
  <2>2. Serving({FIFO, SLAB}, {})'
    BY Zenon, <1>1, <2>1, LoopStep
  <2>3. BlocksInv'
    BY Zenon, <2>1, BlocksFrame
  <2> QED BY Zenon, <1>1, <2>2, <2>3
<1>3. CASE n # K_NO_WAIT
  <2>1. c \in Threads /\ n \in Nat \cup {K_FOREVER} /\ k.current = c /\ k.on[c] = NULL
    BY <1>3, CallsEnabled, Zenon
  <2>2. Serving({FIFO, SLAB}, {})' /\ StartsWait(k, k', q, c)
    BY <1>1, <1>3, <2>1, PendStep, Zenon
  <2>3. /\ Moved' = Moved
        /\ Waiting(k', FIFO) # {} => queue.head = NULL
        /\ Waiting(k', SLAB) # {} => free_list = NULL
    <3>1. /\ Waiting(k, FIFO) # {} => queue.head = NULL
          /\ Waiting(k, SLAB) # {} => free_list = NULL
      BY Zenon DEF BlocksInv
    <3> QED BY <1>1, <2>2, <3>1 DEF StartsWait, Moved
  <2>4. PICK free \in Seq(Nodes) :
          /\ Listed(next, free_list, free)
          /\ Partition(Elems(free), Elems(order), held, Moved, swap_data)
    BY Zenon DEF BlocksInv
  <2>5. BlocksInv'
    BY <2>3, <2>4, BlocksPrimed, Zenon DEF BlocksInv, fifoVars, slabVars
  <2> QED BY Zenon, <1>1, <2>2, <2>5
<1> QED BY Zenon, <1>2, <1>3

\* A list is empty exactly when its head is NULL.
LEMMA HeadNull ==
  ASSUME NEW mem, NEW head, NEW s \in Seq(Nodes), Listed(mem, head, s)
  PROVE  head = NULL <=> Len(s) = 0
<1>1. Len(s) \in Nat /\ (Len(s) # 0 => s[1] \in Nodes)
  OBVIOUS
<1> QED BY Zenon, <1>1, FifoAssumption DEF Listed

\* k_mem_slab_alloc takes the first free block.
LEMMA AllocTake ==
  ASSUME BlocksInv, free_list # NULL, free_list' = next[free_list],
         NEW c \in Callers, Take(c, {free_list}), UNCHANGED <<k, swap_data, fifoVars>>
  PROVE  BlocksInv'
<1>1. PICK free \in Seq(Nodes) :
        /\ Listed(next, free_list, free)
        /\ Partition(Elems(free), Elems(order), held, Moved, swap_data)
  BY Zenon DEF BlocksInv
<1>2. Len(free) # 0
  BY <1>1, HeadNull
<1>3. /\ free_list = free[1] /\ free[1] \in Nodes
      /\ Tail(free) \in Seq(Nodes) /\ Listed(next, next[free_list], Tail(free))
  BY <1>1, <1>2, TailListed
<1>4. Elems(Tail(free)) = Elems(free) \ {free[1]} /\ free[1] \in Elems(free)
  BY Zenon, <1>1, <1>2, ElemsTail DEF Listed
<1>5. /\ held \in [Callers -> SUBSET Nodes] /\ Waiting(k, SLAB) = {}
      /\ held' = [held EXCEPT ![c] = held[c] \cup {free[1]}]
  BY Zenon, <1>3 DEF BlocksInv, Take
<1>6. Partition(Elems(Tail(free)), Elems(order), held', Moved, swap_data)
  <2>1. Partition(Elems(free) \ {free[1]}, Elems(order),
                  [held EXCEPT ![c] = held[c] \cup {free[1]}], Moved, swap_data)
    BY <1>1, <1>3, <1>4, <1>5, FreeTaken, Zenon
  <2> QED BY <1>4, <1>5, <2>1, Zenon
<1>7. held' \in [Callers -> SUBSET Nodes] /\ Moved' = Moved
  BY Zenon, <1>3, <1>5 DEF Moved
<1> HIDE DEF Moved
<1> QED BY <1>3, <1>5, <1>6, <1>7, BlocksPrimed, Zenon DEF BlocksInv, fifoVars

\* k_mem_slab_free puts the block at the head of the free list.
LEMMA FreePush ==
  ASSUME BlocksInv, NEW c \in Callers, NEW n \in held[c], Waiting(k, SLAB) = {},
         next' = [next EXCEPT ![n] = free_list], free_list' = n, Drop(c, n),
         UNCHANGED <<k, swap_data, queue, order>>
  PROVE  BlocksInv'
<1>1. PICK free \in Seq(Nodes) :
        /\ Listed(next, free_list, free)
        /\ Partition(Elems(free), Elems(order), held, Moved, swap_data)
  BY Zenon DEF BlocksInv
<1>2. /\ held \in [Callers -> SUBSET Nodes] /\ n \in Nodes
      /\ held' = [held EXCEPT ![c] = held[c] \ {n}]
      /\ next \in [Nodes -> Nodes \cup {NULL}] /\ order \in Seq(Nodes)
      /\ Listed(next, queue.head, order) /\ NULL \notin Nodes
  BY FifoAssumption, Zenon DEF BlocksInv, Drop
<1>3. n \notin Elems(free) /\ n \notin Elems(order)
  BY Zenon, <1>1 DEF Partition
<1>4. /\ \A i \in 1 .. Len(free) : free[i] # n
      /\ \A i \in 1 .. Len(order) : order[i] # n
  BY <1>3, Zenon DEF Elems
<1>5. /\ <<n>> \o free \in Seq(Nodes) /\ Listed(next', n, <<n>> \o free)
      /\ next' \in [Nodes -> Nodes \cup {NULL}]
  <2>1. HasChain(Nodes, next, free_list, free)
    BY Zenon, <1>1, <1>2 DEF HasChain
  <2>2. HasChain(Nodes, [next EXCEPT ![n] = free_list], n, <<n>> \o free)
    BY <1>2, <1>4, <2>1, PushListed, Zenon
  <2>3. HasChain(Nodes, next', n, <<n>> \o free)
    BY Zenon, <2>2
  <2> QED BY Zenon, <2>3 DEF HasChain
<1>6. Elems(<<n>> \o free) = Elems(free) \cup {n}
  BY <1>2, ElemsPush
<1>7. \A i \in 1 .. Len(order) : next'[order[i]] = next[order[i]]
  BY <1>2, <1>4
<1>8. Listed(next', queue.head, order)
  BY <1>2, <1>7, ListedFrame, Zenon
<1>9. Partition(Elems(<<n>> \o free), Elems(order), held', Moved, swap_data)
  <2>1. Partition(Elems(free) \cup {n}, Elems(order), [held EXCEPT ![c] = held[c] \ {n}],
                  Moved, swap_data)
    BY <1>1, <1>2, HeldFreed, Zenon
  <2> QED BY <1>2, <1>6, <2>1, Zenon
<1>10. held' \in [Callers -> SUBSET Nodes] /\ Moved' = Moved
  BY Zenon, <1>2 DEF Moved
<1> QED BY <1>5, <1>8, <1>9, <1>10, BlocksPrimed, Zenon DEF BlocksInv

\* z_fifo_put appends the block to the fifo.
LEMMA PutAppend ==
  ASSUME BlocksInv, NEW c \in Callers, NEW n \in held[c], Waiting(k, FIFO) = {},
         queue' = slist_append(queue, n), next' = slist_append_next(next, queue, n),
         order' = Append(order, n), Drop(c, n), UNCHANGED <<k, swap_data, free_list>>
  PROVE  BlocksInv'
<1>1. PICK free \in Seq(Nodes) :
        /\ Listed(next, free_list, free)
        /\ Partition(Elems(free), Elems(order), held, Moved, swap_data)
  BY Zenon DEF BlocksInv
<1>2. /\ held \in [Callers -> SUBSET Nodes] /\ n \in Nodes
      /\ held' = [held EXCEPT ![c] = held[c] \ {n}]
      /\ next \in [Nodes -> Nodes \cup {NULL}] /\ order \in Seq(Nodes)
      /\ Listed(next, queue.head, order) /\ NULL \notin Nodes
      /\ Len(order) # 0 => queue.tail = order[Len(order)]
  BY FifoAssumption, Zenon DEF BlocksInv, Drop
<1>3. /\ n \notin Elems(free) /\ n \notin Elems(order)
      /\ \A x \in Elems(free) : x \notin Elems(order)
  BY <1>1, Zenon DEF Partition
<1>4. /\ \A i \in 1 .. Len(order) : order[i] # n
      /\ \A j \in 1 .. Len(free) : /\ free[j] \in Nodes /\ free[j] # n
                                   /\ \A i \in 1 .. Len(order) : order[i] # free[j]
  BY SMTT(30), <1>3 DEF Elems
<1>5. /\ next' \in [Nodes -> Nodes \cup {NULL}]
      /\ Append(order, n) \in Seq(Nodes)
      /\ Listed(next', queue'.head, Append(order, n))
      /\ queue'.tail = n
      /\ \A x \in Nodes : x # n /\ (\A i \in 1 .. Len(order) : order[i] # x) => next'[x] = next[x]
  <2> DEFINE mem == slist_append_next(next, queue, n)
             r == slist_append(queue, n)
  <2>1. /\ mem \in [Nodes -> Nodes \cup {NULL}]
        /\ Append(order, n) \in Seq(Nodes)
        /\ Listed(mem, r.head, Append(order, n))
        /\ r.tail = n
        /\ \A x \in Nodes : x # n /\ (\A i \in 1 .. Len(order) : order[i] # x) => mem[x] = next[x]
    <3>1. \A i \in 1 .. Len(order) : order[i] # n
      BY Zenon, <1>4
    <3> QED BY ONLY <1>2, <3>1, AppendListed, SMTT(30)
  <2> QED BY Zenon, <2>1
<1>6. Elems(order') = Elems(order) \cup {n}
  BY <1>2, ElemsAppend
<1>7. order'[Len(order')] = n
  BY <1>2
<1>8. Listed(next', free_list, free)
  <2>1. \A j \in 1 .. Len(free) : next'[free[j]] = next[free[j]]
    BY Zenon, <1>4, <1>5
  <2> QED BY <1>1, <2>1, ListedFrame, Zenon
<1>9. Partition(Elems(free), Elems(order'), held', Moved, swap_data)
  <2>1. Partition(Elems(free), Elems(order) \cup {n}, [held EXCEPT ![c] = held[c] \ {n}],
                  Moved, swap_data)
    BY <1>1, <1>2, HeldPut, Zenon
  <2> QED BY <1>2, <1>6, <2>1, Zenon
<1>10. held' \in [Callers -> SUBSET Nodes] /\ Moved' = Moved
  BY Zenon, <1>2 DEF Moved
<1>11. Waiting(k', FIFO) = {} /\ (Waiting(k', SLAB) # {} => free_list' = NULL)
  BY Zenon DEF BlocksInv
<1> QED BY <1>5, <1>7, <1>8, <1>9, <1>10, <1>11, BlocksPrimed, Zenon

\* k_fifo_get takes the oldest item.
LEMMA GetTake ==
  ASSUME BlocksInv, queue.head # NULL, NEW c \in Callers, Take(c, {queue.head} \ {NULL}),
         queue' = slist_get(next, queue),
         order' = IF order = <<>> THEN order ELSE Tail(order),
         UNCHANGED <<k, swap_data, next, free_list>>
  PROVE  BlocksInv'
<1>1. PICK free \in Seq(Nodes) :
        /\ Listed(next, free_list, free)
        /\ Partition(Elems(free), Elems(order), held, Moved, swap_data)
  BY Zenon DEF BlocksInv
<1>2. /\ held \in [Callers -> SUBSET Nodes] /\ NULL \notin Nodes
      /\ held' = [held EXCEPT ![c] = held[c] \cup {queue.head}]
      /\ next \in [Nodes -> Nodes \cup {NULL}] /\ order \in Seq(Nodes)
      /\ Listed(next, queue.head, order)
      /\ Len(order) # 0 => queue.tail = order[Len(order)]
      /\ Waiting(k, FIFO) = {} /\ (Waiting(k, SLAB) # {} => free_list = NULL)
  BY FifoAssumption, Zenon DEF BlocksInv, Take
<1>3. Len(order) # 0 /\ order # <<>>
  BY Zenon, <1>2, HeadNull
<1>4. order' = Tail(order)
  BY Zenon, <1>3
<1>5. queue.head = order[1] /\ order[1] \in Nodes /\ Tail(order) \in Seq(Nodes)
  BY <1>2, <1>3, TailListed
<1>6. /\ Listed(next, queue'.head, Tail(order))
      /\ Len(Tail(order)) # 0 => queue'.tail = Tail(order)[Len(Tail(order))]
  <2>1. HasList(next, queue, order)
    BY Zenon, <1>2 DEF HasList
  <2>2. HasList(next, slist_get(next, queue), Tail(order))
    BY Zenon, <1>2, <1>3, <2>1, GetListed
  <2> QED BY <2>2, Zenon DEF HasList
<1>7. Elems(Tail(order)) = Elems(order) \ {order[1]} /\ order[1] \in Elems(order)
  BY <1>2, <1>3, ElemsTail, Zenon DEF Listed
<1>8. Partition(Elems(free), Elems(Tail(order)), held', Moved, swap_data)
  <2>1. Partition(Elems(free), Elems(order) \ {order[1]},
                  [held EXCEPT ![c] = held[c] \cup {order[1]}], Moved, swap_data)
    BY <1>1, <1>2, <1>5, <1>7, ItemTaken, Zenon
  <2> QED BY <1>2, <1>5, <1>7, <2>1, Zenon
<1>9. held' \in [Callers -> SUBSET Nodes] /\ Moved' = Moved
  BY Zenon, <1>2, <1>5 DEF Moved
<1> QED BY <1>1, <1>2, <1>4, <1>5, <1>6, <1>8, <1>9, BlocksPrimed, Zenon

\* Every service of the fifo and of the slab preserves the invariant.
LEMMA BlocksStep ==
  ASSUME Served({FIFO, SLAB}, {}), BlocksInv, NEW U \in SUBSET Callers, BlocksNext(U)
  PROVE  Served({FIFO, SLAB}, {})' /\ BlocksInv'
<1> DEFINE Swaps == [Threads -> Nodes \cup Messages \cup {NULL}]
<1>1. /\ Serving({FIFO, SLAB}, {})
      /\ swap_data \in Swaps
  BY Zenon DEF Served
<1>2. /\ FIFO \in {FIFO, SLAB} /\ SLAB \in {FIFO, SLAB}
  BY Zenon, <1>1, ServiceQueues
<1>3. SUFFICES Serving({FIFO, SLAB}, {})' /\ BlocksInv' /\ swap_data' \in Swaps
  BY Zenon, <1>1, <1>3 DEF Served
<1>4. /\ InThread \in LoopsOf({FIFO, SLAB}, {})
      /\ [in |-> "cancel", q |-> FIFO] \in LoopsOf({FIFO, SLAB}, {})
  BY Zenon, <1>2 DEF LoopsOf
<1>5. \A c \in U : c \in Callers
  BY Zenon
<1>6. FirstPending(k, SLAB) = NULL => Waiting(k, SLAB) = {}
  BY Zenon, <1>1, <1>2, NoFirst
<1>7. FirstPending(k, FIFO) = NULL => Waiting(k, FIFO) = {}
  BY Zenon, <1>1, <1>2, NoFirst
<1> HIDE DEF Swaps
<1>8. ASSUME NEW c \in Callers, NEW n \in Timeouts(c), k_mem_slab_alloc(c, n)
      PROVE  Serving({FIFO, SLAB}, {})' /\ BlocksInv' /\ swap_data' \in Swaps
  <2>1. /\ Calls(c) /\ ctx' = ctx /\ ctx = InThread /\ InterruptsEnabled
        /\ swap_data' = swap_data /\ UNCHANGED fifoVars
    BY <1>8, CallsEnabled, Zenon DEF k_mem_slab_alloc
  <2>2. CASE /\ free_list # NULL /\ free_list' = next[free_list] /\ Take(c, {free_list})
             /\ k' = k
    <3>1. Serving({FIFO, SLAB}, {})'
      BY Zenon, <1>1, <1>4, <2>1, <2>2, LoopStep
    <3>2. BlocksInv'
      BY Zenon, <2>1, <2>2, AllocTake
    <3> QED BY Zenon, <1>1, <2>1, <3>1, <3>2
  <2>3. CASE /\ free_list = NULL /\ UNCHANGED slabVars
             /\ k' = IF n = K_NO_WAIT THEN k ELSE z_pend_current_on(k, SLAB, n)
    <3>1. k' = z_pend_current_on(k, SLAB, n)
      BY Zenon, <2>3 DEF z_pend_current_on
    <3>2. IF SLAB = FIFO THEN queue.head = NULL ELSE free_list = NULL
      BY Zenon, <2>3, ServiceQueues
    <3> QED BY Zenon, <1>1, <2>1, <2>3, <3>1, <3>2, WaitBlock DEF Swaps
  <2> QED BY Zenon, <1>8, <2>2, <2>3 DEF k_mem_slab_alloc
<1>9. ASSUME NEW c \in Callers, NEW n \in Timeouts(c), Get(c, n)
      PROVE  Serving({FIFO, SLAB}, {})' /\ BlocksInv' /\ swap_data' \in Swaps
  <2>1. /\ Calls(c) /\ ctx' = ctx /\ ctx = InThread /\ InterruptsEnabled
        /\ swap_data' = swap_data /\ next' = next /\ free_list' = free_list
        /\ Take(c, {queue.head} \ {NULL})
    BY <1>9, CallsEnabled, Zenon DEF Get, k_fifo_get
  <2>2. CASE queue.head # NULL
    <3>1. /\ queue' = slist_get(next, queue) /\ k' = k
          /\ order' = IF order = <<>> THEN order ELSE Tail(order)
      BY Zenon, <1>9, <2>2 DEF Get, k_fifo_get
    <3>2. Serving({FIFO, SLAB}, {})'
      BY Zenon, <1>1, <1>4, <2>1, <3>1, LoopStep
    <3>3. BlocksInv'
      BY Zenon, <2>1, <2>2, <3>1, GetTake
    <3> QED BY Zenon, <1>1, <2>1, <3>2, <3>3
  <2>3. CASE queue.head = NULL
    <3>1. k' = z_pend_current_on(k, FIFO, n) /\ UNCHANGED fifoVars
      BY Zenon, <1>9, <2>1, <2>3 DEF Get, k_fifo_get, fifoVars
    <3>2. held \in [Callers -> SUBSET Nodes] /\ held[c] \cup ({NULL} \ {NULL}) = held[c]
      BY Zenon DEF BlocksInv
    <3>3. UNCHANGED slabVars
      BY Zenon, <2>1, <2>3, <3>2 DEF Take, slabVars
    <3> QED BY Zenon, <1>1, <2>1, <2>3, <3>1, <3>3, WaitBlock DEF Swaps
  <2> QED BY Zenon, <2>2, <2>3
<1>10. ASSUME NEW c \in Callers, NEW b \in held[c], k_mem_slab_free(c, b)
       PROVE  Serving({FIFO, SLAB}, {})' /\ BlocksInv' /\ swap_data' \in Swaps
  <2>1. /\ Calls(c) /\ ctx' = ctx /\ ctx = InThread /\ InterruptsEnabled
        /\ queue' = queue /\ order' = order /\ Drop(c, b)
    BY Zenon, <1>10, CallsEnabled DEF k_mem_slab_free
  <2>2. CASE FirstPending(k, SLAB) # NULL
    <3>1. z_unpend_first_and_swap(SLAB, b) /\ UNCHANGED <<fifoVars, free_list>>
      BY Zenon, <1>10, <2>1, <2>2 DEF k_mem_slab_free, fifoVars
    <3> QED BY Zenon, <1>1, <2>1, <2>2, <3>1, HandBlock DEF Swaps
  <2>3. CASE FirstPending(k, SLAB) = NULL
    <3>1. /\ next' = [next EXCEPT ![b] = free_list] /\ free_list' = b
          /\ UNCHANGED <<k, swap_data, queue, order>>
      BY Zenon, <1>10, <2>1, <2>3 DEF k_mem_slab_free
    <3>2. Serving({FIFO, SLAB}, {})'
      BY Zenon, <1>1, <1>4, <2>1, <3>1, LoopStep
    <3>3. BlocksInv'
      BY Zenon, <1>6, <2>1, <2>3, <3>1, FreePush
    <3> QED BY Zenon, <1>1, <3>1, <3>2, <3>3
  <2> QED BY Zenon, <2>2, <2>3
<1>11. ASSUME NEW c \in Callers, NEW b \in held[c], Put(c, b)
       PROVE  Serving({FIFO, SLAB}, {})' /\ BlocksInv' /\ swap_data' \in Swaps
  <2>1. /\ Calls(c) /\ ctx' = ctx /\ ctx = InThread /\ InterruptsEnabled
        /\ free_list' = free_list /\ Drop(c, b) /\ z_fifo_put(b)
    BY Zenon, <1>11, CallsEnabled DEF Put, k_fifo_put
  <2>2. CASE FirstPending(k, FIFO) # NULL
    <3>1. z_unpend_first_and_swap(FIFO, b) /\ UNCHANGED <<fifoVars, free_list>>
      BY Zenon, <2>1, <2>2 DEF z_fifo_put
    <3> QED BY Zenon, <1>1, <2>1, <2>2, <3>1, HandBlock DEF Swaps
  <2>3. CASE FirstPending(k, FIFO) = NULL
    <3>1. /\ queue' = slist_append(queue, b) /\ next' = slist_append_next(next, queue, b)
          /\ order' = Append(order, b) /\ UNCHANGED <<k, swap_data, free_list>>
      BY Zenon, <2>1, <2>3 DEF z_fifo_put
    <3>2. Serving({FIFO, SLAB}, {})'
      BY Zenon, <1>1, <1>4, <2>1, <3>1, LoopStep
    <3>3. BlocksInv'
      BY Zenon, <1>7, <2>1, <2>3, <3>1, PutAppend
    <3> QED BY Zenon, <1>1, <3>1, <3>2, <3>3
  <2> QED BY Zenon, <2>2, <2>3
<1>12. ASSUME NEW t \in Threads, k_mem_slab_alloc_return(t) \/ GetReturn(t)
       PROVE  Serving({FIFO, SLAB}, {})' /\ BlocksInv' /\ swap_data' \in Swaps
  <2>1. PICK q \in {FIFO, SLAB} : /\ PendReturn(t, q) /\ Take(t, Received(t))
                                  /\ UNCHANGED <<fifoVars, free_list>>
    BY Zenon, <1>12 DEF k_mem_slab_alloc_return, GetReturn, k_fifo_get_return
  <2> QED BY Zenon, <1>1, <2>1, ReturnBlock DEF Swaps
<1>13. ASSUME NEW c \in Callers, k_fifo_cancel_wait(c), UNCHANGED slabVars
       PROVE  Serving({FIFO, SLAB}, {})' /\ BlocksInv' /\ swap_data' \in Swaps
  <2>1. /\ Calls(c) /\ ctx' = [in |-> "cancel", q |-> FIFO] /\ k' = k /\ swap_data' = swap_data
        /\ UNCHANGED fifoVars
    BY Zenon, <1>13 DEF k_fifo_cancel_wait, z_cancel_all_pending
  <2>2. Serving({FIFO, SLAB}, {})'
    BY Zenon, <1>1, <1>4, <2>1, CallsEnabled, LoopStep
  <2> QED BY Zenon, <1>1, <1>13, <2>1, <2>2, BlocksFrame
<1>14. ASSUME CancelEnd(FIFO), UNCHANGED <<fifoVars, slabVars>>
       PROVE  Serving({FIFO, SLAB}, {})' /\ BlocksInv' /\ swap_data' \in Swaps
  <2>1. ctx' = InThread /\ k' = k /\ swap_data' = swap_data
    BY Zenon, <1>14 DEF CancelEnd
  <2>2. Serving({FIFO, SLAB}, {})'
    BY Zenon, <1>1, <1>4, <2>1, LoopStep
  <2> QED BY Zenon, <1>1, <1>14, <2>1, <2>2, BlocksFrame
<1>15. CASE \E c \in U : \E n \in Timeouts(c) : k_mem_slab_alloc(c, n) \/ Get(c, n)
  BY Zenon, <1>5, <1>8, <1>9, <1>15
<1>16. CASE \E c \in U : \E b \in held[c] : k_mem_slab_free(c, b) \/ Put(c, b)
  BY Zenon, <1>5, <1>10, <1>11, <1>16
<1>17. CASE \E c \in U : k_fifo_cancel_wait(c) /\ UNCHANGED slabVars
  BY Zenon, <1>5, <1>13, <1>17
<1> QED BY <1>12, <1>14, <1>15, <1>16, <1>17, Zenon DEF BlocksNext
==============================================================================
