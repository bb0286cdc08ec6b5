------------------------------ MODULE Bytering -------------------------------
(***************************************************************************)
(* The byte ring of ring.c between one producer and one consumer, a thread *)
(* and an interrupt handler or two threads: neither locks.  The cursors    *)
(* and the size are uint8_t.  A call reads the two cursors first and       *)
(* writes its own last; the other side may run in between.  The room that  *)
(* k_ring_push computes is right only while the read cursor is at 0: else  *)
(* it accepts a byte that the ring has no place for.                       *)
(***************************************************************************)
EXTENDS Integers, Sequences

CONSTANTS
  RINGSIZE,       \* k_ring.size
  Bytes,          \* what is pushed
  NONE

ASSUME ByteringAssumption == RINGSIZE \in 1 .. 255 /\ NONE \notin Bytes

VARIABLES
  ring,           \* [buffer, r, w]
  push,           \* the byte of the k_ring_push in progress, or NONE
  pop,            \* k_ring_pop is past its test
  bytes,          \* the bytes pushed and neither popped nor overrun (history)
  torn            \* a push overran the ring while a pop was in progress (history)

ringVars == <<ring, push, pop, bytes, torn>>

Wrap(n) == IF n = RINGSIZE THEN 0 ELSE n

\* The number of free places as k_ring_push computes it.
Rem(r, w) == (RINGSIZE - (w - r) - 1) % 256

\* k_ring_push that does not look for room.
k_ring_push_NoTest(v) ==
  /\ push = NONE
  /\ push' = v
  /\ UNCHANGED <<ring, pop, bytes, torn>>

\* k_ring_push up to its early return: -ENOMEM when it computes that no place is free.
k_ring_push(v) ==
  /\ push = NONE
  /\ push' = IF Rem(ring.r, ring.w) = 0 THEN NONE ELSE v
  /\ UNCHANGED <<ring, pop, bytes, torn>>

\* The ring is full and the push was accepted: the write cursor reaches the read
\* cursor, so the ring looks empty.
Overruns == Len(bytes) = RINGSIZE - 1 /\ ring.r # 0

k_ring_push_end ==
  /\ push # NONE
  /\ ring' = [ring EXCEPT !.buffer[ring.w] = push, !.w = Wrap(@ + 1)]
  /\ bytes' = IF torn THEN bytes ELSE IF Overruns THEN <<>> ELSE Append(bytes, push)
  /\ torn' = (torn \/ (Overruns /\ pop))
  /\ push' = NONE
  /\ UNCHANGED pop

\* k_ring_pop up to its early return: -EAGAIN when the cursors are equal.
k_ring_pop ==
  /\ ~ pop
  /\ pop' = (ring.r # ring.w)
  /\ UNCHANGED <<ring, push, bytes, torn>>

\* It returns the byte at the read cursor.
k_ring_pop_end ==
  /\ pop
  /\ ring' = [ring EXCEPT !.r = Wrap(@ + 1)]
  /\ bytes' = IF bytes = <<>> THEN bytes ELSE Tail(bytes)
  /\ pop' = FALSE
  /\ UNCHANGED <<push, torn>>

-------------------------------------------------------------------------------
ByteringInit == /\ ring = [buffer |-> [i \in 0 .. RINGSIZE - 1 |-> NONE], r |-> 0, w |-> 0]
                /\ push = NONE /\ pop = FALSE
                /\ bytes = <<>> /\ torn = FALSE

ByteringStep == k_ring_push_end \/ k_ring_pop_end

ByteringCall == k_ring_pop \/ \E v \in Bytes : k_ring_push(v)

ByteringSpec == ByteringInit /\ [][ByteringStep \/ ByteringCall]_ringVars

\* The bytes between the read and the write cursor are those pushed and not popped,
\* in their order, and a pop past its test finds one: nothing is repeated, and
\* nothing is lost except by a push that finds the ring full and the read cursor not
\* at 0, which k_ring_push accepts and which loses all the unread bytes and its own.
\* This holds however the two sides interleave, until such a push meets a pop in
\* progress: that pop then moves the read cursor past the write cursor.
RingFifo ==
  LET n == (ring.w - ring.r) % RINGSIZE
  IN  ~ torn => /\ bytes = [i \in 1 .. n |-> ring.buffer[(ring.r + i - 1) % RINGSIZE]]
                /\ pop => bytes # <<>>
==============================================================================
