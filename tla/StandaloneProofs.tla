-------------------------- MODULE StandaloneProofs ---------------------------
(***************************************************************************)
(* The parts that need no thread of the kernel.                            *)
(*                                                                         *)
(* The byte ring of ring.c, for every size: the bytes between the cursors  *)
(* are those pushed and not popped, in order; a push that finds the ring   *)
(* full while the read cursor is not at 0 loses the unread ones, and this  *)
(* is the only loss, until such a push meets a pop in progress.            *)
(*                                                                         *)
(* The asynchronous transfers of drivers/usart.c, for buffers of any size: *)
(* reception fills them in order; transmission sends every character once  *)
(* and notifies the end of it, if an enabled interrupt is served before    *)
(* the next character has been sent (PROMPT).                              *)
(*                                                                         *)
(* I2C: reads of any length and writes of one byte move every byte of      *)
(* theirs, with one thread that uses the master.  SD card: a call that     *)
(* returns 0 has had its effect, whatever the card answered, and the bus   *)
(* is released between the calls.  CAN controller, for any number of       *)
(* threads and frames: no frame goes out twice, and none is lost while     *)
(* every send finds the first transmit buffer free; every frame stored is  *)
(* returned once, or dropped by the second clearing of its flag.  This     *)
(* holds until the mutex of the driver is locked during a hand-over.       *)
(***************************************************************************)
EXTENDS Bytering, Usart, I2c, Sd, Mcp2515, FiniteSetTheorems, SequenceTheorems, TLAPS

-------------------------------------------------------------------------------
(* THE BYTE RING                                                             *)

Places == 0 .. RINGSIZE - 1

\* (w - r) % RINGSIZE and (r + i - 1) % RINGSIZE without the remainder.
Distance(r, w) == IF r <= w THEN w - r ELSE w - r + RINGSIZE
Place(r, i) == IF r + i - 1 < RINGSIZE THEN r + i - 1 ELSE r + i - 1 - RINGSIZE

RingType ==
  /\ ring.r \in Places /\ ring.w \in Places
  /\ ring.buffer \in [Places -> Bytes \cup {NONE}]
  /\ ring = [buffer |-> ring.buffer, r |-> ring.r, w |-> ring.w]
  /\ push \in Bytes \cup {NONE}
  /\ pop \in BOOLEAN
  /\ bytes \in Seq(Bytes)
  /\ torn \in BOOLEAN

\* RingFifo on the places of the bytes.
Stored == /\ Len(bytes) = Distance(ring.r, ring.w)
          /\ \A i \in 1 .. Len(bytes) : bytes[i] = ring.buffer[Place(ring.r, i)]
          /\ pop => bytes # <<>>

\* A push past its test has room, or the read cursor is not at 0.
PushHasRoom == push # NONE => Len(bytes) < RINGSIZE - 1 \/ ring.r # 0

ByteringInv == RingType /\ (~ torn => Stored /\ PushHasRoom)

-------------------------------------------------------------------------------
(* Remainders *)

LEMMA ModSmall ==
  ASSUME NEW n \in Nat, n # 0, NEW a \in Int, 0 <= a, a < n
  PROVE  a % n = a
BY Z3

LEMMA ModBelow ==
  ASSUME NEW n \in Nat, n # 0, NEW a \in Int, -n <= a, a < 0
  PROVE  a % n = a + n
BY Z3

LEMMA ModAbove ==
  ASSUME NEW n \in Nat, n # 0, NEW a \in Int, n <= a, a < 2 * n
  PROVE  a % n = a - n
BY Z3

LEMMA SizeType == RINGSIZE \in Nat /\ RINGSIZE # 0 /\ RINGSIZE <= 255
BY ByteringAssumption

LEMMA DistanceMod ==
  ASSUME NEW r \in Places, NEW w \in Places
  PROVE  (w - r) % RINGSIZE = Distance(r, w) /\ Distance(r, w) \in Places
<1>1. CASE r <= w
  <2>1. w - r \in Int /\ 0 <= w - r /\ w - r < RINGSIZE
    BY <1>1, SizeType DEF Places
  <2>2. (w - r) % RINGSIZE = w - r
    BY Zenon, <2>1, ModSmall, SizeType
  <2> QED BY <1>1, <2>1, <2>2, SizeType DEF Distance, Places
<1>2. CASE ~ r <= w
  <2>1. w - r \in Int /\ - RINGSIZE <= w - r /\ w - r < 0
    BY <1>2, SizeType DEF Places
  <2>2. (w - r) % RINGSIZE = w - r + RINGSIZE
    BY Zenon, <2>1, ModBelow, SizeType
  <2> QED BY <1>2, <2>1, <2>2, SizeType DEF Distance, Places
<1> QED BY Zenon, <1>1, <1>2

LEMMA PlaceMod ==
  ASSUME NEW r \in Places, NEW i \in 1 .. RINGSIZE
  PROVE  (r + i - 1) % RINGSIZE = Place(r, i) /\ Place(r, i) \in Places
<1>1. CASE r + i - 1 < RINGSIZE
  <2>1. r + i - 1 \in Int /\ 0 <= r + i - 1
    BY SizeType DEF Places
  <2>2. (r + i - 1) % RINGSIZE = r + i - 1
    BY Zenon, <1>1, <2>1, ModSmall, SizeType
  <2> QED BY <1>1, <2>1, <2>2, SizeType DEF Place, Places
<1>2. CASE ~ r + i - 1 < RINGSIZE
  <2>1. r + i - 1 \in Int /\ RINGSIZE <= r + i - 1 /\ r + i - 1 < 2 * RINGSIZE
    BY <1>2, SizeType DEF Places
  <2>2. \A a \in Int : RINGSIZE <= a /\ a < 2 * RINGSIZE => a % RINGSIZE = a - RINGSIZE
    BY Zenon, ModAbove, SizeType
  <2>3. (r + i - 1) % RINGSIZE = r + i - 1 - RINGSIZE
    BY <2>1, <2>2, SizeType DEF Places
  <2> QED BY <1>2, <2>1, <2>3, SizeType DEF Place, Places
<1> QED BY Zenon, <1>1, <1>2

\* What moving the read cursor does to the distance and to the places.
LEMMA ReadMoves ==
  ASSUME NEW r \in Places, NEW w \in Places, Distance(r, w) # 0
  PROVE  /\ Wrap(r + 1) \in Places
         /\ Distance(Wrap(r + 1), w) = Distance(r, w) - 1
         /\ \A i \in 1 .. Distance(r, w) - 1 : Place(Wrap(r + 1), i) = Place(r, i + 1)
<1>1. CASE r + 1 = RINGSIZE
  <2>1. Wrap(r + 1) = 0
    BY Zenon, <1>1 DEF Wrap
  <2> QED BY <1>1, <2>1, SizeType DEF Distance, Place, Places
<1>2. CASE r + 1 # RINGSIZE
  <2>1. Wrap(r + 1) = r + 1
    BY Zenon, <1>2 DEF Wrap
  <2> QED BY <1>2, <2>1, SizeType DEF Distance, Place, Places
<1> QED BY Zenon, <1>1, <1>2

\* What moving the write cursor does, when a place stays free.
LEMMA WriteMoves ==
  ASSUME NEW r \in Places, NEW w \in Places, Distance(r, w) < RINGSIZE - 1
  PROVE  /\ Wrap(w + 1) \in Places
         /\ Distance(r, Wrap(w + 1)) = Distance(r, w) + 1
         /\ Place(r, Distance(r, w) + 1) = w
         /\ \A i \in 1 .. Distance(r, w) : Place(r, i) # w /\ Place(r, i) \in Places
<1>1. CASE w + 1 = RINGSIZE
  <2>1. Wrap(w + 1) = 0
    BY Zenon, <1>1 DEF Wrap
  <2> QED BY <1>1, <2>1, SizeType DEF Distance, Place, Places
<1>2. CASE w + 1 # RINGSIZE
  <2>1. Wrap(w + 1) = w + 1
    BY Zenon, <1>2 DEF Wrap
  <2> QED BY <1>2, <2>1, SizeType DEF Distance, Place, Places
<1> QED BY Zenon, <1>1, <1>2

\* What it does to a full ring: it looks empty.
LEMMA WriteOverruns ==
  ASSUME NEW r \in Places, NEW w \in Places, Distance(r, w) = RINGSIZE - 1, r # 0
  PROVE  Wrap(w + 1) = r /\ Distance(r, Wrap(w + 1)) = 0
<1>1. w + 1 = r
  BY SizeType DEF Distance, Places
<1>2. w + 1 # RINGSIZE
  BY <1>1, SizeType DEF Places
<1> QED BY <1>1, <1>2, SizeType DEF Wrap, Distance, Places

LEMMA WrapPlace ==
  ASSUME NEW n \in Places
  PROVE  Wrap(n + 1) \in Places
BY SizeType DEF Wrap, Places

\* Stored says what RingFifo says.
LEMMA StoredFifo == RingType /\ (~ torn => Stored) => RingFifo
<1> SUFFICES ASSUME RingType, ~ torn, Stored PROVE RingFifo
  BY Zenon DEF RingFifo
<1> DEFINE n == (ring.w - ring.r) % RINGSIZE
           content == [i \in 1 .. n |-> ring.buffer[(ring.r + i - 1) % RINGSIZE]]
<1>1. n = Len(bytes) /\ n \in Places
  BY Zenon, DistanceMod DEF RingType, Stored
<1>2. bytes = [i \in 1 .. Len(bytes) |-> bytes[i]]
  BY DEF RingType
<1>3. \A i \in 1 .. n : bytes[i] = ring.buffer[(ring.r + i - 1) % RINGSIZE]
  <2> SUFFICES ASSUME NEW i \in 1 .. n
               PROVE  bytes[i] = ring.buffer[(ring.r + i - 1) % RINGSIZE]
    BY Zenon
  <2>1. i \in 1 .. RINGSIZE
    BY <1>1, SizeType DEF Places
  <2>2. (ring.r + i - 1) % RINGSIZE = Place(ring.r, i)
    BY Zenon, <2>1, PlaceMod DEF RingType
  <2> QED BY Zenon, <1>1, <2>2 DEF Stored
<1>4. bytes = content
  BY Zenon, <1>1, <1>2, <1>3
<1> QED BY Zenon, <1>4 DEF RingFifo, Stored

-------------------------------------------------------------------------------
LEMMA ByteringInitInv == ByteringInit => ByteringInv
<1> SUFFICES ASSUME ByteringInit PROVE ByteringInv
  BY Zenon
<1>1. RingType
  <2>1. ring = [buffer |-> [i \in Places |-> NONE], r |-> 0, w |-> 0]
    BY Zenon DEF ByteringInit, Places
  <2>2. 0 \in Places
    BY SizeType DEF Places
  <2> QED BY <2>1, <2>2 DEF ByteringInit, RingType
<1>2. Stored /\ PushHasRoom
  BY SizeType DEF ByteringInit, Stored, PushHasRoom, Distance
<1> QED BY Zenon, <1>1, <1>2 DEF ByteringInv

\* The test of k_ring_push is right while the read cursor is at 0.
LEMMA PushInv ==
  ASSUME ByteringInv, NEW v \in Bytes, k_ring_push(v)
  PROVE  ByteringInv'
<1>1. RingType' /\ (Stored => Stored') /\ torn' = torn
  BY Zenon DEF k_ring_push, ByteringInv, RingType, Stored
<1>2. ASSUME Stored PROVE PushHasRoom'
  <2>1. CASE ring.r # 0
    BY Zenon, <2>1 DEF k_ring_push, PushHasRoom
  <2>2. CASE ring.r = 0
    <3>1. ring.w \in Places /\ Len(bytes) = ring.w
      BY <1>2, <2>2, SizeType DEF ByteringInv, RingType, Stored, Distance, Places
    <3>2. Rem(ring.r, ring.w) = RINGSIZE - ring.w - 1
      <4>1. RINGSIZE - (ring.w - 0) - 1 \in Int /\ 0 <= RINGSIZE - (ring.w - 0) - 1
            /\ RINGSIZE - (ring.w - 0) - 1 < 256
        BY <3>1, SizeType DEF Places
      <4>2. (RINGSIZE - (ring.w - 0) - 1) % 256 = RINGSIZE - (ring.w - 0) - 1
        BY <4>1, ModSmall
      <4> QED BY <2>2, <3>1, <4>2, SizeType DEF Rem, Places
    <3>3. push' # NONE => RINGSIZE - ring.w - 1 # 0
      BY Zenon, <3>2 DEF k_ring_push
    <3> QED BY <3>1, <3>3, SizeType DEF k_ring_push, PushHasRoom, Places
  <2> QED BY Zenon, <2>1, <2>2
<1> QED BY Zenon, <1>1, <1>2 DEF ByteringInv

\* A push that is stored: the ring is not full.
LEMMA PushStores ==
  ASSUME RingType, Stored, ~ torn, Len(bytes) < RINGSIZE - 1, k_ring_push_end
  PROVE  RingType' /\ Stored' /\ torn' = FALSE
<1> DEFINE r == ring.r
           w == ring.w
           n == Len(bytes)
<1>1. /\ r \in Places /\ w \in Places /\ n \in Nat /\ n = Distance(r, w) /\ n < RINGSIZE - 1
      /\ push \in Bytes /\ pop \in BOOLEAN /\ bytes \in Seq(Bytes)
      /\ ring.buffer \in [Places -> Bytes \cup {NONE}]
  BY DEF RingType, Stored, k_ring_push_end
<1>a. ~ Overruns
  BY <1>1, SizeType DEF Overruns
<1>2. /\ ring'.r = r /\ ring'.w = Wrap(w + 1)
      /\ ring'.buffer = [ring.buffer EXCEPT ![w] = push]
      /\ ring' = [buffer |-> ring'.buffer, r |-> ring'.r, w |-> ring'.w]
      /\ bytes' = Append(bytes, push) /\ push' = NONE /\ pop' = pop
      /\ torn' = FALSE
  BY Zenon, <1>a DEF RingType, k_ring_push_end
<1>3. /\ Wrap(w + 1) \in Places
      /\ Distance(r, Wrap(w + 1)) = n + 1
      /\ Place(r, n + 1) = w
      /\ \A i \in 1 .. n : Place(r, i) # w /\ Place(r, i) \in Places
  BY <1>1, WriteMoves
<1>4. RingType'
  <2>1. bytes' \in Seq(Bytes) /\ NONE \in Bytes \cup {NONE}
    BY <1>1, <1>2
  <2>2. ring'.buffer \in [Places -> Bytes \cup {NONE}]
    BY Zenon, <1>1, <1>2
  <2> QED BY Zenon, <1>1, <1>2, <1>3, <2>1, <2>2 DEF RingType
<1>5. Stored'
  <2>1. Len(bytes') = n + 1 /\ bytes' # <<>>
    BY <1>1, <1>2
  <2>2. ASSUME NEW i \in 1 .. n + 1
        PROVE  bytes'[i] = ring'.buffer[Place(r, i)]
    <3>1. CASE i = n + 1
      <4>1. Place(r, i) = w
        BY Zenon, <1>3, <3>1
      <4>2. bytes'[i] = push
        BY <1>1, <1>2, <3>1
      <4> QED BY Zenon, <1>1, <1>2, <4>1, <4>2
    <3>2. CASE i \in 1 .. n
      <4>1. Place(r, i) # w /\ Place(r, i) \in Places
        BY Zenon, <1>3, <3>2
      <4>2. bytes'[i] = bytes[i]
        BY <1>1, <1>2, <3>2
      <4>3. bytes[i] = ring.buffer[Place(r, i)]
        BY Zenon, <3>2 DEF Stored
      <4> QED BY Zenon, <1>1, <1>2, <4>1, <4>2, <4>3
    <3> QED BY <1>1, <3>1, <3>2
  <2> QED BY Zenon, <1>2, <1>3, <2>1, <2>2 DEF Stored
<1> QED BY Zenon, <1>2, <1>4, <1>5

\* An accepted push on a full ring leaves it empty.
LEMMA PushEndInv ==
  ASSUME ByteringInv, k_ring_push_end
  PROVE  ByteringInv'
<1>1. /\ ring.r \in Places /\ ring.w \in Places /\ push \in Bytes
      /\ pop \in BOOLEAN /\ torn \in BOOLEAN /\ bytes \in Seq(Bytes)
      /\ ring.buffer \in [Places -> Bytes \cup {NONE}]
  BY Zenon DEF ByteringInv, RingType, k_ring_push_end
<1>2. /\ ring'.r = ring.r /\ ring'.w = Wrap(ring.w + 1)
      /\ ring'.buffer = [ring.buffer EXCEPT ![ring.w] = push]
      /\ ring' = [buffer |-> ring'.buffer, r |-> ring'.r, w |-> ring'.w]
      /\ push' = NONE /\ pop' = pop
  BY Zenon DEF ByteringInv, RingType, k_ring_push_end
<1>3. PushHasRoom'
  BY Zenon, <1>2 DEF PushHasRoom
<1>4. ASSUME bytes' \in Seq(Bytes), torn' \in BOOLEAN PROVE RingType'
  BY <1>1, <1>2, <1>4, WrapPlace DEF RingType
<1>5. CASE torn
  <2>1. bytes' = bytes
    BY Zenon, <1>5 DEF k_ring_push_end
  <2>2. torn' = TRUE
    BY Zenon, <1>5 DEF k_ring_push_end
  <2> QED BY Zenon, <1>1, <1>4, <2>1, <2>2 DEF ByteringInv
<1>6. CASE ~ torn /\ Len(bytes) < RINGSIZE - 1
  BY Zenon, <1>3, <1>6, PushStores DEF ByteringInv
<1>7. CASE ~ torn /\ ~ Len(bytes) < RINGSIZE - 1
  <2>1. ring.r # 0 /\ Len(bytes) = Distance(ring.r, ring.w)
    BY Zenon, <1>1, <1>7 DEF ByteringInv, PushHasRoom, Stored, k_ring_push_end
  <2>2. Distance(ring.r, ring.w) \in Places
    BY Zenon, <1>1, DistanceMod
  <2>3. Distance(ring.r, ring.w) = RINGSIZE - 1
    BY <1>7, <2>1, <2>2, SizeType DEF Places
  <2>4. Overruns
    BY Zenon, <2>1, <2>3 DEF Overruns
  <2>5. bytes' = <<>> /\ torn' = pop
    BY Zenon, <1>1, <1>7, <2>4 DEF k_ring_push_end
  <2>6. RingType'
    BY <1>1, <1>4, <2>5
  <2>7. Distance(ring'.r, ring'.w) = 0
    BY ZenonT(30), <1>1, <1>2, <2>1, <2>3, WriteOverruns
  <2>8. ~ torn' => Stored'
    BY <1>2, <2>5, <2>7 DEF Stored
  <2> QED BY Zenon, <1>3, <2>6, <2>8 DEF ByteringInv
<1> QED BY Zenon, <1>5, <1>6, <1>7

LEMMA PopInv ==
  ASSUME ByteringInv, k_ring_pop
  PROVE  ByteringInv'
<1>1. RingType' /\ torn' = torn
  BY Zenon DEF ByteringInv, RingType, k_ring_pop
<1>2. ASSUME Stored PROVE Stored'
  <2>1. ring.r # ring.w => Len(bytes) # 0
    BY <1>2, SizeType DEF ByteringInv, RingType, Stored, Distance, Places
  <2> QED BY <1>2, <2>1 DEF ByteringInv, RingType, Stored, k_ring_pop
<1>3. PushHasRoom => PushHasRoom'
  BY Zenon DEF PushHasRoom, k_ring_pop
<1> QED BY Zenon, <1>1, <1>2, <1>3 DEF ByteringInv

\* A pop of a ring that was not overrun takes the oldest byte.
LEMMA PopTakes ==
  ASSUME RingType, Stored, k_ring_pop_end
  PROVE  RingType' /\ Stored' /\ PushHasRoom'
<1> DEFINE r == ring.r
           w == ring.w
           n == Len(bytes)
<1>1. /\ r \in Places /\ w \in Places /\ n \in Nat /\ n = Distance(r, w)
      /\ bytes \in Seq(Bytes) /\ bytes # <<>> /\ n # 0
      /\ ring.buffer \in [Places -> Bytes \cup {NONE}]
      /\ push \in Bytes \cup {NONE} /\ torn \in BOOLEAN
  BY DEF RingType, Stored, k_ring_pop_end
<1>2. /\ ring'.r = Wrap(r + 1) /\ ring'.w = w /\ ring'.buffer = ring.buffer
      /\ ring' = [buffer |-> ring'.buffer, r |-> ring'.r, w |-> ring'.w]
      /\ bytes' = Tail(bytes) /\ push' = push /\ pop' = FALSE /\ torn' = torn
  BY Zenon, <1>1 DEF RingType, k_ring_pop_end
<1>3. /\ Wrap(r + 1) \in Places
      /\ Distance(Wrap(r + 1), w) = n - 1
      /\ \A i \in 1 .. n - 1 : Place(Wrap(r + 1), i) = Place(r, i + 1)
  BY <1>1, ReadMoves
<1>4. bytes' \in Seq(Bytes) /\ Len(bytes') = n - 1
  BY <1>1, <1>2
<1>5. RingType'
  BY Zenon, <1>1, <1>2, <1>3, <1>4 DEF RingType
<1>6. Stored'
  <2>1. ASSUME NEW i \in 1 .. n - 1
        PROVE  bytes'[i] = ring.buffer[Place(Wrap(r + 1), i)]
    <3>1. Place(Wrap(r + 1), i) = Place(r, i + 1)
      BY Zenon, <1>3
    <3>2. bytes'[i] = bytes[i + 1] /\ i + 1 \in 1 .. n
      BY <1>1, <1>2
    <3> QED BY Zenon, <3>1, <3>2 DEF Stored
  <2> QED BY Zenon, <1>2, <1>3, <1>4, <2>1 DEF Stored
<1>7. PushHasRoom'
  <2>1. Distance(r, w) \in Places
    BY Zenon, <1>1, DistanceMod
  <2>2. n - 1 < RINGSIZE - 1
    BY <1>1, <2>1, SizeType DEF Places
  <2> QED BY Zenon, <1>4, <2>2 DEF PushHasRoom
<1> QED BY Zenon, <1>5, <1>6, <1>7

LEMMA PopEndInv ==
  ASSUME ByteringInv, k_ring_pop_end
  PROVE  ByteringInv'
<1>1. CASE ~ torn
  BY Zenon, <1>1, PopTakes DEF ByteringInv
<1>2. CASE torn
  <2>1. /\ ring.r \in Places /\ ring.w \in Places /\ push \in Bytes \cup {NONE}
        /\ bytes \in Seq(Bytes) /\ ring.buffer \in [Places -> Bytes \cup {NONE}]
    BY Zenon DEF ByteringInv, RingType
  <2>2. /\ ring'.r = Wrap(ring.r + 1) /\ ring'.w = ring.w /\ ring'.buffer = ring.buffer
        /\ ring' = [buffer |-> ring'.buffer, r |-> ring'.r, w |-> ring'.w]
        /\ push' = push /\ pop' = FALSE /\ torn' = TRUE
    BY Zenon, <1>2 DEF ByteringInv, RingType, k_ring_pop_end
  <2>3. bytes' \in Seq(Bytes)
    BY <2>1 DEF k_ring_pop_end
  <2>4. RingType'
    BY Zenon, <2>1, <2>2, <2>3, WrapPlace DEF RingType
  <2> QED BY Zenon, <2>2, <2>4 DEF ByteringInv
<1> QED BY Zenon, <1>1, <1>2 DEF ByteringInv, RingType

\* The byte ring of ring.c, for every size: the bytes between the cursors are those
\* pushed and not popped, in their order, and a pop past its test finds one, however
\* the producer and the consumer interleave.  The bytes are lost by the pushes that
\* k_ring_push accepts on a full ring, and by nothing else, until such a push meets a
\* pop in progress.
THEOREM RingDelivers == ByteringSpec => []RingFifo
<1>1. ByteringInit => ByteringInv
  BY Zenon, ByteringInitInv
<1>2. ByteringInv /\ [ByteringStep \/ ByteringCall]_ringVars => ByteringInv'
  <2> SUFFICES ASSUME ByteringInv, [ByteringStep \/ ByteringCall]_ringVars
               PROVE  ByteringInv'
    BY Zenon
  <2>1. CASE UNCHANGED ringVars
    BY Zenon, <2>1 DEF ringVars, ByteringInv, RingType, Stored, PushHasRoom
  <2>2. CASE ByteringStep
    BY Zenon, <2>2, PushEndInv, PopEndInv DEF ByteringStep
  <2>3. CASE ByteringCall
    BY Zenon, <2>3, PushInv, PopInv DEF ByteringCall
  <2> QED BY Zenon, <2>1, <2>2, <2>3
<1>3. ByteringInv => RingFifo
  BY Zenon, StoredFifo DEF ByteringInv
<1> QED BY <1>1, <1>2, <1>3, PTL DEF ByteringSpec

-------------------------------------------------------------------------------
(* THE USART                                                                 *)

Bits == {"TXEN", "UDRIE", "TXCIE", "RXEN", "RXCIE"}
Char == Chars \cup {EMPTY}
Caller == [fn : {"none", "tx", "rx_enable", "rx_disable"}, at : 0 .. 5,
           arg : Seq(Char), reg : SUBSET Bits]
Transfer == [buf : Seq(Char), size : Nat, cur : Nat]

\* An interrupt between the read and the write of UCSRnB only clears UDRIEn.
UsartType ==
  /\ ucsrb \in SUBSET Bits
  /\ caller \in Caller
  /\ caller.fn = "none" <=> caller.at = 0
  /\ caller.at = 5 => ucsrb \subseteq caller.reg /\ caller.reg \ {"UDRIE"} \subseteq ucsrb
  /\ hw = [udr |-> hw.udr, shift |-> hw.shift, txc |-> hw.txc, rxc |-> hw.rxc]
  /\ line = [asked |-> line.asked, sent |-> line.sent, got |-> line.got]

\* The fields of x that the call in progress has already set.
FieldsSet(x) ==
  /\ caller.at > 1 => x.buf = caller.arg
  /\ caller.at > 2 => x.size = Len(caller.arg)
  /\ caller.at > 3 => x.cur = 0

Filled ==
  /\ Len(rx.buf) = rx.size /\ rx.cur < rx.size
  /\ hw.rxc = EMPTY => Len(line.got) = rx.cur
  /\ hw.rxc # EMPTY => Len(line.got) = rx.cur + 1 /\ line.got[rx.cur + 1] = hw.rxc
  /\ \A i \in 1 .. rx.cur : rx.buf[i] = line.got[i]

\* No character was received before the one that waits.
Fresh == line.got = IF hw.rxc = EMPTY THEN <<>> ELSE <<hw.rxc>>

RxInv ==
  /\ rx \in Transfer /\ hw.rxc \in Char /\ line.got \in Seq(Chars)
  /\ "RXEN" \notin ucsrb => hw.rxc = EMPTY
  /\ caller.fn = "rx_enable" => ~ Receiving /\ Len(caller.arg) # 0 /\ Fresh /\ FieldsSet(rx)
  /\ Receiving => Filled

\* One character is in the register x, or none.
In(x) == IF x = EMPTY THEN 0 ELSE 1

TxIdle == hw.udr = EMPTY /\ hw.shift = EMPTY /\ hw.txc = FALSE

\* The characters up to the cursor have been sent or are in the two registers; while
\* some are left the interrupt that loads them is enabled.
Flow ==
  /\ tx.buf = line.asked /\ tx.size = Len(line.asked) /\ tx.cur <= tx.size
  /\ "TXCIE" \in ucsrb /\ (tx.cur < tx.size => "UDRIE" \in ucsrb)
  /\ Len(line.sent) + In(hw.shift) + In(hw.udr) = tx.cur
  /\ \A i \in 1 .. Len(line.sent) : line.sent[i] = line.asked[i]
  /\ hw.shift # EMPTY => hw.shift = line.asked[Len(line.sent) + 1]
  /\ hw.udr # EMPTY => hw.udr = line.asked[tx.cur]
  /\ hw.txc = TRUE => hw.udr = EMPTY /\ hw.shift = EMPTY /\ tx.cur = tx.size

TxInv ==
  /\ tx \in Transfer /\ hw.udr \in Char /\ hw.shift \in Char /\ hw.txc \in BOOLEAN
  /\ line.asked \in Seq(Chars) /\ line.sent \in Seq(Chars)
  /\ line.asked = <<>> => TxIdle /\ tx.size = 0 /\ caller.fn # "tx"
  /\ caller.fn = "tx" => /\ TxIdle /\ "UDRIE" \notin ucsrb
                         /\ caller.arg = line.asked /\ line.sent = <<>>
                         /\ FieldsSet(tx)
  /\ line.asked # <<>> /\ caller.fn # "tx" => Flow

-------------------------------------------------------------------------------
(* The calls and the registers *)

LEMMA InitType == UsartInit => UsartType
BY EmptySeq DEF UsartInit, UsartType, Caller, Bits, Quiet

\* The three calls.
LEMMA CallsCaller ==
  ASSUME UsartType, NEW fn \in {"tx", "rx_enable", "rx_disable"}, NEW arg \in Seq(Char),
         Calls(fn, arg)
  PROVE  /\ ucsrb' = ucsrb /\ tx' = tx /\ rx' = rx /\ hw' = hw /\ NonePending
         /\ caller' \in Caller /\ caller'.fn = fn /\ caller'.at = 1 /\ caller'.arg = arg
         /\ caller.fn = "none"
BY DEF Calls, Caller, Quiet

LEMMA EnableCalls ==
  ASSUME NEW n \in RxSizes, usart_rx_enable(n)
  PROVE  \E arg \in Seq(Char) : Calls("rx_enable", arg) /\ Len(arg) # 0
<1>1. n \in Nat /\ n # 0
  BY Zenon, UsartAssumption
<1> DEFINE arg == [i \in 1 .. n |-> EMPTY]
<1>2. arg \in Seq(Char) /\ Len(arg) = n
  BY <1>1 DEF Char
<1>3. Calls("rx_enable", arg)
  BY Zenon DEF usart_rx_enable
<1> HIDE DEF arg
<1> QED BY Zenon, <1>1, <1>2, <1>3

LEMMA TxDataType ==
  ASSUME NEW d \in TxData
  PROVE  d \in Seq(Chars) /\ d \in Seq(Char) /\ d # <<>>
<1>1. d \in Seq(Chars) /\ d # <<>>
  BY Zenon, UsartAssumption
<1> QED BY <1>1 DEF Char

LEMMA CallType ==
  ASSUME UsartType, UsartCall
  PROVE  UsartType'
<1>1. ASSUME NEW fn \in {"tx", "rx_enable", "rx_disable"}, NEW arg \in Seq(Char), Calls(fn, arg),
             line' = [asked |-> line'.asked, sent |-> line'.sent, got |-> line'.got]
      PROVE  UsartType'
  <2>1. ucsrb' = ucsrb /\ hw' = hw /\ caller' \in Caller /\ caller'.fn = fn /\ caller'.at = 1
    BY Zenon, <1>1, CallsCaller
  <2> QED BY <1>1, <2>1 DEF UsartType
<1>2. CASE usart_rx_disable
  <2>1. <<>> \in Seq(Char) /\ Calls("rx_disable", <<>>) /\ line' = line
    BY Zenon, <1>2, EmptySeq DEF usart_rx_disable
  <2> QED BY <1>1, <2>1, Zenon DEF UsartType
<1>3. ASSUME NEW d \in TxData, usart_tx(d) PROVE UsartType'
  <2>1. Calls("tx", d) /\ line' = [line EXCEPT !.asked = d, !.sent = <<>>]
    BY Zenon, <1>3 DEF usart_tx
  <2>2. line' = [asked |-> line'.asked, sent |-> line'.sent, got |-> line'.got]
    BY <2>1, Zenon DEF UsartType
  <2> QED BY Zenon, <1>1, <2>1, <2>2, TxDataType
<1>4. ASSUME NEW n \in RxSizes, usart_rx_enable(n) PROVE UsartType'
  <2>1. line' = [line EXCEPT !.got = IF hw.rxc = EMPTY THEN <<>> ELSE <<hw.rxc>>]
    BY Zenon, <1>4 DEF usart_rx_enable
  <2>2. line' = [asked |-> line'.asked, sent |-> line'.sent, got |-> line'.got]
    BY Zenon, <2>1 DEF UsartType
  <2> QED BY Zenon, <1>1, <1>4, <2>2, EnableCalls
<1>5. ASSUME NEW c \in Chars, Arrives(c) PROVE UsartType'
  BY <1>5, Zenon DEF Arrives, UsartType
<1>6. ASSUME NEW config \in SUBSET {"TXEN", "RXEN"}, usart_init(config) PROVE UsartType'
  <2>1. /\ ucsrb' = config /\ caller' = Quiet /\ hw' = hw /\ caller' = caller
        /\ line' = [line EXCEPT !.got = <<>>]
    BY Zenon, <1>6 DEF usart_init
  <2>2. ucsrb' \in SUBSET Bits
    BY Zenon, <2>1 DEF Bits
  <2>3. caller'.fn = "none" /\ caller'.at = 0
    BY <2>1 DEF Quiet
  <2>4. line' = [asked |-> line'.asked, sent |-> line'.sent, got |-> line'.got]
    BY Zenon, <2>1 DEF UsartType
  <2> QED BY <2>1, <2>2, <2>3, <2>4 DEF UsartType
<1> QED BY Zenon, <1>2, <1>3, <1>4, <1>5, <1>6 DEF UsartCall

LEMMA StepType ==
  ASSUME UsartType, UsartStep
  PROVE  UsartType'
<1>1. CASE SetField
  <2>1. /\ caller.at \in 1 .. 3 /\ caller' = [caller EXCEPT !.at = caller.at + 1]
        /\ ucsrb' = ucsrb /\ hw' = hw /\ line' = line
    BY Zenon, <1>1 DEF SetField
  <2>2. caller.at + 1 \in 2 .. 4
    BY <2>1
  <2>3. caller' \in Caller /\ caller'.at \in 2 .. 4 /\ caller'.fn = caller.fn
    BY <2>1, <2>2 DEF UsartType, Caller
  <2> QED BY <2>1, <2>3 DEF UsartType
<1>2. CASE ReadUcsrb
  <2>1. /\ caller.fn # "none" /\ caller' = [caller EXCEPT !.at = 5, !.reg = ucsrb]
        /\ ucsrb' = ucsrb /\ hw' = hw /\ line' = line
    BY <1>2 DEF ReadUcsrb, UsartType
  <2>2. caller' \in Caller /\ caller'.at = 5 /\ caller'.fn = caller.fn /\ caller'.reg = ucsrb
    <3>1. caller' = [fn |-> caller.fn, at |-> 5, arg |-> caller.arg, reg |-> ucsrb]
      BY <2>1, Zenon DEF UsartType, Caller
    <3>2. /\ caller.fn \in {"none", "tx", "rx_enable", "rx_disable"}
          /\ caller.arg \in Seq(Char) /\ ucsrb \in SUBSET Bits
      BY Zenon DEF UsartType, Caller
    <3> QED BY <3>1, <3>2 DEF Caller
  <2> QED BY <2>1, <2>2 DEF UsartType
<1>3. CASE WriteUcsrb
  <2>1. /\ caller.fn \in {"tx", "rx_enable", "rx_disable"}
        /\ caller.reg \in SUBSET Bits
    BY <1>3 DEF WriteUcsrb, UsartType, Caller
  <2>2. ucsrb' \in SUBSET Bits
    BY Zenon, <1>3, <2>1 DEF WriteUcsrb, Bits
  <2>3. caller' = Quiet /\ line' = line
        /\ hw' = IF caller.fn = "rx_disable" THEN [hw EXCEPT !.rxc = EMPTY] ELSE hw
    BY Zenon, <1>3 DEF WriteUcsrb
  <2>4. hw' = [udr |-> hw'.udr, shift |-> hw'.shift, txc |-> hw'.txc, rxc |-> hw'.rxc]
    BY Zenon, <2>3 DEF UsartType
  <2>5. caller' \in Caller /\ caller'.fn = "none" /\ caller'.at = 0
    BY <2>3, EmptySeq DEF Quiet, Caller, Bits
  <2> QED BY <2>2, <2>3, <2>4, <2>5 DEF UsartType
<1>4. CASE rx_interrupt
  BY Zenon, <1>4 DEF rx_interrupt, UsartType
<1>5. CASE udre_interrupt
  <2>1. /\ ucsrb' = ucsrb \/ ucsrb' = ucsrb \ {"UDRIE"}
        /\ hw' = hw \/ hw' = [hw EXCEPT !.udr = tx.buf[tx.cur + 1]]
        /\ caller' = caller /\ line' = line
    BY Zenon, <1>5 DEF udre_interrupt
  <2> QED BY Zenon, <2>1 DEF UsartType
<1>6. CASE tx_interrupt
  <2>1. /\ ucsrb' = ucsrb /\ hw' = [hw EXCEPT !.txc = FALSE] /\ caller' = caller
        /\ line' = line \/ line' = [line EXCEPT !.asked = <<>>]
    BY Zenon, <1>6 DEF tx_interrupt
  <2> QED BY <2>1, Zenon DEF UsartType
<1>7. CASE Load \/ Sent
  BY <1>7, Zenon DEF Load, Sent, UsartType
<1> QED BY Zenon, <1>1, <1>2, <1>3, <1>4, <1>5, <1>6, <1>7 DEF UsartStep

\* What the fields hold after one more assignment.
LEMMA FieldSet ==
  ASSUME UsartType, NEW x \in Transfer, caller.at \in 1 .. 3, FieldsSet(x)
  PROVE  LET y == Field(x, caller.at)
         IN  /\ y \in Transfer
             /\ caller.at >= 1 => y.buf = caller.arg
             /\ caller.at >= 2 => y.size = Len(caller.arg)
             /\ caller.at >= 3 => y.cur = 0
<1>1. caller.arg \in Seq(Char) /\ Len(caller.arg) \in Nat
  BY Zenon, LenProperties DEF UsartType, Caller
<1>2. CASE caller.at = 1
  BY <1>1, <1>2 DEF Field, Transfer, FieldsSet
<1>3. CASE caller.at = 2
  BY <1>1, <1>3 DEF Field, Transfer, FieldsSet
<1>4. CASE caller.at = 3
  BY <1>1, <1>4 DEF Field, Transfer, FieldsSet
<1> QED BY <1>2, <1>3, <1>4

-------------------------------------------------------------------------------
(* Reception *)

LEMMA RxInit == UsartInit => RxInv
BY EmptySeq DEF UsartInit, RxInv, Transfer, Char, Quiet, Receiving

\* What does not touch the receiver.
LEMMA RxSame ==
  ASSUME RxInv, rx' = rx, hw'.rxc = hw.rxc, line'.got = line.got,
         "RXEN" \in ucsrb' <=> "RXEN" \in ucsrb, "RXCIE" \in ucsrb' <=> "RXCIE" \in ucsrb,
         caller' = caller \/ caller'.fn # "rx_enable"
  PROVE  RxInv'
<1>1. Receiving' <=> Receiving
  BY Zenon DEF Receiving
<1> QED BY <1>1 DEF RxInv, FieldsSet, Filled, Fresh

LEMMA RxCall ==
  ASSUME UsartType, RxInv, UsartCall
  PROVE  RxInv'
<1>1. CASE usart_rx_disable
  <2>1. <<>> \in Seq(Char) /\ Calls("rx_disable", <<>>) /\ line' = line
    BY Zenon, <1>1, EmptySeq DEF usart_rx_disable
  <2> QED BY <2>1, CallsCaller, RxSame, Zenon
<1>2. ASSUME NEW d \in TxData, usart_tx(d) PROVE RxInv'
  <2>1. Calls("tx", d) /\ line' = [line EXCEPT !.asked = d, !.sent = <<>>]
    BY Zenon, <1>2 DEF usart_tx
  <2>2. line'.got = line.got
    BY Zenon, <2>1 DEF UsartType
  <2> QED BY Zenon, <2>1, <2>2, TxDataType, CallsCaller, RxSame
<1>3. ASSUME NEW n \in RxSizes, usart_rx_enable(n) PROVE RxInv'
  <2>1. ~ Receiving /\ line'.got = IF hw.rxc = EMPTY THEN <<>> ELSE <<hw.rxc>>
    BY Zenon, <1>3 DEF usart_rx_enable, UsartType
  <2>2. PICK arg \in Seq(Char) : Calls("rx_enable", arg) /\ Len(arg) # 0
    BY Zenon, <1>3, EnableCalls
  <2>3. /\ ucsrb' = ucsrb /\ rx' = rx /\ hw' = hw
        /\ caller'.fn = "rx_enable" /\ caller'.at = 1 /\ caller'.arg = arg
    BY Zenon, <2>2, CallsCaller
  <2>4. line'.got \in Seq(Chars) /\ Fresh' /\ ~ Receiving'
    <3>1. hw.rxc # EMPTY => hw.rxc \in Chars
      BY Zenon DEF RxInv, Char
    <3>2. line'.got \in Seq(Chars)
      BY <2>1, <3>1, EmptySeq
    <3> QED BY Zenon, <2>1, <2>3, <3>2 DEF Fresh, Receiving
  <2>5. FieldsSet(rx)'
    BY <2>3 DEF FieldsSet
  <2> QED BY Zenon, <2>2, <2>3, <2>4, <2>5 DEF RxInv
<1>4. ASSUME NEW c \in Chars, Arrives(c) PROVE RxInv'
  <2>1. /\ "RXEN" \in ucsrb /\ hw.rxc = EMPTY /\ ucsrb' = ucsrb /\ rx' = rx
        /\ caller' = caller /\ hw'.rxc = c /\ line'.got = Append(line.got, c)
    BY Zenon, <1>4 DEF Arrives, UsartType
  <2>2. c # EMPTY /\ c \in Char
    BY Zenon, UsartAssumption DEF Char
  <2>3. line'.got \in Seq(Chars)
    BY <2>1 DEF RxInv
  <2>4. ASSUME Receiving PROVE Filled'
    <3>1. /\ line.got \in Seq(Chars) /\ rx.cur \in Nat /\ Len(line.got) = rx.cur
          /\ \A i \in 1 .. rx.cur : rx.buf[i] = line.got[i]
      BY Zenon, <2>1, <2>4 DEF RxInv, Filled, Transfer
    <3>2. /\ Len(line'.got) = rx.cur + 1
          /\ line'.got[rx.cur + 1] = c
          /\ \A i \in 1 .. rx.cur : line'.got[i] = line.got[i]
      BY <2>1, <3>1, AppendProperties
    <3> QED BY Zenon, <2>1, <2>2, <2>4, <3>1, <3>2 DEF RxInv, Filled
  <2>5. ASSUME Fresh PROVE Fresh'
    <3>1. line'.got = Append(<<>>, c) /\ hw'.rxc # EMPTY
      BY Zenon, <2>1, <2>2, <2>5 DEF Fresh
    <3> QED BY <2>1, <3>1 DEF Fresh
  <2>6. Receiving' <=> Receiving
    BY Zenon, <2>1 DEF Receiving
  <2>7. FieldsSet(rx)' <=> FieldsSet(rx)
    BY Zenon, <2>1 DEF FieldsSet
  <2> QED BY Zenon, <2>1, <2>2, <2>3, <2>4, <2>5, <2>6, <2>7 DEF RxInv
<1>5. ASSUME NEW config \in SUBSET {"TXEN", "RXEN"}, usart_init(config) PROVE RxInv'
  <2>1. /\ ucsrb = {} /\ ucsrb' = config /\ rx' = rx /\ hw' = hw
        /\ caller'.fn = "none" /\ line'.got = <<>>
    BY Zenon, <1>5 DEF usart_init, UsartType, Quiet
  <2>2. ~ Receiving' /\ hw.rxc = EMPTY
    BY <2>1 DEF Receiving, RxInv
  <2> QED BY Zenon, <2>1, <2>2, EmptySeq DEF RxInv
<1> QED BY Zenon, <1>1, <1>2, <1>3, <1>4, <1>5 DEF UsartCall

LEMMA RxInterrupt ==
  ASSUME UsartType, RxInv, rx_interrupt
  PROVE  RxInv'
<1> DEFINE full == rx.cur + 1 = rx.size
<1>1. /\ hw.rxc # EMPTY /\ ucsrb' = ucsrb /\ caller' = caller /\ hw'.rxc = EMPTY
      /\ rx' = [rx EXCEPT !.buf[rx.cur + 1] = hw.rxc, !.cur = IF full THEN 0 ELSE rx.cur + 1]
      /\ line'.got = IF full THEN <<>> ELSE line.got
  BY Zenon DEF rx_interrupt, RxPending, UsartType
<1>2. Receiving /\ caller.fn # "rx_enable" /\ Filled
  <2>1. Receiving
    BY Zenon, <1>1 DEF RxInv, Receiving, rx_interrupt, RxPending
  <2> QED BY Zenon, <2>1 DEF RxInv
<1>3. /\ rx.buf \in Seq(Char) /\ rx.cur \in Nat /\ rx.size \in Nat /\ hw.rxc \in Char
      /\ Len(rx.buf) = rx.size /\ rx.cur < rx.size /\ line.got \in Seq(Chars)
      /\ Len(line.got) = rx.cur + 1 /\ line.got[rx.cur + 1] = hw.rxc
      /\ \A i \in 1 .. rx.cur : rx.buf[i] = line.got[i]
  BY Zenon, <1>1, <1>2 DEF RxInv, Filled, Transfer
<1>4. /\ rx'.buf = [rx.buf EXCEPT ![rx.cur + 1] = hw.rxc]
      /\ rx'.cur = IF full THEN 0 ELSE rx.cur + 1
      /\ rx'.size = rx.size
      /\ rx' = [buf |-> rx'.buf, size |-> rx'.size, cur |-> rx'.cur]
  BY <1>1, Zenon DEF RxInv, Transfer
<1>5. /\ rx'.buf \in Seq(Char) /\ Len(rx'.buf) = rx.size
      /\ rx'.buf[rx.cur + 1] = hw.rxc
      /\ \A i \in 1 .. rx.cur : rx'.buf[i] = rx.buf[i]
  BY <1>3, <1>4, ExceptSeq
<1>6. rx' \in Transfer
  <2>1. rx'.cur \in Nat /\ rx'.size \in Nat
    BY <1>3, <1>4
  <2>2. [buf |-> rx'.buf, size |-> rx'.size, cur |-> rx'.cur] \in Transfer
    BY Zenon, <1>5, <2>1 DEF Transfer
  <2> QED BY <1>4, <2>2, Zenon
<1>7. Filled'
  <2>1. CASE full
    BY <1>1, <1>3, <1>4, <1>5, <2>1, EmptySeq DEF Filled
  <2>2. CASE ~ full
    BY <1>1, <1>3, <1>4, <1>5, <2>2 DEF Filled
  <2> QED BY Zenon, <2>1, <2>2
<1>8. line'.got \in Seq(Chars) /\ hw'.rxc \in Char
  BY Zenon, <1>1, <1>3, EmptySeq DEF Char
<1> QED BY Zenon, <1>1, <1>2, <1>6, <1>7, <1>8 DEF RxInv, Receiving

LEMMA RxStep ==
  ASSUME UsartType, RxInv, UsartStep
  PROVE  RxInv'
<1>1. CASE SetField
  <2>1. /\ caller.at \in 1 .. 3 /\ caller.fn \in {"tx", "rx_enable"}
        /\ ucsrb' = ucsrb /\ hw' = hw /\ line' = line
        /\ rx' = IF caller.fn = "rx_enable" THEN Field(rx, caller.at) ELSE rx
        /\ caller'.fn = caller.fn /\ caller'.arg = caller.arg /\ caller'.at = caller.at + 1
    BY Zenon, <1>1 DEF SetField, UsartType, Caller
  <2>2. CASE caller.fn = "tx"
    BY Zenon, <2>1, <2>2, RxSame
  <2>3. CASE caller.fn = "rx_enable"
    <3>1. /\ rx \in Transfer /\ FieldsSet(rx) /\ ~ Receiving /\ Fresh
      BY Zenon, <2>3 DEF RxInv
    <3>2. /\ rx' \in Transfer
          /\ caller.at >= 1 => rx'.buf = caller.arg
          /\ caller.at >= 2 => rx'.size = Len(caller.arg)
          /\ caller.at >= 3 => rx'.cur = 0
      BY Zenon, <2>1, <2>3, <3>1, FieldSet
    <3>3. FieldsSet(rx)'
      BY <2>1, <3>2 DEF FieldsSet
    <3>4. ~ Receiving' /\ Fresh'
      BY Zenon, <2>1, <3>1 DEF Receiving, Fresh
    <3> QED BY Zenon, <2>1, <2>3, <3>2, <3>3, <3>4 DEF RxInv
  <2> QED BY Zenon, <2>1, <2>2, <2>3
<1>2. CASE ReadUcsrb
  <2>1. /\ ucsrb' = ucsrb /\ hw' = hw /\ line' = line /\ rx' = rx
        /\ caller'.fn = caller.fn /\ caller'.arg = caller.arg /\ caller'.at = 5
        /\ caller.at = IF caller.fn = "rx_disable" THEN 1 ELSE 4
    BY Zenon, <1>2 DEF ReadUcsrb, UsartType, Caller
  <2>2. caller.fn = "rx_enable" => FieldsSet(rx)'
    BY <2>1 DEF RxInv, FieldsSet
  <2> QED BY Zenon, <2>1, <2>2 DEF RxInv, Filled, Fresh, Receiving
<1>3. CASE WriteUcsrb
  <2>1. /\ caller.at = 5 /\ caller'.fn = "none" /\ rx' = rx /\ line' = line
        /\ "RXEN" \in caller.reg <=> "RXEN" \in ucsrb
        /\ "RXCIE" \in caller.reg <=> "RXCIE" \in ucsrb
        /\ caller.fn \in {"tx", "rx_enable", "rx_disable"}
    BY <1>3 DEF WriteUcsrb, UsartType, Caller, Quiet
  <2>2. CASE caller.fn = "tx"
    BY Zenon, <1>3, <2>1, <2>2, RxSame DEF WriteUcsrb
  <2>3. CASE caller.fn = "rx_disable"
    <3>1. "RXEN" \notin ucsrb' /\ hw'.rxc = EMPTY
      BY Zenon, <1>3, <2>3 DEF WriteUcsrb, UsartType
    <3> QED BY Zenon, <2>1, <3>1 DEF RxInv, Char, Receiving
  <2>4. CASE caller.fn = "rx_enable"
    <3>1. hw' = hw /\ rx.buf = caller.arg /\ rx.size = Len(caller.arg) /\ rx.cur = 0
          /\ rx.size # 0 /\ Fresh
      BY <1>3, <2>1, <2>4 DEF WriteUcsrb, RxInv, FieldsSet
    <3>2. rx.size \in Nat
      BY Zenon DEF RxInv, Transfer
    <3>3. Filled'
      <4>1. hw.rxc = EMPTY => Len(line.got) = 0
        BY <3>1 DEF Fresh
      <4>2. hw.rxc # EMPTY => Len(line.got) = 1 /\ line.got[1] = hw.rxc
        BY <3>1 DEF Fresh
      <4> QED BY <2>1, <3>1, <3>2, <4>1, <4>2 DEF Filled
    <3>4. "RXEN" \in ucsrb'
      BY Zenon, <1>3, <2>4 DEF WriteUcsrb
    <3> QED BY Zenon, <2>1, <3>1, <3>3, <3>4 DEF RxInv
  <2> QED BY Zenon, <2>1, <2>2, <2>3, <2>4
<1>4. CASE udre_interrupt
  <2>1. /\ ucsrb' = ucsrb \/ ucsrb' = ucsrb \ {"UDRIE"}
        /\ hw' = hw \/ hw' = [hw EXCEPT !.udr = tx.buf[tx.cur + 1]]
        /\ caller' = caller /\ line' = line /\ rx' = rx
    BY Zenon, <1>4 DEF udre_interrupt
  <2>2. hw'.rxc = hw.rxc
    BY Zenon, <2>1 DEF UsartType
  <2> QED BY Zenon, <2>1, <2>2, RxSame
<1>5. CASE tx_interrupt \/ Load \/ Sent
  <2>1. ucsrb' = ucsrb /\ caller' = caller /\ rx' = rx
    BY Zenon, <1>5 DEF tx_interrupt, Load, Sent
  <2>2. hw'.rxc = hw.rxc /\ line'.got = line.got
    BY <1>5, Zenon DEF tx_interrupt, Load, Sent, UsartType
  <2> QED BY Zenon, <2>1, <2>2, RxSame
<1> QED BY Zenon, <1>1, <1>2, <1>3, <1>4, <1>5, RxInterrupt DEF UsartStep

\* The buffer is what arrived, spelled out with SubSeq.
LEMMA RxResult == RxInv => RxInOrder
<1> SUFFICES ASSUME RxInv, Receiving
             PROVE  RxInOrder
  BY Zenon DEF RxInOrder
<1>1. /\ rx.buf \in Seq(Char) /\ rx.cur \in Nat /\ rx.size \in Nat /\ line.got \in Seq(Chars)
      /\ Len(rx.buf) = rx.size /\ rx.cur < rx.size
      /\ hw.rxc = EMPTY => Len(line.got) = rx.cur
      /\ hw.rxc # EMPTY => Len(line.got) = rx.cur + 1
      /\ \A i \in 1 .. rx.cur : rx.buf[i] = line.got[i]
  BY Zenon DEF RxInv, Filled, Transfer
<1>2. line.got \in Seq(Char)
  BY <1>1 DEF Char
<1> DEFINE got == IF hw.rxc = EMPTY THEN line.got ELSE SubSeq(line.got, 1, Len(line.got) - 1)
<1>3. /\ got \in Seq(Char) /\ Len(got) = rx.cur
      /\ \A i \in 1 .. rx.cur : got[i] = line.got[i]
  <2>1. CASE hw.rxc = EMPTY
    BY Zenon, <1>1, <1>2, <2>1
  <2>2. CASE hw.rxc # EMPTY
    <3>1. got = SubSeq(line.got, 1, rx.cur) /\ \A i \in 1 .. rx.cur : line.got[i] \in Char
      BY <1>1, <1>2, <2>2
    <3>2. /\ SubSeq(line.got, 1, rx.cur) \in Seq(Char)
          /\ Len(SubSeq(line.got, 1, rx.cur)) = rx.cur
          /\ \A i \in 1 .. rx.cur : SubSeq(line.got, 1, rx.cur)[i] = line.got[i]
      BY <1>1, <3>1, SubSeqProperties
    <3> HIDE DEF got
    <3> QED BY Zenon, <3>1, <3>2
  <2> QED BY Zenon, <2>1, <2>2
<1>4. SubSeq(rx.buf, 1, rx.cur) = got
  <2> HIDE DEF got
  <2>1. \A i \in 1 .. rx.cur : rx.buf[i] \in Char
    BY <1>1
  <2>2. /\ SubSeq(rx.buf, 1, rx.cur) \in Seq(Char)
        /\ Len(SubSeq(rx.buf, 1, rx.cur)) = rx.cur
        /\ \A i \in 1 .. rx.cur : SubSeq(rx.buf, 1, rx.cur)[i] = rx.buf[i]
    BY <1>1, <2>1, SubSeqProperties
  <2> QED BY <1>1, <1>3, <2>2, SeqEqual
<1> QED BY Zenon, <1>1, <1>3, <1>4 DEF RxInOrder

\* Reception fills buffers of any size in the order of arrival and never past their
\* end, however the thread's calls and the transmission interleave with it.
THEOREM ReceivesInOrder == UsartSpec => []RxInOrder
<1>1. UsartInit => UsartType /\ RxInv
  BY Zenon, InitType, RxInit
<1>2. UsartType /\ RxInv /\ [UsartStep \/ UsartCall]_usartVars => (UsartType /\ RxInv)'
  <2>1. ASSUME UsartType, RxInv, UNCHANGED usartVars PROVE (UsartType /\ RxInv)'
    BY Zenon, <2>1 DEF usartVars, UsartType, RxInv, FieldsSet, Filled, Fresh, Receiving
  <2> QED BY Zenon, <2>1, StepType, CallType, RxStep, RxCall
<1> QED BY <1>1, <1>2, RxResult, PTL DEF UsartSpec

-------------------------------------------------------------------------------
(* Transmission *)

LEMMA TxInit == UsartInit => TxInv
BY EmptySeq DEF UsartInit, TxInv, TxIdle, Transfer, Char, Quiet

\* What does not touch the transmitter, and may enable its interrupt again.
LEMMA TxSame ==
  ASSUME TxInv, tx' = tx, hw'.udr = hw.udr, hw'.shift = hw.shift, hw'.txc = hw.txc,
         line'.asked = line.asked, line'.sent = line.sent,
         caller.fn # "tx", caller'.fn # "tx",
         "TXCIE" \in ucsrb => "TXCIE" \in ucsrb',
         "UDRIE" \in ucsrb => "UDRIE" \in ucsrb'
  PROVE  TxInv'
BY Zenon DEF TxInv, TxIdle, Flow

LEMMA TxCall ==
  ASSUME UsartType, TxInv, UsartCall
  PROVE  TxInv'
<1>1. CASE usart_rx_disable
  <2>1. <<>> \in Seq(Char) /\ Calls("rx_disable", <<>>) /\ line' = line
    BY <1>1, EmptySeq DEF usart_rx_disable
  <2> QED BY <2>1, CallsCaller, TxSame, Zenon
<1>2. ASSUME NEW d \in TxData, usart_tx(d) PROVE TxInv'
  <2>1. /\ line.asked = <<>> /\ Calls("tx", d)
        /\ line'.asked = d /\ line'.sent = <<>>
    BY Zenon, <1>2 DEF usart_tx, UsartType
  <2>2. /\ ucsrb' = ucsrb /\ tx' = tx /\ hw' = hw /\ NonePending
        /\ caller'.fn = "tx" /\ caller'.at = 1 /\ caller'.arg = d
    BY Zenon, <2>1, TxDataType, CallsCaller
  <2>3. TxIdle /\ "UDRIE" \notin ucsrb
    BY Zenon, <2>1, <2>2 DEF TxInv, TxIdle, NonePending, UdrePending
  <2>4. (caller.fn = "tx")' /\ TxIdle' /\ FieldsSet(tx)'
    BY <2>2, <2>3 DEF TxIdle, FieldsSet
  <2> QED BY Zenon, <2>1, <2>2, <2>3, <2>4, TxDataType, EmptySeq DEF TxInv
<1>3. ASSUME NEW n \in RxSizes, usart_rx_enable(n) PROVE TxInv'
  <2>1. line'.asked = line.asked /\ line'.sent = line.sent
    BY Zenon, <1>3 DEF usart_rx_enable, UsartType
  <2> QED BY Zenon, <1>3, <2>1, EnableCalls, CallsCaller, TxSame
<1>4. ASSUME NEW c \in Chars, Arrives(c) PROVE TxInv'
  <2>1. /\ ucsrb' = ucsrb /\ tx' = tx /\ caller' = caller
        /\ hw'.udr = hw.udr /\ hw'.shift = hw.shift /\ hw'.txc = hw.txc
        /\ line'.asked = line.asked /\ line'.sent = line.sent
    BY Zenon, <1>4 DEF Arrives, UsartType
  <2> QED BY Zenon, <2>1 DEF TxInv, TxIdle, Flow, FieldsSet
<1>5. ASSUME NEW config \in SUBSET {"TXEN", "RXEN"}, usart_init(config) PROVE TxInv'
  <2>1. /\ ucsrb = {} /\ tx' = tx /\ hw' = hw
        /\ line'.asked = line.asked /\ line'.sent = line.sent
        /\ caller.fn = "none" /\ caller'.fn = "none"
    BY Zenon, <1>5 DEF usart_init, UsartType, Quiet
  <2> QED BY Zenon, <2>1, TxSame
<1> QED BY <1>1, <1>2, <1>3, <1>4, <1>5 DEF UsartCall

\* The calls between two interrupts.
LEMMA TxThread ==
  ASSUME UsartType, TxInv, SetField \/ ReadUcsrb \/ WriteUcsrb
  PROVE  TxInv'
<1>1. CASE SetField
  <2>1. /\ caller.at \in 1 .. 3 /\ caller.fn \in {"tx", "rx_enable"}
        /\ ucsrb' = ucsrb /\ hw' = hw /\ line' = line
        /\ tx' = IF caller.fn = "tx" THEN Field(tx, caller.at) ELSE tx
        /\ caller'.fn = caller.fn /\ caller'.arg = caller.arg /\ caller'.at = caller.at + 1
    BY Zenon, <1>1 DEF SetField, UsartType, Caller
  <2>2. CASE caller.fn = "rx_enable"
    BY Zenon, <2>1, <2>2, TxSame
  <2>3. CASE caller.fn = "tx"
    <3>1. tx \in Transfer /\ FieldsSet(tx) /\ line.asked # <<>>
      BY Zenon, <2>3 DEF TxInv
    <3>2. /\ tx' \in Transfer
          /\ caller.at >= 1 => tx'.buf = caller.arg
          /\ caller.at >= 2 => tx'.size = Len(caller.arg)
          /\ caller.at >= 3 => tx'.cur = 0
      BY Zenon, <2>1, <2>3, <3>1, FieldSet
    <3>3. FieldsSet(tx)'
      BY <2>1, <3>2 DEF FieldsSet
    <3> QED BY Zenon, <2>1, <2>3, <3>1, <3>2, <3>3 DEF TxInv, TxIdle
  <2> QED BY Zenon, <2>1, <2>2, <2>3
<1>2. CASE ReadUcsrb
  <2>1. /\ ucsrb' = ucsrb /\ hw' = hw /\ line' = line /\ tx' = tx
        /\ caller'.fn = caller.fn /\ caller'.arg = caller.arg /\ caller'.at = 5
        /\ caller.at = IF caller.fn = "rx_disable" THEN 1 ELSE 4
    BY Zenon, <1>2 DEF ReadUcsrb, UsartType, Caller
  <2>2. caller.fn = "tx" => FieldsSet(tx)'
    BY <2>1 DEF TxInv, FieldsSet
  <2> QED BY Zenon, <2>1, <2>2 DEF TxInv, TxIdle, Flow
<1>3. CASE WriteUcsrb
  <2>1. /\ caller.at = 5 /\ caller'.fn = "none" /\ tx' = tx /\ line' = line
        /\ ucsrb \subseteq caller.reg
        /\ hw'.udr = hw.udr /\ hw'.shift = hw.shift /\ hw'.txc = hw.txc
        /\ caller.fn \in {"tx", "rx_enable", "rx_disable"}
    BY <1>3 DEF WriteUcsrb, UsartType, Caller, Quiet
  <2>2. CASE caller.fn # "tx"
    <3>1. /\ "TXCIE" \in ucsrb => "TXCIE" \in ucsrb'
          /\ "UDRIE" \in ucsrb => "UDRIE" \in ucsrb'
      BY Zenon, <1>3, <2>1, <2>2 DEF WriteUcsrb
    <3> QED BY Zenon, <2>1, <2>2, <3>1, TxSame
  <2>3. CASE caller.fn = "tx"
    <3>1. "UDRIE" \in ucsrb' /\ "TXCIE" \in ucsrb'
      BY Zenon, <1>3, <2>3 DEF WriteUcsrb
    <3>2. /\ TxIdle /\ line.sent = <<>> /\ line.asked # <<>>
          /\ tx.buf = line.asked /\ tx.size = Len(line.asked) /\ tx.cur = 0
      BY <2>1, <2>3 DEF TxInv, FieldsSet
    <3>3. Len(line.asked) \in Nat /\ Len(line.sent) = 0
      BY Zenon, <3>2, LenProperties, EmptySeq DEF TxInv
    <3>4. Flow'
      BY <2>1, <3>1, <3>2, <3>3 DEF Flow, TxIdle, In
    <3> QED BY Zenon, <2>1, <3>2, <3>4 DEF TxInv
  <2> QED BY Zenon, <2>2, <2>3
<1> QED BY Zenon, <1>1, <1>2, <1>3

LEMMA TxRefill ==
  ASSUME UsartType, TxInv, udre_interrupt
  PROVE  TxInv'
<1>1. /\ "UDRIE" \in ucsrb /\ hw.udr = EMPTY /\ caller' = caller /\ line' = line
      /\ caller.fn # "tx"
  BY Zenon DEF udre_interrupt, UdrePending, TxInv
<1>2. tx.cur \in Nat /\ tx.size \in Nat /\ line.asked \in Seq(Chars) /\ line.sent \in Seq(Chars)
  BY Zenon DEF TxInv, Transfer
<1>3. CASE tx.cur < tx.size
  <2>1. line.asked # <<>> /\ Flow
    BY <1>1, <1>2, <1>3 DEF TxInv
  <2> DEFINE c == tx.cur + 1
  <2>2. c \in 1 .. Len(line.asked) /\ tx.buf[c] = line.asked[c] /\ line.asked[c] \in Chars
    BY <1>2, <1>3, <2>1 DEF Flow
  <2>3. /\ ucsrb' = ucsrb
        /\ hw'.udr = line.asked[c] /\ hw'.shift = hw.shift /\ hw'.txc = hw.txc
        /\ tx'.cur = c /\ tx'.buf = tx.buf /\ tx'.size = tx.size /\ tx' \in Transfer
    <3>1. hw' = [hw EXCEPT !.udr = tx.buf[c]] /\ tx' = [tx EXCEPT !.cur = c] /\ ucsrb' = ucsrb
      BY Zenon, <1>3 DEF udre_interrupt
    <3>2. c \in Nat
      BY <1>2
    <3> HIDE DEF c
    <3> QED BY Zenon, <2>2, <3>1, <3>2 DEF UsartType, TxInv, Transfer
  <2>4. hw'.udr # EMPTY /\ hw'.udr \in Char
    BY Zenon, <2>2, <2>3, UsartAssumption DEF Char
  <2>5. Len(line.sent) \in Nat /\ Len(line.sent) + In(hw.shift) = tx.cur
    <3>1. In(hw.udr) = 0 /\ In(hw.shift) \in Nat
      BY Zenon, <1>1 DEF In
    <3>2. Len(line.sent) \in Nat
      BY Zenon, <1>2, LenProperties
    <3> QED BY <1>2, <2>1, <3>1, <3>2 DEF Flow
  <2>6. Len(line.sent) + In(hw.shift) + In(hw'.udr) = tx'.cur
    BY <2>3, <2>4, <2>5, Zenon DEF In
  <2>7. hw'.txc # TRUE
    <3>1. tx.cur # tx.size
      BY <1>2, <1>3
    <3> QED BY <2>1, <2>3, <3>1, Zenon DEF Flow
  <2>8. tx'.cur <= tx'.size
    BY <1>2, <1>3, <2>3
  <2>9. Flow'
    BY Zenon, <1>1, <2>1, <2>3, <2>6, <2>7, <2>8 DEF Flow
  <2> QED BY Zenon, <1>1, <2>1, <2>3, <2>4, <2>9 DEF TxInv
<1>4. CASE ~ (tx.cur < tx.size)
  <2>1. ucsrb' = ucsrb \ {"UDRIE"} /\ hw' = hw /\ tx' = tx
    BY Zenon, <1>4 DEF udre_interrupt
  <2> QED BY Zenon, <1>1, <1>4, <2>1 DEF TxInv, TxIdle, Flow
<1> QED BY Zenon, <1>3, <1>4

LEMMA TxNotify ==
  ASSUME UsartType, TxInv, tx_interrupt
  PROVE  TxInv'
<1>1. hw.txc = TRUE /\ ucsrb' = ucsrb /\ caller' = caller
  BY Zenon DEF tx_interrupt, TxPending, TxInv
<1>2. caller.fn # "tx" /\ line.asked # <<>> /\ Flow
  BY Zenon, <1>1 DEF TxInv, TxIdle
<1>3. tx.cur = tx.size /\ hw.udr = EMPTY /\ hw.shift = EMPTY
  BY Zenon, <1>1, <1>2 DEF Flow
<1>4. /\ hw' = [hw EXCEPT !.txc = FALSE] /\ tx' = [tx EXCEPT !.size = 0]
      /\ line' = [line EXCEPT !.asked = <<>>]
  BY Zenon, <1>3 DEF tx_interrupt
<1>5. /\ hw'.udr = EMPTY /\ hw'.shift = EMPTY /\ hw'.txc = FALSE
      /\ line'.asked = <<>> /\ line'.sent = line.sent
  BY Zenon, <1>3, <1>4 DEF UsartType
<1>6. tx' \in Transfer /\ tx'.size = 0
  BY Zenon, <1>4 DEF TxInv, Transfer
<1> QED BY <1>1, <1>2, <1>5, <1>6, EmptySeq, Zenon DEF TxInv, TxIdle, Char

\* The chip moves a character on.
LEMMA TxLoad ==
  ASSUME UsartType, TxInv, Load
  PROVE  TxInv'
<1>1. /\ hw.udr # EMPTY /\ hw.shift = EMPTY
      /\ ucsrb' = ucsrb /\ tx' = tx /\ caller' = caller /\ line' = line
  BY Zenon DEF Load
<1>2. hw'.shift = hw.udr /\ hw'.udr = EMPTY /\ hw'.txc = hw.txc
  BY Zenon DEF Load, UsartType
<1>3. caller.fn # "tx" /\ line.asked # <<>> /\ Flow
  BY Zenon, <1>1 DEF TxInv, TxIdle
<1>4. Len(line.sent) \in Nat /\ tx.cur \in Nat
  BY Zenon, LenProperties DEF TxInv, Transfer
<1>5. Len(line.sent) + 1 = tx.cur
  BY <1>1, <1>3, <1>4 DEF Flow, In
<1>6. Flow'
  BY <1>1, <1>2, <1>3, <1>4, <1>5 DEF Flow, In
<1>7. hw'.udr \in Char /\ hw'.shift \in Char
  BY Zenon, <1>2 DEF TxInv, Char
<1> QED BY Zenon, <1>1, <1>2, <1>3, <1>6, <1>7 DEF TxInv

\* TXCn is only set at the end, because the next character was loaded in time.
LEMMA TxSent ==
  ASSUME PROMPT = TRUE, UsartType, TxInv, Sent
  PROVE  TxInv'
<1>1. /\ NonePending /\ hw.shift # EMPTY
      /\ ucsrb' = ucsrb /\ tx' = tx /\ caller' = caller
  BY Zenon DEF Sent, InTime
<1>2. /\ hw'.shift = EMPTY /\ hw'.udr = hw.udr /\ hw'.txc = (hw.txc \/ hw.udr = EMPTY)
      /\ line'.asked = line.asked /\ line'.sent = Append(line.sent, hw.shift)
  BY Zenon DEF Sent, UsartType
<1>3. caller.fn # "tx" /\ line.asked # <<>> /\ Flow
  BY Zenon, <1>1 DEF TxInv, TxIdle
<1>4. /\ hw.shift \in Chars /\ line.sent \in Seq(Chars) /\ Len(line.sent) \in Nat
      /\ tx.cur \in Nat /\ tx.size \in Nat
  BY Zenon, <1>1, LenProperties DEF TxInv, Char, Transfer
<1>5. /\ line'.sent \in Seq(Chars) /\ Len(line'.sent) = Len(line.sent) + 1
      /\ \A i \in 1 .. Len(line.sent) : line'.sent[i] = line.sent[i]
      /\ line'.sent[Len(line.sent) + 1] = hw.shift
  BY <1>2, <1>4, AppendProperties
<1>6. \A i \in 1 .. Len(line'.sent) : line'.sent[i] = line.asked[i]
  <2>1. /\ \A i \in 1 .. Len(line.sent) : line.sent[i] = line.asked[i]
        /\ hw.shift = line.asked[Len(line.sent) + 1]
    BY Zenon, <1>1, <1>3 DEF Flow
  <2> SUFFICES ASSUME NEW i \in 1 .. Len(line'.sent) PROVE line'.sent[i] = line.asked[i]
    BY Zenon
  <2>2. i \in 1 .. Len(line.sent) \/ i = Len(line.sent) + 1
    BY ONLY <1>4, <1>5, i \in 1 .. Len(line'.sent)
  <2> QED BY ONLY Zenon, <1>5, <2>1, <2>2
<1>7. Len(line'.sent) + In(hw'.shift) + In(hw'.udr) = tx.cur
  <2>1. In(hw.shift) = 1 /\ In(hw'.shift) = 0 /\ In(hw'.udr) = In(hw.udr) /\ In(hw.udr) \in Nat
    BY Zenon, <1>1, <1>2 DEF In
  <2> QED BY <1>3, <1>4, <1>5, <2>1 DEF Flow
<1>8. hw.udr = EMPTY => tx.cur = tx.size
  <2>1. hw.udr = EMPTY => "UDRIE" \notin ucsrb
    BY Zenon, <1>1 DEF NonePending, UdrePending
  <2> QED BY <1>3, <1>4, <2>1 DEF Flow
<1>9. hw'.txc \in BOOLEAN /\ (hw'.txc = TRUE => hw.udr = EMPTY /\ tx.cur = tx.size)
  <2>1. hw.txc # TRUE
    BY <1>1, <1>3, Zenon DEF Flow
  <2> QED BY <1>2, <1>8, <2>1, Zenon DEF TxInv
<1>10. Flow'
  BY Zenon, <1>1, <1>2, <1>3, <1>6, <1>7, <1>9 DEF Flow
<1>11. hw'.udr \in Char /\ hw'.shift \in Char
  BY Zenon, <1>2 DEF TxInv, Char
<1> QED BY Zenon, <1>1, <1>2, <1>3, <1>5, <1>9, <1>10, <1>11 DEF TxInv

LEMMA TxStep ==
  ASSUME PROMPT = TRUE, UsartType, TxInv, UsartStep
  PROVE  TxInv'
<1>1. CASE rx_interrupt
  <2>1. /\ ucsrb' = ucsrb /\ tx' = tx /\ caller' = caller
        /\ hw'.udr = hw.udr /\ hw'.shift = hw.shift /\ hw'.txc = hw.txc
        /\ line'.asked = line.asked /\ line'.sent = line.sent
    BY Zenon, <1>1 DEF rx_interrupt, UsartType
  <2> QED BY Zenon, <2>1 DEF TxInv, TxIdle, Flow, FieldsSet
<1> QED BY Zenon, <1>1, TxThread, TxRefill, TxNotify, TxLoad, TxSent DEF UsartStep

LEMMA TxResult == TxInv => TxNotified
<1> SUFFICES ASSUME TxInv PROVE TxNotified
  BY Zenon
<1>1. /\ line.asked \in Seq(Chars) /\ line.sent \in Seq(Chars)
      /\ Len(line.asked) \in Nat /\ Len(line.sent) \in Nat /\ tx.cur \in Nat
  BY Zenon, LenProperties DEF TxInv, Transfer
<1>2. line.asked # <<>> => /\ Len(line.sent) <= Len(line.asked)
                           /\ \A i \in 1 .. Len(line.sent) : line.sent[i] = line.asked[i]
  <2>1. CASE caller.fn = "tx"
    BY <1>1, <2>1, EmptySeq DEF TxInv
  <2>2. CASE line.asked # <<>> /\ caller.fn # "tx"
    <3>1. Flow
      BY Zenon, <2>2 DEF TxInv
    <3>2. In(hw.shift) \in Nat /\ In(hw.udr) \in Nat
      BY Zenon DEF In
    <3> QED BY <1>1, <3>1, <3>2 DEF Flow
  <2> QED BY Zenon, <2>1, <2>2
<1>3. \E n \in 0 .. Len(line.asked) : line.asked # <<>> => line.sent = SubSeq(line.asked, 1, n)
  <2>1. CASE line.asked # <<>>
    <3> DEFINE n == Len(line.sent)
    <3>1. n \in 0 .. Len(line.asked)
      BY <1>1, <1>2, <2>1
    <3>2. \A i \in 1 .. n : line.asked[i] \in Chars
      BY <1>1, <3>1
    <3>3. /\ SubSeq(line.asked, 1, n) \in Seq(Chars) /\ Len(SubSeq(line.asked, 1, n)) = n
          /\ \A i \in 1 .. n : SubSeq(line.asked, 1, n)[i] = line.asked[i]
      BY <1>1, <3>2, SubSeqProperties
    <3>4. line.sent = SubSeq(line.asked, 1, n)
      BY Zenon, <1>1, <1>2, <2>1, <3>3, SeqEqual
    <3> QED BY Zenon, <3>1, <3>4
  <2>2. CASE line.asked = <<>>
    BY <1>1, <2>2
  <2> QED BY Zenon, <2>1, <2>2
<1>4. TxPending /\ tx.cur = tx.size => line.sent = line.asked /\ line.asked # <<>>
  <2> SUFFICES ASSUME TxPending PROVE line.sent = line.asked /\ line.asked # <<>>
    BY Zenon
  <2>1. hw.txc = TRUE
    BY Zenon DEF TxPending, TxInv
  <2>2. line.asked # <<>> /\ Flow
    BY Zenon, <2>1 DEF TxInv, TxIdle
  <2>3. Len(line.sent) = Len(line.asked)
    <3>1. hw.udr = EMPTY /\ hw.shift = EMPTY /\ tx.cur = Len(line.asked)
      BY <2>1, <2>2, Zenon DEF Flow
    <3>2. In(hw.udr) = 0 /\ In(hw.shift) = 0
      BY Zenon, <3>1 DEF In
    <3> QED BY <1>1, <2>2, <3>1, <3>2 DEF Flow
  <2> QED BY Zenon, <1>1, <1>2, <2>2, <2>3, SeqEqual
<1> QED BY Zenon, <1>3, <1>4 DEF TxNotified

\* Transmission sends buffers of any size once and in order, and notifies exactly the
\* end of them, if each enabled interrupt is served within the time of a character.
THEOREM TransmitsInOrder ==
  ASSUME PROMPT = TRUE
  PROVE  UsartSpec => []TxNotified
<1>1. UsartInit => UsartType /\ TxInv
  BY Zenon, InitType, TxInit
<1>2. UsartType /\ TxInv /\ [UsartStep \/ UsartCall]_usartVars => (UsartType /\ TxInv)'
  <2>1. ASSUME UsartType, TxInv, UNCHANGED usartVars PROVE (UsartType /\ TxInv)'
    BY Zenon, <2>1 DEF usartVars, UsartType, TxInv, TxIdle, FieldsSet, Flow
  <2> QED BY Zenon, <2>1, StepType, CallType, TxStep, TxCall
<1> QED BY <1>1, <1>2, TxResult, PTL DEF UsartSpec

-------------------------------------------------------------------------------
(* THE I2C MASTER                                                            *)

\* The remainder of a small number.
LEMMA CursorMod ==
  ASSUME NEW n \in Nat, n # 0, NEW a \in Int, 0 <= a, a < n
  PROVE  a % n = a
BY Z3

\* The first n bytes of a buffer.
FirstBytes(n) == [i \in 1 .. n |-> i - 1]

\* The transfers for which the driver keeps its promise: a write of two bytes or more
\* skips bytes, and a transfer of no byte at all reads one.
MovableTransfers ==
  /\ 2 ^ BUF_LEN_BITS \in Nat /\ 2 ^ BUF_LEN_BITS > 2
  /\ \A w \in Transfers : w \in Nat \X Nat /\ w[1] <= 1 /\ w # <<0, 0>>

I2cType ==
  /\ i2c = [state |-> i2c.state, reads |-> i2c.reads, cursor |-> i2c.cursor,
            write_len |-> i2c.write_len, read_len |-> i2c.read_len, error |-> i2c.error]
  /\ i2c.reads \in BOOLEAN /\ i2c.cursor \in Nat
  /\ i2c.write_len \in 0 .. 1 /\ i2c.read_len \in Nat /\ i2c.read_len < 2 ^ BUF_LEN_BITS
  /\ twi = [phase |-> twi.phase, ack |-> twi.ack]
  /\ twi.phase \in {"idle", "start", "sla", "mt", "mr"} /\ twi.ack \in BOOLEAN
  /\ moved = [wrote |-> moved.wrote, read |-> moved.read]
  /\ run \in [Masters -> Transfers \cup {<<>>}]

\* What has been moved when the unit waits for the bus in its phase.
PhaseOK ==
  /\ twi.phase # "idle" => i2c.error = "NONE" /\ i2c.state \notin {"READY", "UNINITIALIZED"}
  /\ twi.phase \in {"start", "sla"} /\ ~ i2c.reads =>
       /\ i2c.cursor = 0 /\ i2c.write_len = 1
       /\ moved.wrote = FirstBytes(0) /\ moved.read = FirstBytes(0)
  /\ twi.phase = "mt" =>
       /\ ~ i2c.reads /\ i2c.cursor = 1 /\ i2c.write_len = 1
       /\ moved.wrote = FirstBytes(0) /\ moved.read = FirstBytes(0)
  /\ twi.phase \in {"start", "sla"} /\ i2c.reads =>
       /\ i2c.cursor = 0 /\ i2c.read_len # 0
       /\ moved.wrote = FirstBytes(i2c.write_len) /\ moved.read = FirstBytes(0)
  /\ twi.phase = "mr" =>
       /\ i2c.reads /\ i2c.cursor < i2c.read_len
       /\ twi.ack = (i2c.read_len - i2c.cursor > 1)
       /\ moved.wrote = FirstBytes(i2c.write_len) /\ moved.read = FirstBytes(i2c.cursor)
  /\ twi.phase = "idle" /\ i2c.error = "NONE" =>
       moved.wrote = FirstBytes(i2c.write_len) /\ moved.read = FirstBytes(i2c.read_len)
  /\ \E n \in 0 .. i2c.read_len : moved.read = FirstBytes(n)

I2cInv == I2cType /\ PhaseOK

\* One more byte.
LEMMA BytesMore ==
  ASSUME NEW n \in Nat
  PROVE  /\ FirstBytes(n) \in Seq(Nat) /\ Len(FirstBytes(n)) = n
         /\ Append(FirstBytes(n), n) = FirstBytes(n + 1)
<1>1. FirstBytes(n) \in Seq(Nat) /\ Len(FirstBytes(n)) = n
  BY DEF FirstBytes
<1>2. FirstBytes(n + 1) \in Seq(Nat) /\ Len(FirstBytes(n + 1)) = n + 1
  BY DEF FirstBytes
<1>3. \A i \in 1 .. n + 1 : Append(FirstBytes(n), n)[i] = FirstBytes(n + 1)[i]
  BY <1>1 DEF FirstBytes
<1> QED BY <1>1, <1>2, <1>3, SeqEqual, AppendProperties

LEMMA CursorMoves ==
  ASSUME MovableTransfers, NEW c \in Nat, c + 1 < 2 ^ BUF_LEN_BITS
  PROVE  Inc(c) = c + 1
BY CursorMod DEF Inc, MovableTransfers

LEMMA I2cCallInv ==
  ASSUME MovableTransfers, I2cInv, I2cCall
  PROVE  I2cInv'
<1>1. PICK t \in Masters : \/ i2c_init(t) \/ i2c_deinit(t) \/ i2c_run_start(t)
                           \/ \E lens \in Transfers : i2c_run(t, lens)
  BY Zenon DEF I2cCall
<1>2. CASE i2c_init(t) \/ i2c_deinit(t)
  <2>1. /\ i2c'.state \in {"READY", "UNINITIALIZED"} /\ i2c.state \in {"READY", "UNINITIALIZED"}
        /\ i2c' = [i2c EXCEPT !.state = i2c'.state]
        /\ UNCHANGED <<twi, run, moved>>
    BY Zenon, <1>2 DEF i2c_init, i2c_deinit, I2cInv, I2cType
  <2>2. I2cType'
    BY Zenon, <2>1 DEF I2cInv, I2cType
  <2>3. twi.phase = "idle"
    BY Zenon, <2>1 DEF I2cInv, PhaseOK
  <2> QED BY Zenon, <2>1, <2>2, <2>3 DEF I2cInv, I2cType, PhaseOK
<1>3. CASE i2c_run_start(t)
  <2>1. run[t] \in Transfers
    BY Zenon, <1>3 DEF i2c_run_start, I2cInv, I2cType
  <2>2. /\ run[t][1] \in Nat /\ run[t][2] \in Nat /\ run[t][1] <= 1 /\ run[t][2] < 2 ^ BUF_LEN_BITS
        /\ run[t][1] = 0 => run[t][2] # 0
    <3>1. run[t] \in Nat \X Nat /\ run[t] # <<0, 0>> /\ run[t][1] <= 1
      BY Zenon, <2>1 DEF MovableTransfers
    <3>2. run[t] = <<run[t][1], run[t][2]>> /\ run[t][1] \in Nat /\ run[t][2] \in Nat
      BY <3>1
    <3> QED BY Zenon, <2>1, <3>1, <3>2, I2cAssumption
  <2>3. i2c'.reads = (run[t][1] = 0) /\ i2c'.cursor = 0 /\ i2c'.write_len = run[t][1]
        /\ i2c'.read_len = run[t][2] /\ i2c'.error = "NONE"
        /\ i2c'.state \in {"MASTER_RX", "MASTER_TX"}
    BY Zenon, <1>3 DEF i2c_run_start
  <2>4. /\ twi' = [phase |-> "start", ack |-> FALSE]
        /\ moved' = [wrote |-> FirstBytes(0), read |-> FirstBytes(0)]
    <3>1. FirstBytes(0) = <<>>
      BY BytesMore
    <3> QED BY Zenon, <1>3, <3>1 DEF i2c_run_start, TWI_START
  <2>5. I2cType'
    BY <1>3, <2>2, <2>3, <2>4 DEF i2c_run_start, I2cInv, I2cType
  <2>6. 0 \in 0 .. run[t][2]
    BY <2>2
  <2>7. CASE run[t][1] = 0
    <3>1. i2c'.reads = TRUE /\ run[t][2] # 0 /\ i2c'.write_len = 0
      BY <2>2, <2>3, <2>7, Zenon
    <3> QED BY Zenon, <2>3, <2>4, <2>5, <2>6, <3>1 DEF I2cInv, PhaseOK
  <2>8. CASE run[t][1] # 0
    <3>a. run[t][1] = 1
      BY <2>2, <2>8
    <3>b. i2c'.reads = FALSE
      BY <2>3, <2>8, Zenon
    <3>1. i2c'.reads = FALSE /\ i2c'.write_len = 1
      BY <2>3, <3>a, <3>b, Zenon
    <3> QED BY Zenon, <2>3, <2>4, <2>5, <2>6, <3>1 DEF I2cInv, PhaseOK
  <2> QED BY Zenon, <2>7, <2>8
<1>4. CASE \E lens \in Transfers : i2c_run(t, lens)
  BY Zenon, <1>4 DEF i2c_run, I2cInv, I2cType, PhaseOK
<1> QED BY Zenon, <1>1, <1>2, <1>3, <1>4

\* The end of a transfer that has failed.
LEMMA I2cFails ==
  ASSUME I2cInv, NEW err, err # "NONE", transfer_stop(i2c.cursor, err), UNCHANGED <<run, moved>>
  PROVE  I2cInv'
<1>1. I2cType' /\ i2c'.error = err /\ twi'.phase = "idle" /\ i2c'.read_len = i2c.read_len
  BY Zenon DEF I2cInv, I2cType, transfer_stop, Idle_twi
<1> QED BY Zenon, <1>1 DEF I2cInv, PhaseOK

LEMMA I2cStepInv ==
  ASSUME MovableTransfers, LOSES \subseteq {"sla"}, I2cInv, i2c_state_machine
  PROVE  I2cInv'
<1> USE DEF I2cInv
<1>a. i2c.cursor \in Nat /\ i2c.read_len \in Nat /\ i2c.read_len < 2 ^ BUF_LEN_BITS
  BY Zenon DEF I2cType
<1>b. i2c.read_len # 0 => 1 <= i2c.read_len
  BY <1>a
<1>1. CASE TW_START
  <2>1. I2cType' /\ twi.phase = "start" /\ twi'.phase = "sla" /\ UNCHANGED <<i2c, run, moved>>
    BY Zenon, <1>1 DEF TW_START, TWI_REPLY, I2cType
  <2> QED BY Zenon, <2>1 DEF PhaseOK
<1>2. CASE TW_MT_ARB_LOST
  <2>1. I2cType' /\ twi.phase = "sla" /\ twi'.phase = "start" /\ UNCHANGED <<i2c, run, moved>>
    BY Zenon, <1>2 DEF TW_MT_ARB_LOST, TWI_START, I2cType
  <2> QED BY Zenon, <2>1 DEF PhaseOK
<1>3. CASE TW_MT_SLA_ACK
  <2>1. i2c.cursor = 0 /\ i2c.write_len = 1 /\ ~ i2c.reads
        /\ moved.wrote = FirstBytes(0) /\ moved.read = FirstBytes(0) /\ i2c.error = "NONE"
        /\ i2c.state \notin {"READY", "UNINITIALIZED"}
    BY Zenon, <1>3 DEF TW_MT_SLA_ACK, PhaseOK
  <2>2. Inc(0) = 1
    BY CursorMoves DEF MovableTransfers
  <2>3. i2c' = [i2c EXCEPT !.cursor = 1] /\ twi' = [phase |-> "mt", ack |-> TRUE]
        /\ UNCHANGED <<run, moved>>
    BY <1>3, <2>1, <2>2 DEF TW_MT_SLA_ACK, MT_Ack, TWI_REPLY
  <2>4. I2cType'
    BY Zenon, <2>3 DEF I2cType
  <2>5. i2c'.cursor = 1 /\ i2c'.write_len = 1 /\ ~ i2c'.reads /\ i2c'.error = "NONE"
        /\ i2c'.state \notin {"READY", "UNINITIALIZED"} /\ twi'.phase = "mt"
        /\ i2c'.read_len = i2c.read_len
    BY Zenon, <2>1, <2>3 DEF I2cType
  <2> QED BY <2>1, <2>3, <2>4, <2>5, Zenon DEF PhaseOK
<1>4. CASE TW_MT_DATA_ACK
  <2>1. i2c.cursor = 1 /\ i2c.write_len = 1 /\ ~ i2c.reads
        /\ moved.wrote = FirstBytes(0) /\ moved.read = FirstBytes(0) /\ i2c.error = "NONE"
        /\ i2c.state \notin {"READY", "UNINITIALIZED"}
    BY Zenon, <1>4 DEF TW_MT_DATA_ACK, PhaseOK
  <2>2. Inc(1) = 2
    BY CursorMoves DEF MovableTransfers
  <2>3. Append(FirstBytes(0), 0) = FirstBytes(1)
    BY BytesMore
  <2>4. moved' = [wrote |-> FirstBytes(1), read |-> FirstBytes(0)] /\ run' = run
    <3>1. i2c.cursor - 1 = 0
      BY <2>1
    <3>2. moved' = [moved EXCEPT !.wrote = Append(FirstBytes(0), 0)] /\ run' = run
      BY Zenon, <1>4, <2>1, <3>1 DEF TW_MT_DATA_ACK
    <3> QED BY <2>1, <2>3, <3>2, Zenon DEF I2cType
  <2>a. MT_Ack(2) /\ ~ (2 < i2c.write_len)
    BY <1>4, <2>1, <2>2 DEF TW_MT_DATA_ACK
  <2>5. CASE i2c.read_len # 0
    <3>1. i2c' = [i2c EXCEPT !.state = "MASTER_RX", !.cursor = 0, !.reads = TRUE]
          /\ twi' = [phase |-> "start", ack |-> FALSE]
      BY Zenon, <2>a, <2>5 DEF MT_Ack, TWI_START
    <3>2. I2cType' /\ i2c'.reads /\ i2c'.cursor = 0 /\ i2c'.write_len = 1
          /\ i2c'.read_len = i2c.read_len /\ i2c'.error = "NONE" /\ i2c'.state = "MASTER_RX"
      BY <2>1, <2>4, <3>1, Zenon DEF I2cType
    <3>3. 0 \in 0 .. i2c.read_len
      BY <1>a
    <3> QED BY Zenon, <2>4, <2>5, <3>1, <3>2, <3>3 DEF PhaseOK
  <2>6. CASE i2c.read_len = 0
    <3>1. i2c' = [i2c EXCEPT !.state = "READY", !.cursor = 2, !.error = "NONE"]
          /\ twi' = [phase |-> "idle", ack |-> FALSE]
      BY Zenon, <2>1, <2>a, <2>6 DEF MT_Ack, transfer_stop, Idle_twi
    <3>2. I2cType' /\ i2c'.write_len = 1 /\ i2c'.read_len = 0
      BY <2>1, <2>4, <2>6, <3>1, Zenon DEF I2cType
    <3> QED BY <2>4, <3>1, <3>2 DEF PhaseOK
  <2> QED BY Zenon, <2>5, <2>6
<1>5. CASE TW_MR_SLA_ACK
  <2>1. /\ i2c.cursor = 0 /\ i2c.read_len # 0 /\ i2c.reads
        /\ moved.wrote = FirstBytes(i2c.write_len) /\ moved.read = FirstBytes(0)
        /\ i2c.error = "NONE" /\ i2c.state \notin {"READY", "UNINITIALIZED"}
    BY Zenon, <1>5 DEF TW_MR_SLA_ACK, PhaseOK
  <2>2. I2cType' /\ twi'.phase = "mr" /\ twi'.ack = (i2c.read_len - i2c.cursor > 1)
        /\ UNCHANGED <<i2c, run, moved>>
    <3> DEFINE a == i2c.read_len - i2c.cursor > 1
    <3>1. twi' = [phase |-> "mr", ack |-> a] /\ UNCHANGED <<i2c, run, moved>>
      BY Zenon, <1>5 DEF TW_MR_SLA_ACK, TWI_REPLY
    <3>2. a \in BOOLEAN
      OBVIOUS
    <3> HIDE DEF a
    <3>3. I2cType' /\ twi'.phase = "mr" /\ twi'.ack = a
      BY Zenon, <3>1, <3>2 DEF I2cType
    <3> QED BY Zenon, <3>1, <3>3 DEF a
  <2>3. i2c.cursor < i2c.read_len
    BY <1>a, <2>1
  <2> QED BY Zenon, <2>1, <2>2, <2>3, <1>a DEF PhaseOK
<1>6. CASE TW_MR_DATA_ACK
  <2>a. /\ twi.ack /\ i2c.cursor < i2c.read_len /\ twi.ack = (i2c.read_len - i2c.cursor > 1)
        /\ i2c.reads
        /\ moved.wrote = FirstBytes(i2c.write_len) /\ moved.read = FirstBytes(i2c.cursor)
        /\ i2c.error = "NONE" /\ i2c.state \notin {"READY", "UNINITIALIZED"}
    BY <1>6, Zenon DEF TW_MR_DATA_ACK, PhaseOK
  <2>b. i2c.read_len - i2c.cursor > 1
    BY <2>a, Zenon
  <2>1. i2c.cursor + 1 < i2c.read_len /\ i2c.cursor + 1 < 2 ^ BUF_LEN_BITS
    BY <1>a, <2>b DEF MovableTransfers
  <2>2. /\ Inc(i2c.cursor) = i2c.cursor + 1
        /\ Append(FirstBytes(i2c.cursor), i2c.cursor) = FirstBytes(i2c.cursor + 1)
    BY <1>a, <2>1, CursorMoves, BytesMore, Zenon DEF MovableTransfers
  <2>3. /\ i2c' = [i2c EXCEPT !.cursor = i2c.cursor + 1]
        /\ twi' = [phase |-> "mr", ack |-> i2c.read_len - (i2c.cursor + 1) > 1]
        /\ moved' = [wrote |-> moved.wrote, read |-> FirstBytes(i2c.cursor + 1)] /\ run' = run
    BY Zenon, <1>6, <2>a, <2>2 DEF TW_MR_DATA_ACK, TWI_REPLY, I2cType
  <2>4. I2cType'
    BY <1>a, <2>3 DEF I2cType
  <2>5. /\ i2c'.cursor = i2c.cursor + 1 /\ i2c'.read_len = i2c.read_len /\ i2c'.reads
        /\ i2c'.write_len = i2c.write_len /\ i2c'.error = "NONE"
        /\ i2c'.state \notin {"READY", "UNINITIALIZED"}
    BY Zenon, <2>a, <2>3 DEF I2cType
  <2>6. i2c.cursor + 1 \in 0 .. i2c.read_len
    BY <1>a, <2>1
  <2> QED BY Zenon, <2>1, <2>a, <2>3, <2>4, <2>5, <2>6 DEF PhaseOK
<1>7. CASE TW_MR_DATA_NACK
  <2>a. /\ ~ twi.ack /\ i2c.cursor < i2c.read_len /\ twi.ack = (i2c.read_len - i2c.cursor > 1)
        /\ moved.wrote = FirstBytes(i2c.write_len) /\ moved.read = FirstBytes(i2c.cursor)
        /\ i2c.error = "NONE"
    BY <1>7, Zenon DEF TW_MR_DATA_NACK, PhaseOK
  <2>b. ~ (i2c.read_len - i2c.cursor > 1)
    BY <2>a, Zenon
  <2>1. i2c.cursor + 1 = i2c.read_len
    BY <1>a, <2>a, <2>b
  <2>2. /\ Inc(i2c.cursor) = i2c.read_len
        /\ Append(FirstBytes(i2c.cursor), i2c.cursor) = FirstBytes(i2c.read_len)
    BY <1>a, <2>1, CursorMoves, BytesMore, Zenon DEF MovableTransfers
  <2>3. /\ i2c' = [i2c EXCEPT !.state = "READY", !.cursor = i2c.read_len, !.error = "NONE"]
        /\ twi' = [phase |-> "idle", ack |-> FALSE]
        /\ moved' = [wrote |-> moved.wrote, read |-> FirstBytes(i2c.read_len)] /\ run' = run
    BY Zenon, <1>7, <2>a, <2>2 DEF TW_MR_DATA_NACK, transfer_stop, Idle_twi, I2cType
  <2>4. I2cType' /\ i2c'.read_len = i2c.read_len /\ i2c'.write_len = i2c.write_len
    BY <1>a, <2>3, Zenon DEF I2cType
  <2>5. i2c.read_len \in 0 .. i2c.read_len
    BY <1>a
  <2> QED BY Zenon, <2>a, <2>3, <2>4, <2>5 DEF PhaseOK
<1>8. CASE TW_SLA_NACK
  BY Zenon, <1>8, I2cFails DEF TW_SLA_NACK
<1>9. CASE TW_MT_DATA_NACK
  BY Zenon, <1>9, I2cFails DEF TW_MT_DATA_NACK
<1>10. CASE TW_BUS_ERROR
  BY Zenon, <1>10, I2cFails DEF TW_BUS_ERROR
<1> QED BY Zenon, <1>1, <1>2, <1>3, <1>4, <1>5, <1>6, <1>7, <1>8, <1>9, <1>10 DEF i2c_state_machine

\* Nobody is about to start a transfer while another one is in progress.
NotOverwritten == \A t \in Masters : run[t] # <<>> => i2c.state = "READY"

LEMMA NotOverwrittenStep ==
  ASSUME LOSES \subseteq {"sla"}, I2cInv, NotOverwritten, i2c_state_machine
  PROVE  NotOverwritten'
<1>1. twi.phase # "idle" /\ run' = run
  BY Zenon DEF i2c_state_machine, TW_START, TW_MT_SLA_ACK, TW_MT_DATA_ACK, TW_MR_SLA_ACK,
         TW_MR_DATA_ACK, TW_MR_DATA_NACK, TW_SLA_NACK, TW_MT_DATA_NACK, TW_MT_ARB_LOST,
         TW_BUS_ERROR
<1>2. i2c.state # "READY"
  BY Zenon, <1>1 DEF I2cInv, PhaseOK
<1> QED BY Zenon, <1>1, <1>2 DEF NotOverwritten

LEMMA NotOverwrittenCall ==
  ASSUME \A t, u \in Masters : t = u, I2cInv, NotOverwritten, I2cCall
  PROVE  NotOverwritten'
<1>1. PICK t \in Masters : \/ i2c_init(t) \/ i2c_deinit(t) \/ i2c_run_start(t)
                           \/ \E lens \in Transfers : i2c_run(t, lens)
  BY Zenon DEF I2cCall
<1>2. \A u \in Masters : u = t
  BY Zenon
<1>3. run \in [Masters -> Transfers \cup {<<>>}]
  BY Zenon DEF I2cInv, I2cType
<1>4. CASE i2c_init(t) \/ i2c_deinit(t)
  BY Zenon, <1>2, <1>4 DEF NotOverwritten, i2c_init, i2c_deinit
<1>5. CASE i2c_run_start(t)
  <2>1. run'[t] = <<>>
    BY Zenon, <1>3, <1>5 DEF i2c_run_start
  <2> QED BY Zenon, <1>2, <2>1 DEF NotOverwritten
<1>6. ASSUME NEW lens \in Transfers, i2c_run(t, lens) PROVE NotOverwritten'
  BY Zenon, <1>2, <1>6 DEF NotOverwritten, i2c_run
<1> QED BY Zenon, <1>1, <1>4, <1>5, <1>6

\* With one thread that uses the master, for reads of any length and writes of at
\* most one byte: no transfer is started over another one, and one that ends without
\* an error has moved each of its bytes once, whatever statuses the bus gives.  (Of
\* two threads, one may pass the test of i2c_run before the other starts.)
THEOREM TransfersMoved ==
  ASSUME MovableTransfers, LOSES \subseteq {"sla"}, \A t, u \in Masters : t = u
  PROVE  I2cSpec => [](Moved /\ NotOverwritten)
<1>1. I2cInit => I2cInv
  <2> SUFFICES ASSUME I2cInit PROVE I2cInv
    BY Zenon
  <2>1. FirstBytes(0) = <<>>
    BY BytesMore
  <2>2. 0 < 2 ^ BUF_LEN_BITS
    BY DEF MovableTransfers
  <2> QED BY <2>1, <2>2 DEF I2cInit, I2cInv, I2cType, PhaseOK, Idle_twi
<1>2. I2cInv /\ [i2c_state_machine \/ I2cCall]_i2cVars => I2cInv'
  <2>1. ASSUME I2cInv, UNCHANGED i2cVars PROVE I2cInv'
    BY Zenon, <2>1 DEF i2cVars, I2cInv, I2cType, PhaseOK
  <2> QED BY Zenon, <2>1, I2cStepInv, I2cCallInv
<1>3. I2cInv => Moved
  <2> SUFFICES ASSUME I2cInv PROVE Moved
    BY Zenon
  <2>1. PICK n \in 0 .. i2c.read_len : moved.read = FirstBytes(n)
    BY Zenon DEF I2cInv, PhaseOK
  <2>2. Len(moved.read) <= i2c.read_len
    BY <2>1, BytesMore DEF I2cInv, I2cType
  <2>3. i2c.state = "READY" /\ i2c.error = "NONE" => twi.phase = "idle"
    BY Zenon DEF I2cInv, PhaseOK
  <2> QED BY Zenon, <2>2, <2>3 DEF I2cInv, PhaseOK, Moved, FirstBytes
<1>4. I2cInit => NotOverwritten
  BY Zenon DEF I2cInit, NotOverwritten
<1>5. I2cInv /\ NotOverwritten /\ [i2c_state_machine \/ I2cCall]_i2cVars => NotOverwritten'
  <2>1. ASSUME NotOverwritten, UNCHANGED i2cVars PROVE NotOverwritten'
    BY Zenon, <2>1 DEF i2cVars, NotOverwritten
  <2> QED BY Zenon, <2>1, NotOverwrittenStep, NotOverwrittenCall
<1> QED BY <1>1, <1>2, <1>3, <1>4, <1>5, PTL DEF I2cSpec

-------------------------------------------------------------------------------
(* THE SD CARD                                                               *)

SdCommands == {"cmd0", "cmd8", "cmd58", "cmd55", "acmd41", "cmd16", "cmd"}

Card == [st : {"native", "idle", "ready"}, busy : BOOLEAN, took : BOOLEAN, did : BOOLEAN]

SdType ==
  /\ sd \in [fn : {"none", "init", "read", "write", "csd", "cid"},
             at : {"none", "while", "after", "data", "wait"} \cup SdCommands,
             timeout : Int, ret : {"none", "OK", "EIO", "ENOTSUP", "ETIMEDOUT"}]
  /\ selected \in BOOLEAN
  /\ card \in Card

\* A call in progress has not returned yet; one that got past its command has a card
\* that is ready, and one that waits for the card, a card that programs or is done.
\* A card that programs was ready, and is not idle before it has finished.
SdProgress ==
  /\ sd.at # "none" => sd.ret = "none"
  /\ sd.at \in {"cmd", "data", "wait"} => sd.fn # "init"
  /\ sd.at \in {"data", "wait"} => card.st = "ready"
  /\ card.busy => card.st = "ready"
  /\ sd.at = "wait" => card.busy \/ card.did
  /\ sd.at \notin {"none", "cmd", "data", "wait"} => sd.fn = "init"

SdInv == SdType /\ SdProgress /\ SdDone

\* Where the card is selected.
SelectedOK == /\ sd.at \in {"none", "while", "after"} => ~ selected
              /\ sd.at \in {"data", "wait"} => selected

\* A step that goes on at another command, or returns an error.
LEMMA SdMoves ==
  ASSUME SdInv, sd.at # "none",
         NEW at \in {"none", "while", "after"} \cup SdCommands,
         \/ at \notin {"none", "cmd"} /\ Goto(at)
         \/ at = "none" /\ \E r \in {"EIO", "ENOTSUP", "ETIMEDOUT"} : Return(r),
         card' \in Card, card'.busy => card'.st = "ready",
         sd.at # "cmd", sd.fn = "init", selected' \in BOOLEAN
  PROVE  SdInv'
<1>1. CASE at = "none"
  <2>1. PICK r \in {"EIO", "ENOTSUP", "ETIMEDOUT"} : Return(r)
    BY Zenon, <1>1
  <2>2. SdType'
    BY <2>1, Zenon DEF SdInv, SdType, Card, Return, SdCommands
  <2>3. sd'.at = "none" /\ sd'.ret = r /\ sd'.fn = "init"
    BY Zenon, <2>1 DEF SdInv, SdType, Card, Return
  <2> QED BY Zenon, <2>2, <2>3 DEF SdInv, SdProgress, SdDone
<1>2. CASE at # "none"
  <2>1. SdType'
    BY Zenon, <1>2 DEF SdInv, SdType, Card, Goto, SdCommands
  <2>2. sd'.at = at /\ sd'.ret = "none" /\ sd'.fn = "init" /\ at \notin {"none", "cmd"}
    BY Zenon, <1>2 DEF SdInv, SdType, Card, SdProgress, Goto
  <2>3. at \notin {"data", "wait"}
    BY Zenon DEF SdCommands
  <2> QED BY Zenon, <2>1, <2>2, <2>3 DEF SdInv, SdProgress, SdDone
<1> QED BY Zenon, <1>1, <1>2

LEMMA SdCallInv ==
  ASSUME SdInv, NEW fn \in {"init", "read", "write", "csd", "cid"},
         NEW at \in {"cmd0", "cmd"}, at = "cmd0" <=> fn = "init",
         SdCall(fn, at)
  PROVE  SdInv'
<1>1. TRIES \in Int
  BY SdAssumption
<1>2. /\ sd' = [fn |-> fn, at |-> at, timeout |-> TRIES, ret |-> "none"]
      /\ card' = [card EXCEPT !.took = FALSE, !.did = FALSE]
      /\ selected' \in BOOLEAN
  BY Zenon DEF SdCall
<1>3. SdType'
  BY <1>1, <1>2, Zenon DEF SdInv, SdType, Card, SdCommands
<1>4. sd'.at = at /\ sd'.fn = fn /\ sd'.ret = "none"
  BY Zenon, <1>2
<1>5. card'.busy => card'.st = "ready"
  BY Zenon, <1>2 DEF SdInv, SdType, Card, SdProgress
<1> QED BY Zenon, <1>3, <1>4, <1>5 DEF SdInv, SdProgress, SdDone

LEMMA SdInitInv ==
  ASSUME SdInv, Sends \/ GoIdle \/ CheckVoltage \/ ReadOcr \/ TestTimeout \/ AppCommand
  PROVE  SdInv'
<1>1. CASE Sends
  BY <1>1 DEF SdInv, SdType, Card, SdProgress, SdDone, Sends, spi_slave_select
<1>2. CASE GoIdle
  <2>1. PICK res \in IF card.busy THEN {0, 255} ELSE {0, 1, 255} :
          /\ Goto("cmd8") \/ Return("EIO")
          /\ card' = IF res = 1 THEN [card EXCEPT !.st = "idle"] ELSE card
    BY <1>2 DEF GoIdle
  <2>2. sd.at = "cmd0" /\ sd.fn = "init" /\ selected' \in BOOLEAN
    BY <1>2, Zenon DEF GoIdle, SdInv, SdProgress, spi_slave_unselect
  <2>3. card' \in Card
    BY Zenon, <2>1 DEF SdInv, SdType, Card
  <2>4. card'.busy => card'.st = "ready"
    <3>1. CASE card.busy
      <4>1. card' = card
        BY <2>1, <3>1
      <4> QED BY Zenon, <4>1 DEF SdInv, SdProgress
    <3>2. CASE ~ card.busy
      BY Zenon, <2>1, <3>2 DEF SdInv, SdType, Card
    <3> QED BY Zenon, <3>1, <3>2
  <2> QED BY <2>1, <2>2, <2>3, <2>4, SdMoves DEF SdCommands
<1>3. CASE CheckVoltage
  BY <1>3, Zenon DEF SdInv, SdType, Card, SdProgress, SdDone, CheckVoltage, spi_slave_unselect, Goto,
              Return, SdCommands
<1>4. CASE ReadOcr
  BY <1>4, Zenon DEF SdInv, SdType, Card, SdProgress, SdDone, ReadOcr, spi_slave_unselect, Goto, Return,
              SdCommands
<1>5. CASE TestTimeout
  <2> DEFINE c == (sd.timeout - 1) % 65536
             at == IF sd.timeout # 0 THEN "cmd55" ELSE "after"
  <2>1. c \in Int
    BY DEF SdInv, SdType, Card
  <2>2. sd.at = "while" /\ sd.fn = "init" /\ sd.ret = "none" /\ card' = card
    BY <1>5 DEF TestTimeout, SdInv, SdProgress
  <2>3. sd' = [sd EXCEPT !.timeout = c, !.at = at] /\ at \in {"cmd55", "after"}
        /\ selected' = selected
    BY <1>5 DEF TestTimeout
  <2>4. SdType' /\ sd'.at \in {"cmd55", "after"} /\ sd'.fn = "init" /\ sd'.ret = "none"
    <3> HIDE DEF c, at
    <3> QED BY <2>1, <2>2, <2>3, Zenon DEF SdInv, SdType, Card, SdCommands
  <2> QED BY Zenon, <2>2, <2>4 DEF SdInv, SdProgress, SdDone
<1>6. CASE AppCommand
  <2>1. Goto("acmd41") \/ Return("EIO")
    BY Zenon, <1>6 DEF AppCommand
  <2>2. sd.at = "cmd55" /\ sd.fn = "init" /\ selected' \in BOOLEAN
    BY <1>6, Zenon DEF AppCommand, SdInv, SdProgress, spi_slave_unselect
  <2>3. card' \in Card
    BY Zenon, <1>6 DEF AppCommand, SdInv, SdType
  <2>4. card'.busy => card'.st = "ready"
    BY Zenon, <1>6 DEF AppCommand, SdInv, SdProgress
  <2> QED BY Zenon, <2>1, <2>2, <2>3, <2>4, SdMoves DEF SdCommands
<1> QED BY Zenon, <1>1, <1>2, <1>3, <1>4, <1>5, <1>6

LEMMA SdReadyInv ==
  ASSUME SdInv, SendOpCond \/ AfterLoop \/ SetBlockLength \/ Command
  PROVE  SdInv'
<1>1. CASE SendOpCond
  <2>1. PICK res \in {0, 1, 255} :
          /\ Goto("after") \/ Goto("while") \/ Return("EIO")
          /\ card' = IF res = 0 THEN [card EXCEPT !.st = "ready"] ELSE card
    BY Zenon, <1>1 DEF SendOpCond
  <2>2. sd.at = "acmd41" /\ sd.fn = "init" /\ selected' \in BOOLEAN
    BY <1>1, Zenon DEF SendOpCond, SdInv, SdProgress, spi_slave_unselect
  <2>3. card' \in Card
    BY Zenon, <2>1 DEF SdInv, SdType, Card
  <2>4. card'.busy => card'.st = "ready"
    BY Zenon, <2>1 DEF SdInv, SdType, Card, SdProgress
  <2> QED BY Zenon, <2>1, <2>2, <2>3, <2>4, SdMoves DEF SdCommands
<1>2. CASE AfterLoop
  BY <1>2, Zenon DEF SdInv, SdType, Card, SdProgress, SdDone, AfterLoop, Goto, Return, SdCommands
<1>3. CASE SetBlockLength
  <2>1. sd.at = "cmd16" /\ sd.fn = "init" /\ selected' \in BOOLEAN /\ card' = card
    BY <1>3, Zenon DEF SetBlockLength, SdInv, SdProgress, spi_slave_unselect
  <2>2. card' \in Card /\ (card'.busy => card'.st = "ready")
    BY Zenon, <2>1 DEF SdInv, SdType, SdProgress
  <2>3. PICK res \in ReadyOnly : Return(IF res # 0 THEN "EIO" ELSE "OK")
    BY Zenon, <1>3 DEF SetBlockLength
  <2>4. CASE res # 0
    BY Zenon, <2>1, <2>2, <2>3, <2>4, SdMoves DEF SdCommands
  <2>5. CASE res = 0
    <3>1. card.st = "ready"
      BY <2>5 DEF ReadyOnly, SdInv, SdProgress
    <3>2. SdType' /\ sd'.at = "none" /\ sd'.fn = "init"
      BY <2>1, <2>2, <2>3, <2>5, Zenon DEF SdInv, SdType, Card, Return
    <3> QED BY Zenon, <2>1, <3>1, <3>2 DEF SdInv, SdProgress, SdDone
  <2> QED BY Zenon, <2>4, <2>5
<1>4. CASE Command
  <2>1. PICK res \in ReadyOnly :
          IF res # 0 THEN Exit("EIO") ELSE Goto("data") /\ UNCHANGED selected
    BY <1>4, Zenon DEF Command
  <2>2. sd.at = "cmd" /\ card' = [card EXCEPT !.took = ~ card.busy]
    BY Zenon, <1>4 DEF Command
  <2>a. card' \in Card /\ card'.st = card.st /\ card'.busy = card.busy
    <3>1. (~ card.busy) \in BOOLEAN
      BY Zenon
    <3> QED BY Zenon, <2>2, <3>1 DEF SdInv, SdType, Card
  <2>3. CASE res # 0
    <3>1. SdType' /\ sd'.at = "none" /\ sd'.ret = "EIO"
      BY <2>1, <2>2, <2>a, <2>3, Zenon DEF SdInv, SdType, Exit, spi_slave_unselect, Return
    <3> QED BY Zenon, <2>a, <3>1 DEF SdInv, SdProgress, SdDone
  <2>4. CASE res = 0
    <3>1. card.st = "ready"
      BY <2>4 DEF ReadyOnly, SdInv, SdProgress
    <3>2. SdType' /\ sd'.at = "data" /\ sd'.ret = sd.ret /\ sd'.fn = sd.fn
      BY Zenon, <2>1, <2>2, <2>a, <2>4 DEF SdInv, SdType, Goto
    <3> QED BY Zenon, <2>2, <2>a, <3>1, <3>2 DEF SdInv, SdProgress, SdDone
  <2> QED BY <2>3, <2>4
<1> QED BY Zenon, <1>1, <1>2, <1>3, <1>4

LEMMA SdDataInv ==
  ASSUME SdInv, sd_read_block \/ sd_read_cid \/ sd_read_csd \/ WriteData \/ sd_wait_ready
                \/ Programmed
  PROVE  SdInv'
<1>1. CASE sd_read_block
  BY <1>1, Zenon DEF SdInv, SdType, Card, SdProgress, SdDone, sd_read_block, sd_read_data_block, HasData,
              Exit, spi_slave_unselect, Return
<1>2. CASE sd_read_cid
  BY <1>2, Zenon DEF SdInv, SdType, Card, SdProgress, SdDone, sd_read_cid, sd_read_data_block, HasData,
              Exit, spi_slave_unselect, Return
<1>3. CASE sd_read_csd
  BY <1>3, Zenon DEF SdInv, SdType, Card, SdProgress, SdDone, sd_read_csd, sd_read_data_block, HasData,
              Exit, spi_slave_unselect, Return
<1>4. CASE WriteData
  BY <1>4, Zenon DEF SdInv, SdType, Card, SdProgress, SdDone, WriteData, Exit, spi_slave_unselect, Goto,
              Return
<1>5. CASE sd_wait_ready
  BY <1>5, Zenon DEF SdInv, SdType, Card, SdProgress, SdDone, sd_wait_ready, Exit, spi_slave_unselect,
              Return
<1>6. CASE Programmed
  <2>1. /\ SdType' /\ sd' = sd /\ card'.st = card.st /\ card'.busy = FALSE
        /\ card'.did = (card.did \/ sd.at = "wait")
    BY <1>6, Zenon DEF SdInv, SdType, Card, Programmed
  <2> QED BY Zenon, <2>1 DEF SdInv, SdType, Card, SdProgress, SdDone
<1> QED BY <1>1, <1>2, <1>3, <1>4, <1>5, <1>6

LEMMA SdInvariant == SdSpec => []SdInv
<1>1. SdInit => SdInv
  <2> SUFFICES ASSUME SdInit PROVE SdInv
    OBVIOUS
  <2>1. selected \in BOOLEAN /\ card \in Card /\ ~ card.busy
    BY Zenon DEF SdInit, Card
  <2> QED BY <2>1 DEF SdInit, SdInv, SdType, SdProgress, SdDone
<1>2. SdInv /\ [SdStep \/ SdCalls]_sdVars => SdInv'
  <2> SUFFICES ASSUME SdInv, [SdStep \/ SdCalls]_sdVars PROVE SdInv'
    BY Zenon
  <2>1. CASE SdStep
    BY Zenon, <2>1, SdInitInv, SdReadyInv, SdDataInv DEF SdStep
  <2>2. CASE SdCalls
    BY Zenon, <2>2, SdCallInv, SdDataInv DEF SdCalls
  <2>3. CASE UNCHANGED sdVars
    BY <2>3 DEF sdVars, SdInv, SdType, SdProgress, SdDone
  <2> QED BY Zenon, <2>1, <2>2, <2>3
<1> QED BY <1>1, <1>2, PTL DEF SdSpec

\* Whatever the card answers and however often it is asked, a call of the SD driver
\* that returns 0 has had its effect on the card.
THEOREM SdCallsDone == SdSpec => []SdDone
<1>1. SdInv => SdDone
  BY Zenon DEF SdInv
<1> QED BY <1>1, SdInvariant, PTL

\* The card is unselected whenever no call is in progress, if its CSD structure is of
\* the version that the driver supports: sd_read_csd returns early for the others.
THEOREM SdBusReleased ==
  ASSUME CSD_VERSIONS \subseteq {0}
  PROVE  SdSpec => []Unselected
<1>1. SdInit => SelectedOK
  <2> SUFFICES ASSUME SdInit PROVE SelectedOK
    BY Zenon
  <2>1. ~ selected
    BY Zenon DEF SdInit
  <2> QED BY Zenon, <2>1 DEF SdInit, SelectedOK
<1>2. SdInv /\ SelectedOK /\ [SdStep \/ SdCalls]_sdVars => SelectedOK'
  <2> SUFFICES ASSUME SdInv, SelectedOK, [SdStep \/ SdCalls]_sdVars PROVE SelectedOK'
    BY Zenon
  <2>1. \A at : Goto(at) => sd'.at = at
    BY Zenon DEF SdInv, SdType, Card, Goto
  <2>2. \A r : Return(r) => sd'.at = "none"
    BY Zenon DEF SdInv, SdType, Card, Return
  <2>3. \A r : Exit(r) => sd'.at = "none" /\ ~ selected'
    BY Zenon, <2>2 DEF Exit, spi_slave_unselect
  <2>4. CASE Sends
    BY <2>4 DEF Sends, SelectedOK
  <2>5. CASE TestTimeout
    <3>1. sd'.at \in {"cmd55", "after"}
      BY <2>5 DEF TestTimeout, SdInv, SdType
    <3> QED BY <2>5, <3>1 DEF TestTimeout, SelectedOK
  <2>6. CASE GoIdle \/ CheckVoltage \/ ReadOcr \/ AppCommand \/ SendOpCond \/ SetBlockLength
    <3>1. ~ selected'
      BY Zenon, <2>6 DEF GoIdle, CheckVoltage, ReadOcr, AppCommand, SendOpCond, SetBlockLength,
                  spi_slave_unselect
    <3>2. sd'.at \notin {"data", "wait"}
      BY <2>1, <2>2, <2>6 DEF GoIdle, CheckVoltage, ReadOcr, AppCommand, SendOpCond,
                              SetBlockLength
    <3> QED BY Zenon, <3>1, <3>2 DEF SelectedOK
  <2>7. CASE AfterLoop
    BY Zenon, <2>1, <2>2, <2>7 DEF AfterLoop, SelectedOK
  <2>8. CASE Command
    BY <2>1, <2>3, <2>8, Zenon DEF Command, SelectedOK
  <2>9. CASE sd_read_block \/ sd_read_cid \/ sd_read_csd
    BY Zenon, <2>3, <2>9 DEF sd_read_block, sd_read_cid, sd_read_csd, sd_read_data_block, SelectedOK
  <2>10. CASE WriteData \/ sd_wait_ready
    BY Zenon, <2>1, <2>3, <2>10 DEF WriteData, sd_wait_ready, SelectedOK
  <2>11. CASE Programmed
    BY Zenon, <2>11 DEF Programmed, SelectedOK
  <2>12. ASSUME NEW fn \in {"init", "read", "write", "csd", "cid"}, NEW at \in {"cmd0", "cmd"},
                SdCall(fn, at)
         PROVE  SelectedOK'
    BY Zenon, <2>12 DEF SdCall, SelectedOK
  <2>13. CASE UNCHANGED sdVars
    BY Zenon, <2>13 DEF sdVars, SelectedOK
  <2> QED BY Zenon, <2>4, <2>5, <2>6, <2>7, <2>8, <2>9, <2>10, <2>11, <2>12, <2>13
          DEF SdStep, SdCalls
<1>3. SelectedOK => Unselected
  BY Zenon DEF SelectedOK, Unselected
<1> QED BY <1>1, <1>2, <1>3, SdInvariant, PTL DEF SdSpec

-------------------------------------------------------------------------------
(* THE CAN CONTROLLER                                                        *)

Frame == Frames \cup {NoFrame}

Chip == [mode : {"off", "normal", "config"},
         txreq : SUBSET (0 .. 2), tx : [0 .. 2 -> Frame],
         rxif : SUBSET (0 .. 1), rx : [0 .. 1 -> Frame]]

\* The steps of a call under the mutex.
Steps == {"begin", "load", "rts", "read", "clear", "write", "normal"}

Job == [fn : {"none", "send", "recv", "filter"},
        at : {"none", "lock", "wait", "woken"} \cup Steps, buf : 0 .. 2, frame : Frame]

JobType ==
  /\ owner \in CanUsers \cup {NoUser}
  /\ job \in [CanUsers -> Job]
  /\ \A u \in CanUsers : job[u].fn = "send" => job[u].frame \in Frames

\* No instruction of the driver loads the transmit buffers 1 and 2.
ChipType == chip \in Chip /\ chip.tx[1] = NoFrame /\ chip.tx[2] = NoFrame

HistoryType == /\ owed \in [Frames -> Int] /\ stored \in [Frames -> Int]
               /\ seen \in {"none", "busy", "reentry"}

\* No call, and nothing owed or stored.
Idle(mode) ==
  /\ chip = Reset(mode) /\ owed = None /\ stored = None /\ seen = "none"
  /\ \A u \in CanUsers : job[u] = Done

OffOK == chip.mode = "off" => Idle("off")

\* The mutex: one thread at most is in the driver or was handed the mutex.
InCall(u) == job[u].at \in Steps \cup {"woken"}

MutexOK ==
  /\ \A u, v \in CanUsers : InCall(u) /\ InCall(v) => u = v
  /\ \A u \in CanUsers : /\ job[u].at \in Steps => owner = u
                         /\ InCall(u) => owner # NoUser

\* What a thread in the middle of a call may rely on.
JobOK(u) ==
  /\ At(u, "send", "load") \/ At(u, "send", "rts") =>
       /\ job[u].buf = 0 => 0 \notin chip.txreq
       /\ seen = "none" => job[u].buf = 0
  /\ At(u, "send", "rts") /\ job[u].buf = 0 =>
       chip.tx[0] = job[u].frame /\ owed[job[u].frame] >= 1
  /\ At(u, "recv", "read") => job[u].buf \in chip.rxif

\* The frames loaded and not sent: in buffer 0, or by the thread about to request it.
Waits(f)  == 0 \in chip.txreq /\ chip.tx[0] = f
Loaded(f) == \E u \in CanUsers : At(u, "send", "rts") /\ job[u].frame = f

OwedOK ==
  /\ \A f \in Frames : owed[f] >= 0
  /\ 0 \in chip.txreq => chip.tx[0] \in Frames /\ owed[chip.tx[0]] >= 1
  /\ seen = "none" => \A f \in Frames : owed[f] = IF Waits(f) \/ Loaded(f) THEN 1 ELSE 0

\* How many of the buffers S hold f.
Holding(S, g, f) == Cardinality({b \in S : g[b] = f})

StoredOK == /\ \A b \in chip.rxif : chip.rx[b] \in Frames
            /\ \A f \in Frames : stored[f] = Holding(chip.rxif, chip.rx, f)

Kept == MutexOK /\ (\A u \in CanUsers : JobOK(u)) /\ OwedOK /\ StoredOK

McpInv == JobType /\ ChipType /\ HistoryType /\ OffOK /\ (seen # "reentry" => Kept)

-------------------------------------------------------------------------------
(* How many buffers hold a frame, when one is added or removed. *)

LEMMA HoldingAdd ==
  ASSUME NEW n \in Nat, NEW S \in SUBSET (0 .. n), NEW g, NEW h, NEW x \in 0 .. n, x \notin S,
         NEW f, \A b \in S : h[b] = g[b]
  PROVE  Holding(S \cup {x}, h, f) = Holding(S, g, f) + (IF h[x] = f THEN 1 ELSE 0)
<1> USE DEF Holding
<1> DEFINE T == {b \in S : g[b] = f}
<1>1. IsFiniteSet(T) /\ x \notin T
  <2>1. IsFiniteSet(0 .. n)
    <3>1. 0 \in Int /\ n \in Int
      OBVIOUS
    <3> QED BY Zenon, <3>1, FS_Interval
  <2>2. T \subseteq 0 .. n
    BY Zenon
  <2> QED BY Zenon, <2>1, <2>2, FS_Subset
<1>2. Cardinality(T) \in Nat
  BY Zenon, <1>1, FS_CardinalityType
<1>3. CASE h[x] = f
  <2>1. {b \in S \cup {x} : h[b] = f} = T \cup {x}
    BY <1>3, Zenon
  <2>2. Cardinality(T \cup {x}) = Cardinality(T) + 1
    BY Zenon, <1>1, FS_AddElement
  <2> QED BY Zenon, <1>3, <2>1, <2>2
<1>4. CASE h[x] # f
  <2>1. {b \in S \cup {x} : h[b] = f} = T
    BY Zenon, <1>4
  <2> QED BY <1>2, <1>4, <2>1
<1> QED BY Zenon, <1>3, <1>4

LEMMA HoldingRemove ==
  ASSUME NEW n \in Nat, NEW S \in SUBSET (0 .. n), NEW g, NEW h, NEW x \in S,
         NEW f, \A b \in S \ {x} : h[b] = g[b]
  PROVE  Holding(S \ {x}, h, f) = Holding(S, g, f) - (IF g[x] = f THEN 1 ELSE 0)
<1> USE DEF Holding
<1> DEFINE T == {b \in S : g[b] = f}
<1>1. IsFiniteSet(T)
  <2>1. IsFiniteSet(0 .. n)
    <3>1. 0 \in Int /\ n \in Int
      OBVIOUS
    <3> QED BY Zenon, <3>1, FS_Interval
  <2>2. T \subseteq 0 .. n
    BY Zenon
  <2> QED BY Zenon, <2>1, <2>2, FS_Subset
<1>2. Cardinality(T) \in Nat
  BY Zenon, <1>1, FS_CardinalityType
<1>3. CASE g[x] = f
  <2>1. {b \in S \ {x} : h[b] = f} = T \ {x} /\ x \in T
    BY <1>3, Zenon
  <2>2. Cardinality(T \ {x}) = Cardinality(T) - 1
    BY Zenon, <1>1, <2>1, FS_RemoveElement
  <2> QED BY <1>2, <1>3, <2>1, <2>2, Zenon
<1>4. CASE g[x] # f
  <2>1. {b \in S \ {x} : h[b] = f} = T
    BY <1>4, Zenon
  <2>2. Cardinality(T) = Cardinality(T) - 0
    BY <1>2
  <2>3. (IF g[x] = f THEN 1 ELSE 0) = 0
    BY Zenon, <1>4
  <2> QED BY Zenon, <2>1, <2>2, <2>3
<1> QED BY Zenon, <1>3, <1>4


-------------------------------------------------------------------------------
(* The mutex *)

\* A step of the call of u: it goes on, or unlocks the mutex and returns.
Goes(u, at, buf) == /\ job' = [job EXCEPT ![u].at = at, ![u].buf = buf]
                    /\ owner' = owner
GoesOn(u) == \E at \in Steps, buf \in 0 .. 2 : Goes(u, at, buf)

LEMMA StepGoes ==
  ASSUME JobType, NEW u \in CanUsers, NEW at, Step(u, at), owner' = owner
  PROVE  Goes(u, at, job[u].buf) /\ job[u].buf \in 0 .. 2
<1>1. job[u] \in Job
  BY Zenon DEF JobType
<1>2. [job[u] EXCEPT !.at = at] = [job[u] EXCEPT !.at = at, !.buf = job[u].buf]
  BY ZenonT(20), <1>1 DEF Job
<1>3. job' = [job EXCEPT ![u].at = at, ![u].buf = job[u].buf]
  BY Zenon, <1>2 DEF Step, JobType
<1> QED BY Zenon, <1>1, <1>3 DEF Goes, Job

LEMMA JobGoes ==
  ASSUME JobType, NEW u \in CanUsers, NEW at \in Steps \cup {"lock", "wait"},
         NEW buf \in 0 .. 2, Goes(u, at, buf)
  PROVE  /\ job'[u].at = at /\ job'[u].buf = buf
         /\ job'[u].fn = job[u].fn /\ job'[u].frame = job[u].frame
         /\ \A v \in CanUsers : v # u => job'[v] = job[v]
         /\ JobType'
<1>1. job[u] \in Job /\ job \in [CanUsers -> Job]
  BY Zenon DEF JobType
<1>2. job' = [job EXCEPT ![u] = [job[u] EXCEPT !.at = at, !.buf = buf]]
  BY Zenon, <1>1 DEF Goes
<1>3. /\ job'[u] = [job[u] EXCEPT !.at = at, !.buf = buf]
      /\ \A v \in CanUsers : v # u => job'[v] = job[v]
  BY Zenon, <1>1, <1>2
<1>4. /\ job'[u].at = at /\ job'[u].buf = buf
      /\ job'[u].fn = job[u].fn /\ job'[u].frame = job[u].frame
      /\ job'[u] \in Job
  BY ZenonT(20), <1>1, <1>3 DEF Job
<1>5. job' \in [CanUsers -> Job]
  BY Zenon, <1>1, <1>2, <1>3, <1>4
<1>6. JobType'
  BY Zenon, <1>3, <1>4, <1>5 DEF JobType, Goes
<1> QED BY Zenon, <1>3, <1>4, <1>6

\* What k_mutex_unlock does to the calls.
LEMMA Unlocked ==
  ASSUME JobType, NEW u \in CanUsers, job[u].at \in Steps, k_mutex_unlock(u)
  PROVE  /\ job'[u] = Done
         /\ \A v \in CanUsers : v # u =>
              \/ job'[v] = job[v]
              \/ job[v].at = "wait" /\ job'[v] = [job[v] EXCEPT !.at = "woken"]
         /\ JobType'
<1>1. job \in [CanUsers -> Job] /\ owner \in CanUsers \cup {NoUser}
  BY Zenon DEF JobType
<1>2. Done \in Job /\ Done.fn = "none"
  BY DEF Done, Job, Frame
<1>3. ASSUME job' = [job EXCEPT ![u] = Done]
      PROVE  /\ job'[u] = Done
             /\ \A v \in CanUsers : v # u => job'[v] = job[v]
             /\ job' \in [CanUsers -> Job]
  BY Zenon, <1>1, <1>2, <1>3
<1>4. ASSUME NEW w \in CanUsers, job[w].at = "wait",
             job' = [job EXCEPT ![u] = Done, ![w].at = "woken"]
      PROVE  /\ w # u /\ job'[u] = Done /\ job'[w] = [job[w] EXCEPT !.at = "woken"]
             /\ \A v \in CanUsers : v # u /\ v # w => job'[v] = job[v]
             /\ job' \in [CanUsers -> Job]
  <2>1. w # u
    BY <1>4 DEF Steps
  <2>2. [job[w] EXCEPT !.at = "woken"] \in Job
    BY <1>1 DEF Job
  <2> QED BY <1>1, <1>2, <1>4, <2>1, <2>2, Zenon
<1>5. /\ job'[u] = Done
      /\ \A v \in CanUsers : v # u =>
           \/ job'[v] = job[v]
           \/ job[v].at = "wait" /\ job'[v] = [job[v] EXCEPT !.at = "woken"]
      /\ job' \in [CanUsers -> Job]
  BY Zenon, <1>3, <1>4 DEF k_mutex_unlock
<1>6. owner' \in CanUsers \cup {NoUser}
  BY Zenon, <1>1 DEF k_mutex_unlock
<1>7. ASSUME NEW v \in CanUsers, job'[v].fn = "send" PROVE job'[v].frame \in Frames
  <2>1. v # u
    BY Zenon, <1>2, <1>5, <1>7
  <2>2. job'[v].fn = job[v].fn /\ job'[v].frame = job[v].frame
    BY <1>1, <1>5, <2>1 DEF Job
  <2> QED BY Zenon, <1>7, <2>2 DEF JobType
<1>8. JobType'
  BY Zenon, <1>5, <1>6, <1>7 DEF JobType
<1> QED BY Zenon, <1>5, <1>8

\* Nobody else is in the driver.
LEMMA OthersOut ==
  ASSUME MutexOK, NEW u \in CanUsers, job[u].at \in Steps, NEW v \in CanUsers, v # u
  PROVE  job[v].at \notin Steps \cup {"woken"}
BY Zenon DEF MutexOK, InCall

LEMMA GoesMutex ==
  ASSUME JobType, MutexOK, NEW u \in CanUsers, job[u].at \in Steps, GoesOn(u)
  PROVE  MutexOK' /\ \A v \in CanUsers : v # u => job'[v].at \notin Steps
<1>1. PICK at \in Steps, buf \in 0 .. 2 : Goes(u, at, buf)
  BY Zenon DEF GoesOn
<1>2. job'[u].at \in Steps /\ owner' = owner
  BY Zenon, <1>1, JobGoes DEF Goes
<1>3. \A v \in CanUsers : v # u => job'[v] = job[v] /\ job[v].at \notin Steps \cup {"woken"}
  BY Zenon, <1>1, JobGoes, OthersOut
<1>4. owner = u /\ owner # NoUser
  BY Zenon DEF MutexOK, InCall
<1> QED BY Zenon, <1>2, <1>3, <1>4 DEF MutexOK, InCall

LEMMA UnlockMutex ==
  ASSUME JobType, MutexOK, NEW u \in CanUsers, job[u].at \in Steps, k_mutex_unlock(u)
  PROVE  MutexOK' /\ \A v \in CanUsers : v # u => job'[v].at \notin Steps
<1>1. owner = u /\ u # NoUser
  BY Zenon, McpAssumption DEF MutexOK
<1>2. Done.at \notin Steps \cup {"woken"}
  BY DEF Done, Steps
<1>3. \A v \in CanUsers : v # u => job[v].at \notin Steps \cup {"woken"}
  BY Zenon, OthersOut
<1>4. job \in [CanUsers -> Job]
  BY Zenon DEF JobType
<1>5. CASE job' = [job EXCEPT ![u] = Done]
  <2>1. \A v \in CanUsers : job'[v].at \notin Steps \cup {"woken"}
    BY Zenon, <1>2, <1>3, <1>4, <1>5
  <2> QED BY Zenon, <2>1 DEF MutexOK, InCall
<1>6. ASSUME NEW w \in CanUsers, job[w].at = "wait", owner' = owner,
             job' = [job EXCEPT ![u] = Done, ![w].at = "woken"]
      PROVE  MutexOK' /\ \A v \in CanUsers : v # u => job'[v].at \notin Steps
  <2>1. w # u
    BY <1>6 DEF Steps
  <2>2. job'[w] = [job[w] EXCEPT !.at = "woken"] /\ job'[u] = Done
    BY Zenon, <1>4, <1>6, <2>1
  <2>3. job'[w].at = "woken"
    BY <1>4, <2>2 DEF Job
  <2>4. \A v \in CanUsers : v # w => job'[v].at \notin Steps \cup {"woken"}
    BY Zenon, <1>2, <1>3, <1>4, <1>6, <2>2
  <2>5. "woken" \notin Steps
    BY DEF Steps
  <2> QED BY Zenon, <1>1, <1>6, <2>3, <2>4, <2>5 DEF MutexOK, InCall
<1> QED BY Zenon, <1>1, <1>5, <1>6 DEF k_mutex_unlock

-------------------------------------------------------------------------------
(* The steps *)

LEMMA IdleInv ==
  ASSUME JobType, NEW mode \in {"off", "normal"}, Idle(mode)
  PROVE  McpInv
<1>1. chip = Reset(mode) /\ owed = None /\ stored = None /\ seen = "none"
  BY Zenon DEF Idle
<1>2. ChipType
  BY <1>1 DEF ChipType, Chip, Frame, Reset
<1>3. HistoryType
  BY <1>1 DEF HistoryType, None
<1>4. OffOK
  BY <1>1 DEF OffOK, Reset
<1>5. \A u \in CanUsers : job[u].at \notin Steps \cup {"woken"}
  BY DEF Idle, Done, Steps
<1>6. MutexOK /\ (\A u \in CanUsers : JobOK(u)) /\ \A f \in Frames : ~ Loaded(f)
  BY <1>5 DEF MutexOK, InCall, JobOK, At, Loaded, Steps
<1>7. chip.txreq = {} /\ chip.rxif = {}
  BY <1>1 DEF Reset
<1>8. OwedOK
  BY <1>1, <1>6, <1>7 DEF OwedOK, Waits, None
<1>9. StoredOK
  <2>1. \A f \in Frames : {b \in chip.rxif : chip.rx[b] = f} = {}
    BY Zenon, <1>7
  <2> QED BY Zenon, <1>1, <1>7, <2>1, FS_EmptySet DEF StoredOK, Holding, None
<1> QED BY Zenon, <1>2, <1>3, <1>4, <1>6, <1>8, <1>9 DEF McpInv, Kept

LEMMA IdleNext == \A mode \in {"off", "normal"} : JobType' /\ Idle(mode)' => McpInv'
<1>1. \A mode \in {"off", "normal"} : JobType /\ Idle(mode) => McpInv
  BY Zenon, IdleInv
<1>2. (\A mode \in {"off", "normal"} : JobType /\ Idle(mode) => McpInv)'
  BY <1>1, PTL
<1> QED BY Zenon, <1>2

\* Nobody but u is at a step under the mutex, before and after.
Only(u) == \A v \in CanUsers : v # u => job[v].at \notin Steps /\ job'[v].at \notin Steps

\* A step of u under the mutex: what remains to be shown.
LEMMA UserStep ==
  ASSUME McpInv, NEW u \in CanUsers, job[u].at \in Steps, GoesOn(u) \/ k_mutex_unlock(u),
         ChipType', HistoryType', chip'.mode \in {chip.mode, "config", "normal"},
         seen' # "reentry" => seen # "reentry",
         seen # "reentry" /\ Kept /\ Only(u) => JobOK(u)' /\ OwedOK' /\ StoredOK'
  PROVE  McpInv'
<1>1. JobType'
  <2>1. JobType
    BY Zenon DEF McpInv
  <2>2. CASE GoesOn(u)
    <3>1. PICK at \in Steps, buf \in 0 .. 2 : Goes(u, at, buf)
      BY Zenon, <2>2 DEF GoesOn
    <3> QED BY Zenon, <2>1, <3>1, JobGoes
  <2>3. CASE k_mutex_unlock(u)
    BY Zenon, <2>1, <2>3, Unlocked
  <2> QED BY Zenon, <2>2, <2>3
<1>2. OffOK'
  <2>1. job[u] # Done
    BY DEF Done, Steps
  <2>2. chip.mode # "off"
    BY Zenon, <2>1 DEF McpInv, OffOK, Idle
  <2>3. chip'.mode # "off"
    BY <2>2
  <2> QED BY Zenon, <2>3 DEF OffOK
<1>3. ASSUME seen' # "reentry" PROVE Kept'
  <2>1. JobType /\ MutexOK /\ Kept /\ seen # "reentry"
    BY Zenon, <1>3 DEF McpInv, Kept
  <2>2. MutexOK' /\ \A v \in CanUsers : v # u => job'[v].at \notin Steps
    BY Zenon, <2>1, GoesMutex, UnlockMutex
  <2>3. Only(u)
    BY Zenon, <2>1, <2>2, OthersOut DEF Only
  <2>4. JobOK(u)' /\ OwedOK' /\ StoredOK'
    BY Zenon, <2>1, <2>3
  <2>5. ASSUME NEW v \in CanUsers, v # u PROVE JobOK(v)'
    <3>1. job'[v].at \notin {"load", "rts", "read"}
      BY <2>2, <2>5 DEF Steps
    <3> QED BY Zenon, <3>1 DEF JobOK, At
  <2> QED BY Zenon, <2>2, <2>4, <2>5 DEF Kept
<1> QED BY Zenon, <1>1, <1>2, <1>3 DEF McpInv

\* The thread that is about to request a transmission is u.
LEMMA OnlyLoaded ==
  ASSUME NEW u \in CanUsers, Only(u), NEW f
  PROVE  /\ Loaded(f) <=> At(u, "send", "rts") /\ job[u].frame = f
         /\ Loaded(f)' <=> At(u, "send", "rts")' /\ job'[u].frame = f
<1>1. "rts" \in Steps
  BY DEF Steps
<1> QED BY Zenon, <1>1 DEF Only, Loaded, At

LEMMA OwedSame ==
  ASSUME OwedOK, chip'.txreq = chip.txreq, chip'.tx = chip.tx, owed' = owed,
         seen' = "none" => seen = "none", \A f \in Frames : Loaded(f)' <=> Loaded(f)
  PROVE  OwedOK'
<1>1. \A f \in Frames : Waits(f)' <=> Waits(f)
  BY Zenon DEF Waits
<1> QED BY Zenon, <1>1 DEF OwedOK

LEMMA StoredSame ==
  ASSUME StoredOK, chip'.rxif = chip.rxif, chip'.rx = chip.rx, stored' = stored
  PROVE  StoredOK'
BY Zenon DEF StoredOK

LEMMA ReadTxStatusInv ==
  ASSUME McpInv, NEW u \in CanUsers, ReadTxStatus(u)
  PROVE  McpInv'
<1> DEFINE free == (0 .. 2) \ chip.txreq
           first == CHOOSE b \in free : \A c \in free : b <= c
<1>1. /\ free # {} => first \in free
      /\ 0 \in free => first = 0
  <2>1. free # {} => \E b \in free : \A c \in free : b <= c
    <3>1. \A b \in free : b = 0 \/ b = 1 \/ b = 2
      OBVIOUS
    <3> QED BY <3>1
  <2>2. free # {} => first \in free /\ \A c \in free : first <= c
    BY Zenon, <2>1
  <2>3. 0 \in free => first \in 0 .. 2 /\ first <= 0
    BY Zenon, <2>2
  <2>4. 0 \in free => first = 0
    <3> HIDE DEF first
    <3> QED BY <2>3
  <2> QED BY Zenon, <2>2, <2>4
<1>2. /\ At(u, "send", "begin") /\ chip' = chip /\ owed' = owed /\ stored' = stored
      /\ seen' = IF 0 \in free \/ seen = "reentry" THEN seen ELSE "busy"
  BY Zenon DEF ReadTxStatus
<1>3. \/ free = {} /\ k_mutex_unlock(u)
      \/ free # {} /\ Goes(u, "load", first)
  BY Zenon DEF ReadTxStatus, Goes
<1> HIDE DEF first
<1>4. free # {} => first \in 0 .. 2 /\ first \notin chip.txreq
  BY Zenon, <1>1
<1>a. seen' \in {seen, "busy"} /\ (seen' = "none" => seen = "none" /\ 0 \in free)
  BY <1>2
<1> HIDE DEF free
<1>5. JobType /\ ChipType /\ HistoryType
  BY Zenon DEF McpInv
<1>6. job[u].at \in Steps /\ "load" \in Steps /\ "load" # "rts"
  BY <1>2 DEF At, Steps
<1>7. GoesOn(u) \/ k_mutex_unlock(u)
  BY Zenon, <1>3, <1>4, <1>6 DEF GoesOn
<1>8. ChipType' /\ HistoryType'
  BY <1>2, <1>5, <1>a DEF ChipType, HistoryType
<1>9. ASSUME seen # "reentry", Kept, Only(u) PROVE JobOK(u)' /\ OwedOK' /\ StoredOK'
  <2>1. ~ At(u, "send", "rts") /\ ~ At(u, "send", "rts")'
    BY <1>2, <1>3, <1>4, <1>5, <1>6, JobGoes, Unlocked DEF At, Done
  <2>2. \A f \in Frames : Loaded(f)' <=> Loaded(f)
    BY Zenon, <1>9, <2>1, OnlyLoaded
  <2>3. OwedOK' /\ StoredOK'
    BY Zenon, <1>2, <1>9, <1>a, <2>2, OwedSame, StoredSame DEF Kept
  <2>4. CASE k_mutex_unlock(u)
    BY <1>5, <1>6, <2>3, <2>4, Unlocked DEF JobOK, At, Done
  <2>5. CASE free # {} /\ Goes(u, "load", first)
    <3>1. job'[u].at = "load" /\ job'[u].buf = first
      BY Zenon, <1>4, <1>5, <1>6, <2>5, JobGoes
    <3>2. first \notin chip'.txreq /\ (seen' = "none" => first = 0)
      BY Zenon, <1>1, <1>2, <1>4, <1>a, <2>5
    <3>3. job'[u].at # "rts" /\ job'[u].at # "read"
      BY <3>1
    <3> QED BY Zenon, <2>3, <3>1, <3>2, <3>3 DEF JobOK, At
  <2> QED BY Zenon, <1>3, <2>4, <2>5
<1> QED BY <1>2, <1>6, <1>7, <1>8, <1>9, <1>a, UserStep

LEMMA CountIs ==
  ASSUME NEW h \in [Frames -> Int], NEW f, NEW n \in Int
  PROVE  /\ Count(h, f, n) \in [Frames -> Int]
         /\ seen # "reentry" =>
              \A g \in Frames : Count(h, f, n)[g] = h[g] + (IF g = f THEN n ELSE 0)
<1>1. CASE seen = "reentry" \/ f \notin Frames
  BY <1>1 DEF Count
<1>2. CASE f \in Frames /\ seen # "reentry"
  <2>1. Count(h, f, n) = [h EXCEPT ![f] = h[f] + n]
    BY Zenon, <1>2 DEF Count
  <2> QED BY <1>2, <2>1
<1> QED BY Zenon, <1>1, <1>2

LEMMA LoadTxInv ==
  ASSUME McpInv, NEW u \in CanUsers, LoadTx(u)
  PROVE  McpInv'
<1> DEFINE f0 == job[u].frame
           to == Loads(MCP_LOAD_TX_AT(job[u].buf))
<1>1. JobType /\ ChipType /\ HistoryType /\ f0 \in Frames /\ job[u].buf \in 0 .. 2
  BY Zenon DEF McpInv, LoadTx, At, JobType, Job
<1>2. /\ At(u, "send", "load") /\ Step(u, "rts") /\ owner' = owner
      /\ owed' = Count(owed, f0, 1) /\ stored' = stored /\ seen' = seen
  BY Zenon DEF LoadTx
<1>3. PICK taken \in SUBSET to :
        /\ to \ taken \subseteq chip.txreq
        /\ chip' = [chip EXCEPT !.tx = [b \in 0 .. 2 |-> IF b \in taken THEN f0 ELSE chip.tx[b]]]
  BY Zenon DEF LoadTx
<1>4. to \subseteq {0} /\ (job[u].buf = 0 => 0 \in to)
  BY <1>1 DEF Loads, MCP_LOAD_TX_AT
<1> HIDE DEF to
<1>5. job[u].at \in Steps /\ "rts" \in Steps /\ "load" # "rts"
  BY <1>2 DEF At, Steps
<1>6. Goes(u, "rts", job[u].buf)
  BY Zenon, <1>1, <1>2, StepGoes
<1>7. /\ job'[u].at = "rts" /\ job'[u].fn = "send" /\ job'[u].frame = f0
      /\ job'[u].buf = job[u].buf
  BY Zenon, <1>1, <1>2, <1>5, <1>6, JobGoes DEF At
<1>8. /\ chip'.mode = chip.mode /\ chip'.txreq = chip.txreq
      /\ chip'.rxif = chip.rxif /\ chip'.rx = chip.rx
      /\ chip'.tx = [b \in 0 .. 2 |-> IF b \in taken THEN f0 ELSE chip.tx[b]]
      /\ ChipType'
  BY <1>1, <1>3, <1>4 DEF ChipType, Chip, Frame
<1>9. chip'.tx[0] = IF 0 \in taken THEN f0 ELSE chip.tx[0]
  BY <1>8
<1>10. HistoryType'
  BY <1>1, <1>2, CountIs DEF HistoryType
<1>11. ASSUME seen # "reentry", Kept, Only(u) PROVE JobOK(u)' /\ OwedOK' /\ StoredOK'
  <2>1. /\ job[u].buf = 0 => 0 \notin chip.txreq
        /\ seen = "none" => job[u].buf = 0
    BY Zenon, <1>2, <1>11 DEF Kept, JobOK
  <2>2. /\ owed \in [Frames -> Int] /\ \A f \in Frames : owed[f] >= 0
        /\ \A f \in Frames : owed'[f] = owed[f] + (IF f = f0 THEN 1 ELSE 0)
    BY <1>1, <1>2, <1>11, CountIs DEF HistoryType, Kept, OwedOK
  <2>3. job[u].buf = 0 => chip'.tx[0] = f0
    BY Zenon, <1>3, <1>4, <1>9, <2>1
  <2>4. \A f \in Frames : owed'[f] >= owed[f] /\ owed'[f] >= 0
    BY <2>2
  <2>5. owed'[f0] >= 1
    BY <1>1, <2>2
  <2>6. JobOK(u)'
    <3>1. ~ At(u, "recv", "read")'
      BY <1>7 DEF At
    <3> QED BY Zenon, <1>2, <1>7, <1>8, <2>1, <2>3, <2>5, <3>1 DEF JobOK
  <2>7. 0 \in chip'.txreq => chip'.tx[0] \in Frames /\ owed'[chip'.tx[0]] >= 1
    <3>1. CASE chip'.tx[0] = f0
      BY Zenon, <1>1, <2>5, <3>1
    <3>2. CASE chip'.tx[0] = chip.tx[0]
      <4>1. 0 \in chip.txreq => chip.tx[0] \in Frames /\ owed[chip.tx[0]] >= 1
        BY Zenon, <1>11 DEF Kept, OwedOK
      <4> QED BY <1>8, <2>2, <2>4, <3>2, <4>1
    <3> QED BY Zenon, <1>9, <3>1, <3>2
  <2>8. ASSUME seen' = "none", NEW f \in Frames
        PROVE  owed'[f] = IF Waits(f)' \/ Loaded(f)' THEN 1 ELSE 0
    <3>1. ~ Waits(f) /\ ~ Waits(f)'
      BY Zenon, <1>2, <1>8, <2>1, <2>8 DEF Waits
    <3>2. ~ Loaded(f) /\ (Loaded(f)' <=> f = f0)
      BY Zenon, <1>2, <1>5, <1>7, <1>11, OnlyLoaded DEF At
    <3>3. owed[f] = 0
      BY Zenon, <1>2, <1>11, <2>8, <3>1, <3>2 DEF Kept, OwedOK
    <3> QED BY <2>2, <3>1, <3>2, <3>3
  <2>9. OwedOK'
    BY Zenon, <2>4, <2>7, <2>8 DEF OwedOK
  <2> QED BY Zenon, <1>2, <1>8, <1>11, <2>6, <2>9, StoredSame DEF Kept
<1>12. GoesOn(u)
  BY Zenon, <1>1, <1>5, <1>6 DEF GoesOn
<1> QED BY <1>2, <1>5, <1>8, <1>10, <1>11, <1>12, UserStep

LEMMA start_transmitInv ==
  ASSUME McpInv, NEW u \in CanUsers, start_transmit(u)
  PROVE  McpInv'
<1> DEFINE f0 == job[u].frame
<1>1. JobType /\ ChipType /\ HistoryType /\ f0 \in Frames /\ job[u].buf \in 0 .. 2
  BY Zenon DEF McpInv, start_transmit, At, JobType, Job
<1>2. /\ At(u, "send", "rts") /\ k_mutex_unlock(u)
      /\ owed' = owed /\ stored' = stored /\ seen' = seen
      /\ chip' = [chip EXCEPT !.txreq = @ \cup {job[u].buf}]
  BY Zenon DEF start_transmit
<1>3. job[u].at \in Steps
  BY <1>2 DEF At, Steps
<1>4. job'[u] = Done
  BY Zenon, <1>1, <1>2, <1>3, Unlocked
<1>5. /\ chip'.mode = chip.mode /\ chip'.txreq = chip.txreq \cup {job[u].buf}
      /\ chip'.tx = chip.tx /\ chip'.rxif = chip.rxif /\ chip'.rx = chip.rx
      /\ ChipType'
  BY <1>1, <1>2 DEF ChipType, Chip
<1>6. HistoryType'
  BY Zenon, <1>1, <1>2 DEF HistoryType
<1>7. ASSUME seen # "reentry", Kept, Only(u) PROVE JobOK(u)' /\ OwedOK' /\ StoredOK'
  <2>1. /\ job[u].buf = 0 => 0 \notin chip.txreq /\ chip.tx[0] = f0 /\ owed[f0] >= 1
        /\ seen = "none" => job[u].buf = 0
    BY Zenon, <1>2, <1>7 DEF Kept, JobOK
  <2>2. ~ At(u, "send", "rts")' /\ JobOK(u)'
    BY <1>4 DEF JobOK, At, Done
  <2>3. 0 \in chip'.txreq => chip'.tx[0] \in Frames /\ owed'[chip'.tx[0]] >= 1
    BY Zenon, <1>1, <1>2, <1>5, <1>7, <2>1 DEF Kept, OwedOK
  <2>4. ASSUME seen' = "none", NEW f \in Frames
        PROVE  owed'[f] = IF Waits(f)' \/ Loaded(f)' THEN 1 ELSE 0
    <3>1. ~ Waits(f) /\ (Waits(f)' <=> f = f0)
      BY Zenon, <1>2, <1>5, <2>1, <2>4 DEF Waits
    <3>2. ~ Loaded(f)' /\ (Loaded(f) <=> f = f0)
      BY Zenon, <1>2, <1>7, <2>2, OnlyLoaded DEF At
    <3> QED BY Zenon, <1>2, <1>7, <2>4, <3>1, <3>2 DEF Kept, OwedOK
  <2>5. OwedOK'
    BY Zenon, <1>2, <1>7, <2>3, <2>4 DEF OwedOK, Kept
  <2> QED BY Zenon, <1>2, <1>5, <1>7, <2>2, <2>5, StoredSame DEF Kept
<1> QED BY <1>2, <1>3, <1>5, <1>6, <1>7, UserStep

\* The steps of the calls that send nothing.
LEMMA SendsNothing ==
  ASSUME JobType, NEW u \in CanUsers, job[u].fn # "send", job[u].at \in Steps,
         GoesOn(u) \/ k_mutex_unlock(u), Only(u)
  PROVE  job'[u].fn # "send" /\ \A f \in Frames : Loaded(f)' <=> Loaded(f)
<1>1. job'[u].fn # "send"
  <2>1. CASE GoesOn(u)
    <3>1. PICK at \in Steps, buf \in 0 .. 2 : Goes(u, at, buf)
      BY Zenon, <2>1 DEF GoesOn
    <3> QED BY Zenon, <3>1, JobGoes
  <2>2. CASE k_mutex_unlock(u)
    BY <2>2, Unlocked DEF Done
  <2> QED BY Zenon, <2>1, <2>2
<1> QED BY Zenon, <1>1, OnlyLoaded DEF At

LEMMA StoredRemoved ==
  ASSUME ChipType, HistoryType, StoredOK, seen # "reentry", NEW b \in chip.rxif,
         chip'.rxif = chip.rxif \ {b}, chip'.rx = chip.rx,
         stored' = Count(stored, chip.rx[b], -1)
  PROVE  StoredOK'
<1>1. chip.rxif \in SUBSET (0 .. 1) /\ stored \in [Frames -> Int]
  BY Zenon DEF ChipType, Chip, HistoryType
<1>2. ASSUME NEW f \in Frames PROVE stored'[f] = Holding(chip'.rxif, chip'.rx, f)
  <2>1. stored'[f] = stored[f] + (IF f = chip.rx[b] THEN -1 ELSE 0)
    BY <1>1, CountIs
  <2>2. /\ Holding(chip'.rxif, chip'.rx, f)
             = Holding(chip.rxif, chip.rx, f) - (IF chip.rx[b] = f THEN 1 ELSE 0)
        /\ stored[f] = Holding(chip.rxif, chip.rx, f)
    <3>1. 1 \in Nat
      OBVIOUS
    <3>2. Holding(chip.rxif \ {b}, chip.rx, f)
            = Holding(chip.rxif, chip.rx, f) - (IF chip.rx[b] = f THEN 1 ELSE 0)
      BY <1>1, <3>1, HoldingRemove
    <3> QED BY Zenon, <3>2 DEF StoredOK
  <2> QED BY <1>1, <2>1, <2>2
<1> QED BY Zenon, <1>2 DEF StoredOK

LEMMA ReadRxStatusInv ==
  ASSUME McpInv, NEW u \in CanUsers, ReadRxStatus(u)
  PROVE  McpInv'
<1> DEFINE b == IF 0 \in chip.rxif THEN 0 ELSE 1
<1>1. JobType /\ ChipType /\ HistoryType
  BY Zenon DEF McpInv
<1>2. At(u, "recv", "begin") /\ chip' = chip /\ owed' = owed /\ stored' = stored /\ seen' = seen
  BY Zenon DEF ReadRxStatus
<1>3. \/ k_mutex_unlock(u)
      \/ Goes(u, "read", b) /\ chip.rxif # {}
  BY Zenon DEF ReadRxStatus, Goes
<1>4. b \in 0 .. 2 /\ (chip.rxif # {} => b \in chip.rxif)
  BY <1>1 DEF ChipType, Chip
<1> HIDE DEF b
<1>5. job[u].at \in Steps /\ "read" \in Steps /\ job[u].fn # "send"
  BY <1>2 DEF At, Steps
<1>6. GoesOn(u) \/ k_mutex_unlock(u)
  BY Zenon, <1>3, <1>4, <1>5 DEF GoesOn
<1>7. ChipType' /\ HistoryType'
  BY Zenon, <1>1, <1>2 DEF ChipType, HistoryType
<1>8. ASSUME seen # "reentry", Kept, Only(u) PROVE JobOK(u)' /\ OwedOK' /\ StoredOK'
  <2>1. job'[u].fn # "send" /\ OwedOK' /\ StoredOK'
    BY Zenon, <1>1, <1>2, <1>5, <1>6, <1>8, SendsNothing, OwedSame, StoredSame DEF Kept
  <2>2. At(u, "recv", "read")' => job'[u].buf \in chip'.rxif
    <3>1. CASE k_mutex_unlock(u)
      BY <1>1, <1>5, <3>1, Unlocked DEF At, Done
    <3>2. CASE Goes(u, "read", b) /\ chip.rxif # {}
      <4>1. job'[u].buf = b
        BY Zenon, <1>1, <1>4, <1>5, <3>2, JobGoes
      <4> QED BY Zenon, <1>2, <1>4, <3>2, <4>1
    <3> QED BY Zenon, <1>3, <3>1, <3>2
  <2> QED BY Zenon, <2>1, <2>2 DEF JobOK, At
<1> QED BY <1>2, <1>5, <1>6, <1>7, <1>8, UserStep

LEMMA read_rx_bufInv ==
  ASSUME McpInv, NEW u \in CanUsers, read_rx_buf(u)
  PROVE  McpInv'
<1> DEFINE b == job[u].buf
<1>1. JobType /\ ChipType /\ HistoryType
  BY Zenon DEF McpInv
<1>2. /\ At(u, "recv", "read") /\ Step(u, "clear") /\ owner' = owner
      /\ owed' = owed /\ stored' = Count(stored, chip.rx[b], -1) /\ seen' = seen
      /\ chip' = [chip EXCEPT !.rxif = @ \ {b}]
  BY Zenon DEF read_rx_buf
<1>3. job[u].at \in Steps /\ "clear" \in Steps /\ job[u].fn # "send" /\ "clear" # "read"
  BY <1>2 DEF At, Steps
<1>4. Goes(u, "clear", b) /\ b \in 0 .. 2
  BY Zenon, <1>1, <1>2, StepGoes
<1>5. GoesOn(u)
  BY Zenon, <1>3, <1>4 DEF GoesOn
<1>6. /\ chip'.mode = chip.mode /\ chip'.txreq = chip.txreq /\ chip'.tx = chip.tx
      /\ chip'.rxif = chip.rxif \ {b} /\ chip'.rx = chip.rx
      /\ ChipType'
  BY <1>1, <1>2 DEF ChipType, Chip
<1>7. HistoryType'
  BY <1>1, <1>2, CountIs DEF HistoryType
<1>8. ASSUME seen # "reentry", Kept, Only(u) PROVE JobOK(u)' /\ OwedOK' /\ StoredOK'
  <2>1. b \in chip.rxif
    BY Zenon, <1>2, <1>8 DEF Kept, JobOK
  <2>2. job'[u].fn # "send" /\ OwedOK'
    BY Zenon, <1>1, <1>2, <1>3, <1>5, <1>6, <1>8, SendsNothing, OwedSame DEF Kept
  <2>3. job'[u].at = "clear"
    BY Zenon, <1>1, <1>3, <1>4, JobGoes
  <2>4. StoredOK'
    BY Zenon, <1>1, <1>2, <1>6, <1>8, <2>1, StoredRemoved DEF Kept
  <2> QED BY Zenon, <1>3, <2>2, <2>3, <2>4 DEF JobOK, At
<1> QED BY <1>2, <1>3, <1>5, <1>6, <1>7, <1>8, UserStep

LEMMA ClearRxInv ==
  ASSUME McpInv, NEW u \in CanUsers, ClearRx(u)
  PROVE  McpInv'
<1> DEFINE b == job[u].buf
<1>1. JobType /\ ChipType /\ HistoryType
  BY Zenon DEF McpInv
<1>2. /\ At(u, "recv", "clear") /\ k_mutex_unlock(u) /\ owed' = owed /\ seen' = seen
      /\ stored' = IF b \in chip.rxif THEN Count(stored, chip.rx[b], -1) ELSE stored
      /\ chip' = [chip EXCEPT !.rxif = @ \ {b}]
  BY Zenon DEF ClearRx
<1>3. job[u].at \in Steps /\ job[u].fn # "send"
  BY <1>2 DEF At, Steps
<1>4. job'[u] = Done
  BY Zenon, <1>1, <1>2, <1>3, Unlocked
<1>5. /\ chip'.mode = chip.mode /\ chip'.txreq = chip.txreq /\ chip'.tx = chip.tx
      /\ chip'.rxif = chip.rxif \ {b} /\ chip'.rx = chip.rx
      /\ ChipType'
  BY <1>1, <1>2 DEF ChipType, Chip
<1>6. HistoryType'
  BY <1>1, <1>2, CountIs DEF HistoryType
<1>7. ASSUME seen # "reentry", Kept, Only(u) PROVE JobOK(u)' /\ OwedOK' /\ StoredOK'
  <2>1. OwedOK'
    <3>1. \A f \in Frames : Loaded(f)' <=> Loaded(f)
      BY Zenon, <1>1, <1>2, <1>3, <1>7, SendsNothing
    <3>2. OwedOK /\ owed' = owed /\ (seen' = "none" => seen = "none")
      BY Zenon, <1>2, <1>7 DEF Kept
    <3> QED BY Zenon, <1>5, <3>1, <3>2, OwedSame
  <2>2. StoredOK'
    <3>1. CASE b \in chip.rxif
      BY Zenon, <1>1, <1>2, <1>5, <1>7, <3>1, StoredRemoved DEF Kept
    <3>2. CASE b \notin chip.rxif
      <4>1. chip'.rxif = chip.rxif
        BY Zenon, <1>5, <3>2
      <4>2. stored' = stored /\ StoredOK
        BY Zenon, <1>2, <1>7, <3>2 DEF Kept
      <4> QED BY Zenon, <1>5, <4>1, <4>2, StoredSame
    <3> QED BY Zenon, <3>1, <3>2
  <2>3. JobOK(u)'
    BY <1>4 DEF JobOK, At, Done
  <2> QED BY Zenon, <2>1, <2>2, <2>3
<1> QED BY <1>2, <1>3, <1>5, <1>6, <1>7, UserStep

\* EnterConfig, write_registers and EnterNormal change the mode at most.
LEMMA FilterInv ==
  ASSUME McpInv, NEW u \in CanUsers, mcp2515_set_filter(u)
  PROVE  McpInv'
<1>1. JobType /\ ChipType /\ HistoryType
  BY Zenon DEF McpInv
<1>2. /\ job[u].fn = "filter" /\ job[u].at \in Steps
      /\ owed' = owed /\ stored' = stored /\ seen' = seen
      /\ \E mode \in {chip.mode, "config", "normal"} : chip' = [chip EXCEPT !.mode = mode]
  <2>1. chip = [chip EXCEPT !.mode = chip.mode]
    BY <1>1 DEF ChipType, Chip
  <2>2. {"begin", "write", "normal"} \subseteq Steps
    BY DEF Steps
  <2> QED BY Zenon, <2>1, <2>2
          DEF mcp2515_set_filter, EnterConfig, write_registers, EnterNormal, At
<1>3. /\ chip'.mode \in {chip.mode, "config", "normal"}
      /\ chip'.txreq = chip.txreq /\ chip'.tx = chip.tx
      /\ chip'.rxif = chip.rxif /\ chip'.rx = chip.rx
      /\ ChipType'
  BY <1>1, <1>2 DEF ChipType, Chip
<1>4. HistoryType'
  BY Zenon, <1>1, <1>2 DEF HistoryType
<1>5. GoesOn(u) \/ k_mutex_unlock(u)
  <2>1. "write" \in Steps /\ "normal" \in Steps
    BY DEF Steps
  <2> QED BY Zenon, <1>1, <2>1, StepGoes
          DEF mcp2515_set_filter, EnterConfig, write_registers, EnterNormal, GoesOn
<1>6. ASSUME seen # "reentry", Kept, Only(u) PROVE JobOK(u)' /\ OwedOK' /\ StoredOK'
  <2>1. job[u].fn # "send" /\ Done.fn \notin {"send", "recv"}
    BY <1>2 DEF Done
  <2>2. job'[u].fn # "send" /\ OwedOK' /\ StoredOK'
    BY Zenon, <1>1, <1>2, <1>3, <1>5, <1>6, <2>1, SendsNothing, OwedSame, StoredSame DEF Kept
  <2>3. job'[u].fn # "recv"
    <3>1. CASE GoesOn(u)
      <4>1. PICK at \in Steps, buf \in 0 .. 2 : Goes(u, at, buf)
        BY Zenon, <3>1 DEF GoesOn
      <4>2. job'[u].fn = "filter"
        BY Zenon, <1>1, <1>2, <4>1, JobGoes
      <4> QED BY <4>2
    <3>2. CASE k_mutex_unlock(u)
      BY Zenon, <1>1, <1>2, <2>1, <3>2, Unlocked
    <3> QED BY Zenon, <1>5, <3>1, <3>2
  <2> QED BY Zenon, <2>2, <2>3 DEF JobOK, At
<1> QED BY <1>2, <1>3, <1>4, <1>5, <1>6, UserStep

\* A step of u before it is in the driver, or at its begin.
LEMMA OuterStep ==
  ASSUME McpInv, JobType', HistoryType', chip' = chip, chip.mode # "off",
         NEW u \in CanUsers, \A v \in CanUsers : v # u => job'[v] = job[v],
         job[u].at \notin {"load", "rts", "read"}, job'[u].at \notin {"load", "rts", "read"},
         seen' # "reentry" => /\ seen' = seen /\ owed' = owed /\ stored' = stored
                              /\ MutexOK => MutexOK'
  PROVE  McpInv'
<1>1. ChipType' /\ OffOK'
  BY Zenon DEF McpInv, ChipType, OffOK
<1>2. ASSUME seen' # "reentry" PROVE Kept'
  <2>1. Kept /\ MutexOK' /\ seen' = seen /\ owed' = owed /\ stored' = stored
    BY Zenon, <1>2 DEF McpInv, Kept
  <2>2. \A f \in Frames : Loaded(f)' <=> Loaded(f)
    BY <2>1 DEF Loaded, At
  <2>3. OwedOK' /\ StoredOK'
    BY Zenon, <2>1, <2>2, OwedSame, StoredSame DEF Kept
  <2>4. ASSUME NEW v \in CanUsers PROVE JobOK(v)'
    <3>1. CASE v = u
      BY <3>1 DEF JobOK, At
    <3>2. CASE v # u
      <4>1. JobOK(v) /\ job'[v] = job[v]
        BY Zenon, <2>1, <3>2 DEF Kept
      <4> QED BY Zenon, <2>1, <4>1 DEF JobOK, At
    <3> QED BY Zenon, <3>1, <3>2
  <2> QED BY Zenon, <2>1, <2>3, <2>4 DEF Kept
<1> QED BY Zenon, <1>1, <1>2 DEF McpInv

LEMMA JobStep ==
  ASSUME JobType, NEW u \in CanUsers, NEW at \in {"begin", "wait"}, Step(u, at),
         owner' \in CanUsers \cup {NoUser}
  PROVE  /\ job'[u].at = at /\ \A v \in CanUsers : v # u => job'[v] = job[v]
         /\ JobType'
<1>1. job[u] \in Job /\ job \in [CanUsers -> Job]
  BY Zenon DEF JobType
<1>2. /\ job'[u] = [job[u] EXCEPT !.at = at]
      /\ \A v \in CanUsers : v # u => job'[v] = job[v]
  BY Zenon, <1>1 DEF Step
<1>3. job'[u].at = at /\ job'[u] \in Job /\ job'[u].fn = job[u].fn /\ job'[u].frame = job[u].frame
  BY <1>1, <1>2 DEF Job, Steps
<1>4. job' \in [CanUsers -> Job]
  BY Zenon, <1>1, <1>2, <1>3 DEF Step
<1> QED BY Zenon, <1>2, <1>3, <1>4 DEF JobType

LEMMA k_mutex_lockInv ==
  ASSUME McpInv, NEW u \in CanUsers, k_mutex_lock(u)
  PROVE  McpInv'
<1> DEFINE at == IF owner \in {NoUser, u} THEN "begin" ELSE "wait"
<1>1. JobType /\ HistoryType
  BY Zenon DEF McpInv
<1>2. /\ job[u].at = "lock" /\ Step(u, at) /\ chip' = chip
      /\ owner' = IF owner = NoUser THEN u ELSE owner
      /\ owner = u => seen' = "reentry" /\ owed' = None /\ stored' = None
      /\ owner # u => seen' = seen /\ owed' = owed /\ stored' = stored
  BY Zenon DEF k_mutex_lock
<1>3. /\ job'[u].at = at /\ \A v \in CanUsers : v # u => job'[v] = job[v]
      /\ JobType'
  BY Zenon, <1>1, <1>2, JobStep DEF JobType
<1>4. HistoryType'
  <2>1. CASE owner = u
    BY <1>2, <2>1 DEF HistoryType, None
  <2>2. CASE owner # u
    BY Zenon, <1>1, <1>2, <2>2 DEF HistoryType
  <2> QED BY Zenon, <2>1, <2>2
<1>5. chip.mode # "off"
  <2>1. job[u] # Done
    BY <1>2 DEF Done
  <2> QED BY Zenon, <2>1 DEF McpInv, OffOK, Idle
<1>6. ASSUME MutexOK, owner # u PROVE MutexOK'
  <2>1. u # NoUser
    BY Zenon, McpAssumption
  <2>2. CASE owner = NoUser
    <3>1. \A v \in CanUsers : v # u => job'[v].at \notin Steps \cup {"woken"}
      BY Zenon, <1>3, <1>6, <2>2 DEF MutexOK, InCall
    <3>2. owner' = u
      BY Zenon, <1>2, <2>2
    <3> QED BY Zenon, <2>1, <3>1, <3>2 DEF MutexOK, InCall
  <2>3. CASE owner # NoUser
    <3>1. job'[u].at = "wait" /\ owner' = owner
      BY Zenon, <1>2, <1>3, <1>6, <2>3
    <3>2. "wait" \notin Steps \cup {"woken"}
      BY DEF Steps
    <3> QED BY Zenon, <1>3, <1>6, <3>1, <3>2 DEF MutexOK, InCall
  <2> QED BY Zenon, <2>2, <2>3
<1>7. job[u].at \notin {"load", "rts", "read"} /\ job'[u].at \notin {"load", "rts", "read"}
  BY <1>2, <1>3
<1>8. seen' # "reentry" => /\ seen' = seen /\ owed' = owed /\ stored' = stored
                           /\ MutexOK => MutexOK'
  BY Zenon, <1>2, <1>6
<1> QED BY Zenon, <1>2, <1>3, <1>4, <1>5, <1>7, <1>8, OuterStep

LEMMA k_mutex_lock_returnInv ==
  ASSUME McpInv, NEW u \in CanUsers, k_mutex_lock_return(u)
  PROVE  McpInv'
<1>1. JobType /\ HistoryType
  BY Zenon DEF McpInv
<1>2. /\ job[u].at = "woken" /\ Step(u, "begin") /\ chip' = chip /\ owner' = u
      /\ seen' = seen /\ owed' = owed /\ stored' = stored
  BY Zenon DEF k_mutex_lock_return
<1>3. /\ job'[u].at = "begin" /\ \A v \in CanUsers : v # u => job'[v] = job[v]
      /\ JobType'
  BY Zenon, <1>1, <1>2, JobStep
<1>4. HistoryType'
  BY Zenon, <1>1, <1>2 DEF HistoryType
<1>5. chip.mode # "off"
  <2>1. job[u] # Done
    BY <1>2 DEF Done
  <2> QED BY Zenon, <2>1 DEF McpInv, OffOK, Idle
<1>6. ASSUME MutexOK PROVE MutexOK'
  <2>1. \A v \in CanUsers : v # u => job'[v].at \notin Steps \cup {"woken"}
    BY Zenon, <1>2, <1>3, <1>6 DEF MutexOK, InCall
  <2> QED BY Zenon, <1>2, <2>1, McpAssumption DEF MutexOK, InCall
<1>7. job[u].at \notin {"load", "rts", "read"} /\ job'[u].at \notin {"load", "rts", "read"}
  BY <1>2, <1>3
<1> QED BY Zenon, <1>2, <1>3, <1>4, <1>5, <1>6, <1>7, OuterStep

LEMMA McpCallInv ==
  ASSUME McpInv, NEW u \in CanUsers, NEW fn \in {"send", "recv", "filter"}, NEW f \in Frame,
         fn = "send" => f \in Frames, McpCall(u, fn, f)
  PROVE  McpInv'
<1> DEFINE call == [fn |-> fn, at |-> "lock", buf |-> 0, frame |-> f]
<1>1. JobType /\ HistoryType
  BY Zenon DEF McpInv
<1>2. /\ job[u] = Done /\ chip.mode # "off" /\ chip' = chip /\ owner' = owner
      /\ seen' = seen /\ owed' = owed /\ stored' = stored
      /\ job' = [job EXCEPT ![u] = call]
  BY Zenon DEF McpCall
<1>3. call \in Job /\ call.at = "lock" /\ call.fn = fn /\ call.frame = f
  BY DEF Job
<1> HIDE DEF call
<1>4. job'[u] = call /\ \A v \in CanUsers : v # u => job'[v] = job[v]
  BY Zenon, <1>1, <1>2 DEF JobType
<1>5. JobType'
  <2>1. job' \in [CanUsers -> Job]
    BY Zenon, <1>1, <1>2, <1>3 DEF JobType
  <2> QED BY Zenon, <1>1, <1>2, <1>3, <1>4, <2>1 DEF JobType
<1>6. HistoryType'
  BY Zenon, <1>1, <1>2 DEF HistoryType
<1>7. /\ job[u].at \notin {"load", "rts", "read"} /\ job'[u].at \notin {"load", "rts", "read"}
      /\ job'[u].at \notin Steps \cup {"woken"}
  BY <1>2, <1>3, <1>4 DEF Done, Steps
<1>8. ASSUME MutexOK PROVE MutexOK'
  BY Zenon, <1>2, <1>4, <1>7, <1>8 DEF MutexOK, InCall
<1> QED BY Zenon, <1>2, <1>4, <1>5, <1>6, <1>7, <1>8, OuterStep

LEMMA InitDeinitInv ==
  ASSUME McpInv, mcp2515_init \/ mcp2515_deinit
  PROVE  McpInv'
<1>1. JobType'
  BY Zenon DEF McpInv, JobType, mcp2515_init, mcp2515_deinit
<1>2. Idle("off")' \/ Idle("normal")'
  <2>1. CASE mcp2515_init
    BY Zenon, <2>1 DEF McpInv, OffOK, Idle, mcp2515_init
  <2>2. CASE mcp2515_deinit
    BY Zenon, <2>2 DEF Idle, mcp2515_deinit
  <2> QED BY Zenon, <2>1, <2>2
<1> QED BY Zenon, <1>1, <1>2, IdleNext

\* The chip sends what buffer 0 holds; the buffers 1 and 2 hold no frame.
LEMMA TransmitsInv ==
  ASSUME McpInv, NEW b \in 0 .. 2, Transmits(b)
  PROVE  McpInv'
<1>1. JobType /\ ChipType /\ HistoryType
  BY Zenon DEF McpInv
<1>2. /\ chip.mode = "normal" /\ b \in chip.txreq
      /\ owner' = owner /\ job' = job /\ stored' = stored /\ seen' = seen
      /\ owed' = Count(owed, chip.tx[b], -1)
      /\ chip' = [chip EXCEPT !.txreq = @ \ {b}]
  BY Zenon DEF Transmits
<1>3. /\ chip'.mode = "normal" /\ chip'.txreq = chip.txreq \ {b} /\ chip'.tx = chip.tx
      /\ chip'.rxif = chip.rxif /\ chip'.rx = chip.rx
      /\ ChipType'
  BY <1>1, <1>2 DEF ChipType, Chip
<1>4. JobType' /\ HistoryType' /\ OffOK'
  <2>1. HistoryType'
    BY <1>1, <1>2, CountIs DEF HistoryType
  <2>2. OffOK'
    BY <1>3 DEF OffOK
  <2> QED BY Zenon, <1>1, <1>2, <2>1, <2>2 DEF JobType
<1>5. ASSUME seen' # "reentry" PROVE Kept'
  <2>1. Kept /\ seen # "reentry"
    BY Zenon, <1>2, <1>5 DEF McpInv
  <2>2. /\ MutexOK' /\ \A f \in Frames : Loaded(f)' <=> Loaded(f)
        /\ StoredOK'
    BY Zenon, <1>2, <1>3, <2>1, StoredSame DEF Kept, MutexOK, InCall, Loaded, At
  <2>3. \A f \in Frames : owed[f] \in Int /\ owed[f] >= 0
    BY <1>1, <2>1 DEF HistoryType, Kept, OwedOK
  <2>4. CASE b # 0
    <3>1. chip.tx[b] \notin Frames
      BY <1>1, <2>4, McpAssumption DEF ChipType
    <3>2. owed' = owed /\ (0 \in chip'.txreq <=> 0 \in chip.txreq)
      BY Zenon, <1>2, <1>3, <2>4, <3>1 DEF Count
    <3>3. \A f \in Frames : Waits(f)' <=> Waits(f)
      BY Zenon, <1>3, <3>2 DEF Waits
    <3>4. OwedOK'
      BY Zenon, <1>2, <1>3, <2>1, <2>2, <3>2, <3>3 DEF OwedOK, Kept
    <3>5. \A u \in CanUsers : JobOK(u)'
      BY Zenon, <1>2, <1>3, <2>1, <3>2 DEF JobOK, At, Kept
    <3> QED BY Zenon, <2>2, <3>4, <3>5 DEF Kept
  <2>5. CASE b = 0
    <3>1. 0 \in chip.txreq /\ 0 \notin chip'.txreq /\ chip.tx[0] \in Frames /\ owed[chip.tx[0]] >= 1
      BY Zenon, <1>2, <1>3, <2>1, <2>5 DEF Kept, OwedOK
    <3>2. \A f \in Frames : owed'[f] = owed[f] + (IF f = chip.tx[0] THEN -1 ELSE 0)
      BY <1>1, <1>2, <2>1, <2>5, CountIs DEF HistoryType
    <3>3. \A u \in CanUsers :
            At(u, "send", "load") \/ At(u, "send", "rts") => job[u].buf # 0 /\ seen # "none"
      BY Zenon, <2>1, <3>1 DEF Kept, JobOK
    <3>4. \A u \in CanUsers : JobOK(u)'
      BY Zenon, <1>2, <1>3, <2>1, <3>1, <3>3 DEF JobOK, At, Kept
    <3>5. \A f \in Frames : owed'[f] >= 0
      BY <2>3, <3>1, <3>2
    <3>6. ASSUME seen' = "none", NEW f \in Frames
          PROVE  owed'[f] = IF Waits(f)' \/ Loaded(f)' THEN 1 ELSE 0
      <4>1. ~ Loaded(f) /\ ~ Loaded(f)' /\ ~ Waits(f)' /\ (Waits(f) <=> f = chip.tx[0])
        BY Zenon, <1>2, <2>2, <3>1, <3>3, <3>6 DEF Loaded, Waits
      <4>2. owed[f] = IF f = chip.tx[0] THEN 1 ELSE 0
        BY Zenon, <1>2, <2>1, <3>6, <4>1 DEF Kept, OwedOK
      <4> QED BY <3>2, <4>1, <4>2
    <3>7. OwedOK'
      BY Zenon, <3>1, <3>5, <3>6 DEF OwedOK
    <3> QED BY Zenon, <2>2, <3>4, <3>7 DEF Kept
  <2> QED BY Zenon, <2>4, <2>5
<1> QED BY Zenon, <1>3, <1>4, <1>5 DEF McpInv

LEMMA ReceivesInv ==
  ASSUME McpInv, NEW f0 \in Arriving, Receives(f0)
  PROVE  McpInv'
<1> DEFINE b == IF 0 \in chip.rxif THEN 1 ELSE 0
<1>1. JobType /\ ChipType /\ HistoryType
  BY Zenon DEF McpInv
<1>2. /\ chip.mode = "normal" /\ b \notin chip.rxif
      /\ owner' = owner /\ job' = job /\ owed' = owed /\ seen' = seen
      /\ stored' = Count(stored, f0, 1)
      /\ chip' = [chip EXCEPT !.rxif = @ \cup {b}, !.rx[b] = f0]
  BY Zenon DEF Receives
<1>3. b \in 0 .. 1 /\ f0 \in Frames
  BY McpAssumption
<1> HIDE DEF b
<1>4. /\ chip'.mode = "normal" /\ chip'.txreq = chip.txreq /\ chip'.tx = chip.tx
      /\ chip'.rxif = chip.rxif \cup {b} /\ chip'.rx = [chip.rx EXCEPT ![b] = f0]
      /\ ChipType'
  BY ZenonT(20), <1>1, <1>2, <1>3 DEF ChipType, Chip, Frame
<1>5. JobType' /\ HistoryType' /\ OffOK'
  <2>1. HistoryType'
    BY <1>1, <1>2, CountIs DEF HistoryType
  <2>2. OffOK'
    BY <1>4 DEF OffOK
  <2> QED BY Zenon, <1>1, <1>2, <2>1, <2>2 DEF JobType
<1>6. ASSUME seen' # "reentry" PROVE Kept'
  <2>1. Kept /\ seen # "reentry"
    BY Zenon, <1>2, <1>6 DEF McpInv
  <2>2. MutexOK' /\ \A f \in Frames : Loaded(f)' <=> Loaded(f)
    BY Zenon, <1>2, <2>1 DEF Kept, MutexOK, InCall, Loaded, At
  <2>3. OwedOK'
    BY Zenon, <1>2, <1>4, <2>1, <2>2, OwedSame DEF Kept
  <2>4. \A u \in CanUsers : JobOK(u)'
    BY Zenon, <1>2, <1>4, <2>1 DEF JobOK, At, Kept
  <2>5. StoredOK'
    <3>1. /\ chip.rxif \in SUBSET (0 .. 1) /\ stored \in [Frames -> Int] /\ 1 \in Nat
          /\ chip.rx \in [0 .. 1 -> Frame]
      BY <1>1 DEF ChipType, Chip, HistoryType
    <3>2. chip'.rx[b] = f0 /\ \A c \in chip.rxif : chip'.rx[c] = chip.rx[c]
      BY Zenon, <1>2, <1>3, <1>4, <3>1
    <3>3. ASSUME NEW f \in Frames PROVE stored'[f] = Holding(chip'.rxif, chip'.rx, f)
      <4>1. stored'[f] = stored[f] + (IF f = f0 THEN 1 ELSE 0)
        BY <1>2, <2>1, <3>1, CountIs
      <4>2. Holding(chip.rxif \cup {b}, chip'.rx, f)
              = Holding(chip.rxif, chip.rx, f) + (IF chip'.rx[b] = f THEN 1 ELSE 0)
        BY <1>2, <1>3, <3>1, <3>2, HoldingAdd
      <4>3. stored[f] = Holding(chip.rxif, chip.rx, f)
        BY Zenon, <2>1 DEF Kept, StoredOK
      <4> QED BY <1>4, <3>1, <3>2, <4>1, <4>2, <4>3
    <3>4. \A c \in chip'.rxif : chip'.rx[c] \in Frames
      BY Zenon, <1>3, <1>4, <2>1, <3>2 DEF Kept, StoredOK
    <3> QED BY Zenon, <3>3, <3>4 DEF StoredOK
  <2> QED BY Zenon, <2>2, <2>3, <2>4, <2>5 DEF Kept
<1> QED BY Zenon, <1>4, <1>5, <1>6 DEF McpInv

LEMMA McpInvariant == McpSpec => []McpInv
<1>1. McpInit => McpInv
  <2> SUFFICES ASSUME McpInit PROVE McpInv
    OBVIOUS
  <2>1. Done \in Job /\ Done.fn = "none"
    BY DEF Done, Job, Frame
  <2>2. "none" # "send"
    OBVIOUS
  <2>3. JobType /\ Idle("off")
    BY Zenon, <2>1, <2>2 DEF McpInit, JobType, Idle
  <2> QED BY Zenon, <2>3, IdleInv
<1>2. McpInv /\ [McpStep \/ McpCalls]_mcpVars => McpInv'
  <2> SUFFICES ASSUME McpInv, [McpStep \/ McpCalls]_mcpVars PROVE McpInv'
    OBVIOUS
  <2>1. CASE McpStep
    BY Zenon, <2>1, k_mutex_lockInv, k_mutex_lock_returnInv, ReadTxStatusInv, LoadTxInv,
       start_transmitInv, ReadRxStatusInv, read_rx_bufInv, ClearRxInv, FilterInv
       DEF McpStep, mcp2515_send, mcp2515_recv
  <2>2. CASE McpCalls
    <3>1. NoFrame \in Frame /\ Frames \subseteq Frame
      BY Zenon DEF Frame
    <3>2. ASSUME NEW u \in CanUsers, NEW fn \in {"recv", "filter"}, McpCall(u, fn, NoFrame)
          PROVE  McpInv'
      <4>1. fn \in {"send", "recv", "filter"} /\ fn # "send"
        OBVIOUS
      <4> QED BY Zenon, <3>1, <3>2, <4>1, McpCallInv
    <3>3. ASSUME NEW u \in CanUsers, NEW f \in Frames, McpCall(u, "send", f) PROVE McpInv'
      BY Zenon, <3>1, <3>3, McpCallInv
    <3> QED BY Zenon, <2>2, <3>2, <3>3, InitDeinitInv, TransmitsInv, ReceivesInv DEF McpCalls
  <2>3. CASE UNCHANGED mcpVars
    <3>1. chip' = chip /\ owner' = owner /\ job' = job /\ owed' = owed /\ stored' = stored /\ seen' = seen
      BY Zenon, <2>3 DEF mcpVars
    <3> QED BY Zenon, <3>1 DEF McpInv, JobType, ChipType, HistoryType, OffOK, Idle, Kept, MutexOK,
               InCall, JobOK, At, OwedOK, Waits, Loaded, StoredOK
  <2> QED BY Zenon, <2>1, <2>2, <2>3
<1> QED BY <1>1, <1>2, PTL DEF McpSpec

\* Until the mutex is locked during a hand-over: while no send found transmit buffer 0
\* busy, the frames that mcp2515_send loaded and that are not on the bus yet are
\* exactly those that wait in a buffer or for their request; and otherwise no frame
\* waits more often than it was loaded.
THEOREM SendsOnce == McpSpec => []SentOnce
<1>1. McpInv => SentOnce
  <2> SUFFICES ASSUME McpInv, seen # "reentry", NEW f \in Frames
               PROVE  LET waiting == {b \in chip.txreq : chip.tx[b] = f}
                          loaded  == {u \in CanUsers : At(u, "send", "rts") /\ job[u].frame = f}
                      IN  /\ Cardinality(waiting) <= owed[f]
                          /\ seen = "none" => owed[f] = Cardinality(waiting) + Cardinality(loaded)
    BY Zenon DEF SentOnce
  <2> DEFINE waiting == {b \in chip.txreq : chip.tx[b] = f}
             loaded  == {u \in CanUsers : At(u, "send", "rts") /\ job[u].frame = f}
  <2>1. Kept /\ ChipType /\ HistoryType
    BY Zenon DEF McpInv
  <2>2. waiting = IF Waits(f) THEN {0} ELSE {}
    <3>1. chip.txreq \subseteq 0 .. 2 /\ chip.tx[1] \notin Frames /\ chip.tx[2] \notin Frames
      BY <2>1, McpAssumption DEF ChipType, Chip
    <3>2. \A b \in waiting : b = 0
      BY <3>1
    <3> QED BY Zenon, <3>2 DEF Waits
  <2>3. Cardinality(waiting) = IF Waits(f) THEN 1 ELSE 0
    BY Zenon, <2>2, FS_EmptySet, FS_Singleton
  <2>4. Cardinality(loaded) = IF Loaded(f) THEN 1 ELSE 0
    <3>1. CASE Loaded(f)
      <4>1. PICK u \in CanUsers : At(u, "send", "rts") /\ job[u].frame = f
        BY Zenon, <3>1 DEF Loaded
      <4>2. "rts" \in Steps
        BY DEF Steps
      <4>3. loaded = {u}
        BY Zenon, <2>1, <4>1, <4>2 DEF Kept, MutexOK, InCall, At
      <4> QED BY Zenon, <3>1, <4>3, FS_Singleton
    <3>2. CASE ~ Loaded(f)
      <4>1. loaded = {}
        BY Zenon, <3>2 DEF Loaded
      <4> QED BY Zenon, <3>2, <4>1, FS_EmptySet
    <3> QED BY Zenon, <3>1, <3>2
  <2>5. seen = "none" => ~ (Waits(f) /\ Loaded(f))
    BY Zenon, <2>1 DEF Kept, JobOK, Loaded, Waits
  <2>6. owed[f] \in Int /\ owed[f] >= 0 /\ (Waits(f) => owed[f] >= 1)
    BY <2>1 DEF HistoryType, Kept, OwedOK, Waits
  <2>7. seen = "none" => owed[f] = IF Waits(f) \/ Loaded(f) THEN 1 ELSE 0
    BY Zenon, <2>1 DEF Kept, OwedOK
  <2> HIDE DEF waiting, loaded
  <2>8. /\ Cardinality(waiting) <= owed[f]
        /\ seen = "none" => owed[f] = Cardinality(waiting) + Cardinality(loaded)
    BY <2>3, <2>4, <2>5, <2>6, <2>7
  <2> QED BY Zenon, <2>8 DEF waiting, loaded
<1> QED BY <1>1, McpInvariant, PTL

\* Until then, every frame stored by the chip that mcp2515_recv has neither returned
\* nor dropped is in a buffer whose flag is set, once for every time it was stored.
THEOREM ReceivesOnce == McpSpec => []ReceivedOnce
<1>1. McpInv => ReceivedOnce
  BY Zenon DEF McpInv, Kept, StoredOK, Holding, ReceivedOnce
<1> QED BY <1>1, McpInvariant, PTL
===============================================================================
