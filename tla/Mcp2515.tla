------------------------------- MODULE Mcp2515 -------------------------------
(***************************************************************************)
(* The CAN controller driver of devices/mcp2515.c: threads that send,      *)
(* receive and set filters under the mutex of the device, and the chip     *)
(* (external), which transmits its loaded buffers and stores frames at any *)
(* time.  A step is one SPI transaction.  The mutex is that of mutex.c: it *)
(* is handed over to a waiting thread, and until that one runs its         *)
(* previous owner passes for the owner and may lock it again.  The driver  *)
(* does not look at what k_mutex_lock returns.                             *)
(***************************************************************************)
EXTENDS Integers, FiniteSets

CONSTANTS
  CanUsers,       \* the threads
  Frames,         \* what they send
  Arriving,       \* the frames of the bus
  NoFrame,        \* what a transmit buffer holds after a reset
  NoUser,
  MAXOWED         \* bound: a frame is not sent while so many of it are owed

ASSUME McpAssumption == /\ NoFrame \notin Frames
                        /\ Arriving \subseteq Frames
                        /\ NoUser \notin CanUsers

VARIABLES
  chip,           \* [mode, txreq, tx, rxif, rx]: TXREQ of the transmit buffers and
                  \* what they hold, RXnIF of the receive buffers and what they hold
  owner,          \* owner of mcp2515_device._mutex, or NoUser (then lock is 0)
  job,            \* thread -> [fn, at, buf, frame]: the call in progress
  owed, stored,   \* frame -> how often it was loaded by mcp2515_send and is not on
                  \* the bus yet; stored by the chip and neither returned nor dropped
                  \* (history)
  seen            \* "busy": a send found transmit buffer 0 waiting for the bus;
                  \* "reentry": the mutex was locked while it was handed over, after
                  \* which owed and stored are not kept; else "none" (history)

mcpVars == <<chip, owner, job, owed, stored, seen>>

Done == [fn |-> "none", at |-> "none", buf |-> 0, frame |-> NoFrame]

Step(u, at) == job' = [job EXCEPT ![u].at = at]
At(u, fn, at) == job[u].fn = fn /\ job[u].at = at

None == [f \in Frames |-> 0]
Count(history, f, n) ==
  IF seen = "reentry" \/ f \notin Frames THEN history ELSE [history EXCEPT ![f] = @ + n]

-------------------------------------------------------------------------------
McpCall(u, fn, f) ==
  /\ job[u] = Done
  /\ chip.mode # "off"
  /\ job' = [job EXCEPT ![u] = [fn |-> fn, at |-> "lock", buf |-> 0, frame |-> f]]
  /\ UNCHANGED <<chip, owner, owed, stored, seen>>

\* A call that does not wait for the mutex.
k_mutex_lock_NoWait(u) ==
  /\ job[u].at = "lock"
  /\ owner' = u
  /\ Step(u, "begin")
  /\ UNCHANGED <<chip, owed, stored, seen>>

\* k_mutex_lock(&mcp->_mutex, K_FOREVER) up to its wait.  A thread that calls the
\* driver is in no other call of it: if it is the owner, it is handing the mutex over.
k_mutex_lock(u) ==
  /\ job[u].at = "lock"
  /\ owner' = IF owner = NoUser THEN u ELSE owner
  /\ Step(u, IF owner \in {NoUser, u} THEN "begin" ELSE "wait")
  /\ IF owner = u THEN seen' = "reentry" /\ owed' = None /\ stored' = None
                  ELSE UNCHANGED <<owed, stored, seen>>
  /\ UNCHANGED chip

\* The thread that the mutex was handed to runs.
k_mutex_lock_return(u) ==
  /\ job[u].at = "woken"
  /\ owner' = u
  /\ Step(u, "begin")
  /\ UNCHANGED <<chip, owed, stored, seen>>

\* k_mutex_unlock at the end of a call: nothing for a thread that is not the owner;
\* the mutex goes to a waiting thread (here, any of them) or becomes free.
k_mutex_unlock(u) ==
  LET waiting == {v \in CanUsers : job[v].at = "wait"}
  IN  \/ /\ owner # u
         /\ job' = [job EXCEPT ![u] = Done]
         /\ UNCHANGED owner
      \/ /\ owner = u
         /\ waiting = {}
         /\ job' = [job EXCEPT ![u] = Done]
         /\ owner' = NoUser
      \/ /\ owner = u
         /\ \E v \in waiting : job' = [job EXCEPT ![u] = Done, ![v].at = "woken"]
         /\ UNCHANGED owner

\* mcp2515_send reads the status and takes the first free buffer, or returns -EBUSY;
\* it then clears the interrupt flag of the buffer, which nothing here reads.
ReadTxStatus(u) ==
  LET free == (0 .. 2) \ chip.txreq
  IN  /\ At(u, "send", "begin")
      /\ IF free = {} THEN k_mutex_unlock(u)
         ELSE /\ job' = [job EXCEPT ![u].at = "load",
                                    ![u].buf = CHOOSE b \in free : \A c \in free : b <= c]
              /\ UNCHANGED owner
      /\ seen' = IF 0 \in free \/ seen = "reentry" THEN seen ELSE "busy"
      /\ UNCHANGED <<chip, owed, stored>>

\* MCP_LOAD_TX_AT_TXBnSIDH: MCP_LOAD_TX_BUFFER shifts the number of the buffer too
\* far, and gives 0x40 for the buffers 0 and 1, and 0x60 for buffer 2.
MCP_LOAD_TX_AT(b) == IF b = 2 THEN 96 ELSE 64

\* The buffers the chip loads on an instruction (0x40, 0x42 and 0x44 are LOAD TX
\* BUFFER; external).
Loads(instruction) == {b \in 0 .. 2 : instruction = 64 + 2 * b}

\* The frame is sent with that instruction.  A buffer that waits for the bus may
\* take it or not.
LoadTx(u) ==
  LET to == Loads(MCP_LOAD_TX_AT(job[u].buf))
  IN  /\ At(u, "send", "load")
      /\ \E taken \in SUBSET to :
           /\ to \ taken \subseteq chip.txreq
           /\ chip' = [chip EXCEPT !.tx = [b \in 0 .. 2 |-> IF b \in taken THEN job[u].frame
                                                                        ELSE chip.tx[b]]]
      /\ owed' = Count(owed, job[u].frame, 1)
      /\ Step(u, "rts")
      /\ UNCHANGED <<owner, stored, seen>>

start_transmit(u) ==
  /\ At(u, "send", "rts")
  /\ chip' = [chip EXCEPT !.txreq = @ \cup {job[u].buf}]
  /\ k_mutex_unlock(u)
  /\ UNCHANGED <<owed, stored, seen>>

\* mcp2515_recv reads the status; -ENOMSG when no buffer is full.
ReadRxStatus(u) ==
  /\ At(u, "recv", "begin")
  /\ IF chip.rxif = {} THEN k_mutex_unlock(u)
     ELSE /\ job' = [job EXCEPT ![u].at = "read",
                                ![u].buf = IF 0 \in chip.rxif THEN 0 ELSE 1]
          /\ UNCHANGED owner
  /\ UNCHANGED <<chip, owed, stored, seen>>

\* The frame is copied; at the end of the instruction READ RX BUFFER the chip clears
\* the flag of the buffer (external).
read_rx_buf(u) ==
  /\ At(u, "recv", "read")
  /\ stored' = Count(stored, chip.rx[job[u].buf], -1)
  /\ chip' = [chip EXCEPT !.rxif = @ \ {job[u].buf}]
  /\ Step(u, "clear")
  /\ UNCHANGED <<owner, owed, seen>>

\* The flags of both buffers are cleared.
ClearRx_Both(u) ==
  LET b == job[u].buf
  IN  /\ At(u, "recv", "clear")
      /\ stored' = IF b \in chip.rxif THEN Count(stored, chip.rx[b], -1) ELSE stored
      /\ chip' = [chip EXCEPT !.rxif = {}]
      /\ k_mutex_unlock(u)
      /\ UNCHANGED <<owed, seen>>

\* The driver clears the flag once more, and returns the frame it has read.  A frame
\* stored in the buffer since is dropped.
ClearRx(u) ==
  LET b == job[u].buf
  IN  /\ At(u, "recv", "clear")
      /\ stored' = IF b \in chip.rxif THEN Count(stored, chip.rx[b], -1) ELSE stored
      /\ chip' = [chip EXCEPT !.rxif = @ \ {b}]
      /\ k_mutex_unlock(u)
      /\ UNCHANGED <<owed, seen>>

\* mcp2515_set_filter and mcp2515_set_mask: set_mode to the configuration mode, the
\* four bytes of the identifier, set_mode back.
EnterConfig(u) == /\ At(u, "filter", "begin")
                  /\ chip' = [chip EXCEPT !.mode = "config"]
                  /\ Step(u, "write")
                  /\ UNCHANGED <<owner, owed, stored, seen>>

write_registers(u) == /\ At(u, "filter", "write")
                      /\ Step(u, "normal")
                      /\ UNCHANGED <<chip, owner, owed, stored, seen>>

EnterNormal(u) == /\ At(u, "filter", "normal")
                  /\ chip' = [chip EXCEPT !.mode = "normal"]
                  /\ k_mutex_unlock(u)
                  /\ UNCHANGED <<owed, stored, seen>>

-------------------------------------------------------------------------------
Reset(mode) == [mode |-> mode, txreq |-> {}, tx |-> [b \in 0 .. 2 |-> NoFrame],
                rxif |-> {}, rx |-> [b \in 0 .. 1 |-> NoFrame]]

\* mcp2515_init, before the threads use the device: the chip is reset and configured.
mcp2515_init ==
  /\ chip.mode = "off"
  /\ \/ chip' = Reset("normal")
     \/ chip' = chip            \* config_dr: -ENOTSUP
  /\ owner' = NoUser
  /\ UNCHANGED <<job, owed, stored, seen>>

\* mcp2515_deinit when no thread uses the device: what it holds is dropped.
mcp2515_deinit ==
  /\ chip.mode = "normal"
  /\ \A u \in CanUsers : job[u] = Done
  /\ chip' = Reset("off")
  /\ owner' = NoUser
  /\ owed' = None
  /\ stored' = None
  /\ seen' = "none"
  /\ UNCHANGED job

\* The chip sends what a buffer holds, which stays in it.
Transmits(b) == /\ chip.mode = "normal"
                /\ b \in chip.txreq
                /\ chip' = [chip EXCEPT !.txreq = @ \ {b}]
                /\ owed' = Count(owed, chip.tx[b], -1)
                /\ UNCHANGED <<owner, job, stored, seen>>

\* The chip stores a frame in the first receive buffer, or rolls over to the second;
\* a frame that finds both full is lost and changes nothing here.
Receives(f) ==
  LET b == IF 0 \in chip.rxif THEN 1 ELSE 0
  IN  /\ chip.mode = "normal"
      /\ b \notin chip.rxif
      /\ chip' = [chip EXCEPT !.rxif = @ \cup {b}, !.rx[b] = f]
      /\ stored' = Count(stored, f, 1)
      /\ UNCHANGED <<owner, job, owed, seen>>

-------------------------------------------------------------------------------
McpInit == /\ chip = Reset("off")
           /\ owner = NoUser
           /\ job = [u \in CanUsers |-> Done]
           /\ owed = None
           /\ stored = None
           /\ seen = "none"

mcp2515_send(u) == ReadTxStatus(u) \/ LoadTx(u) \/ start_transmit(u)
mcp2515_recv(u) == ReadRxStatus(u) \/ read_rx_buf(u) \/ ClearRx(u)
mcp2515_set_filter(u) == EnterConfig(u) \/ write_registers(u) \/ EnterNormal(u)

McpStep == \E u \in CanUsers :
             \/ k_mutex_lock(u) \/ k_mutex_lock_return(u)
             \/ mcp2515_send(u) \/ mcp2515_recv(u) \/ mcp2515_set_filter(u)

McpCalls == \/ mcp2515_init \/ mcp2515_deinit
            \/ \E u \in CanUsers :
                 \/ McpCall(u, "recv", NoFrame) \/ McpCall(u, "filter", NoFrame)
                 \/ \E f \in Frames : owed[f] < MAXOWED /\ McpCall(u, "send", f)
            \/ \E b \in 0 .. 2 : Transmits(b)
            \/ \E f \in Arriving : Receives(f)

McpSpec == McpInit /\ [][McpStep \/ McpCalls]_mcpVars

-------------------------------------------------------------------------------
(* Both properties speak of the behaviours in which the mutex was not        *)
(* locked during a hand-over, which lets two threads into the driver.        *)

\* No frame is waiting for the bus more often than mcp2515_send loaded it since it
\* was last sent: none goes out twice.  And while every send found transmit buffer 0
\* free, every frame loaded waits for the bus, or for the request that follows the
\* load: none is lost, none is loaded over another one.  A send that finds buffer 0
\* busy loads its frame there all the same, or nowhere.
SentOnce ==
  seen # "reentry" =>
    \A f \in Frames :
      LET waiting == {b \in chip.txreq : chip.tx[b] = f}
          loaded  == {u \in CanUsers : At(u, "send", "rts") /\ job[u].frame = f}
      IN  /\ Cardinality(waiting) <= owed[f]
          /\ seen = "none" => owed[f] = Cardinality(waiting) + Cardinality(loaded)

\* Every frame the chip stored is returned at most once, by one thread, and is lost
\* only if it arrives in a buffer between the reading of that buffer and the second
\* clearing of its flag: all others are in a buffer whose flag is set.
ReceivedOnce ==
  seen # "reentry" =>
    \A f \in Frames : stored[f] = Cardinality({b \in chip.rxif : chip.rx[b] = f})
===============================================================================
