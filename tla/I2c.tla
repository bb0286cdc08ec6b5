--------------------------------- MODULE I2c ---------------------------------
(***************************************************************************)
(* The I2C master of drivers/i2c.c, driven by its interrupt, on one        *)
(* device.  The TWI unit of the chip, the slave and the other masters of   *)
(* the bus are external: what the driver wrote to TWCRn decides which      *)
(* statuses may come next.  A byte of the caller's buffer is named by its  *)
(* index.                                                                  *)
(***************************************************************************)
EXTENDS Integers, Sequences

CONSTANTS
  BUF_LEN_BITS,   \* CONFIG_I2C_MAX_BUF_LEN_BITS, the width of the cursor
  Transfers,      \* the calls that are made: <<w_len, r_len>>
  Masters,        \* the threads that make them
  LOSES           \* the phases of the bus in which arbitration may be lost

ASSUME I2cAssumption ==
  /\ BUF_LEN_BITS \in Nat \ {0}
  /\ \A w \in Transfers : w[1] < 2 ^ BUF_LEN_BITS /\ w[2] < 2 ^ BUF_LEN_BITS
  /\ LOSES \subseteq {"sla", "mt"}

VARIABLES
  i2c,            \* i2c_context: [state, reads, cursor, write_len, read_len, error]
                  \* (reads: the R/W bit of sla_w)
  twi,            \* [phase, ack]: what the TWI unit does, and whether it answers a
                  \* byte with ACK
  run,            \* thread -> the arguments of i2c_run past its test, or <<>>
  moved           \* [wrote, read]: the bytes the slave took and those stored in
                  \* the buffer (history)

i2cVars == <<i2c, twi, run, moved>>

Inc(c) == (c + 1) % 2 ^ BUF_LEN_BITS

Idle_twi == [phase |-> "idle", ack |-> FALSE]
TWI_START == twi' = [phase |-> "start", ack |-> FALSE]
TWI_REPLY(phase, ack) == twi' = [phase |-> phase, ack |-> ack]

-------------------------------------------------------------------------------
\* An application initialises the driver before it uses it.
i2c_init(t) == /\ run[t] = <<>>
               /\ i2c.state = "UNINITIALIZED"
               /\ i2c' = [i2c EXCEPT !.state = "READY"]
               /\ UNCHANGED <<twi, run, moved>>

\* -EBUSY while a transfer is in progress.
i2c_deinit(t) == /\ run[t] = <<>>
                 /\ i2c.state = "READY"
                 /\ i2c' = [i2c EXCEPT !.state = "UNINITIALIZED"]
                 /\ UNCHANGED <<twi, run, moved>>

\* i2c_master_write, i2c_master_read, i2c_master_write_read: i2c_run up to its test
\* of the state, which returns -EBUSY; nothing is locked.
i2c_run(t, lens) ==
  /\ run[t] = <<>>
  /\ i2c.state = "READY"
  /\ run' = [run EXCEPT ![t] = lens]
  /\ UNCHANGED <<i2c, twi, moved>>

\* The rest of it, up to the wait for the end.  With one master the TWI unit is idle
\* and nothing runs between the assignments; two that are here would mix theirs.
i2c_run_start(t) ==
  /\ run[t] # <<>>
  /\ i2c' = [state     |-> IF run[t][1] = 0 THEN "MASTER_RX" ELSE "MASTER_TX",
             reads     |-> run[t][1] = 0,
             cursor    |-> 0,
             write_len |-> run[t][1],
             read_len  |-> run[t][2],
             error     |-> "NONE"]
  /\ TWI_START
  /\ run' = [run EXCEPT ![t] = <<>>]
  /\ moved' = [wrote |-> <<>>, read |-> <<>>]

-------------------------------------------------------------------------------
(* i2c_state_machine, one action for each group of its cases. *)

transfer_stop(cursor, err) ==
  /\ twi' = Idle_twi
  /\ i2c' = [i2c EXCEPT !.state = "READY", !.cursor = cursor, !.error = err]

TW_START == /\ twi.phase = "start"
            /\ TWI_REPLY("sla", TRUE)
            /\ UNCHANGED <<i2c, run, moved>>

\* The common part of TW_MT_DATA_ACK and TW_MT_SLA_ACK, from the cursor c on.
MT_Ack(c) ==
  IF c < i2c.write_len
    THEN /\ i2c' = [i2c EXCEPT !.cursor = Inc(c)]
         /\ TWI_REPLY("mt", TRUE)
  ELSE IF i2c.read_len # 0
    THEN /\ i2c' = [i2c EXCEPT !.state = "MASTER_RX", !.cursor = 0, !.reads = TRUE]
         /\ TWI_START
  ELSE transfer_stop(c, i2c.error)

TW_MT_SLA_ACK == /\ twi.phase = "sla" /\ ~ i2c.reads
                 /\ MT_Ack(i2c.cursor)
                 /\ UNCHANGED <<run, moved>>

\* The slave took the byte before the cursor; the code moves the cursor again.
TW_MT_DATA_ACK == /\ twi.phase = "mt"
                  /\ moved' = [moved EXCEPT !.wrote = Append(@, i2c.cursor - 1)]
                  /\ MT_Ack(Inc(i2c.cursor))
                  /\ UNCHANGED run

TW_MR_SLA_ACK == /\ twi.phase = "sla" /\ i2c.reads
                 /\ TWI_REPLY("mr", i2c.read_len - i2c.cursor > 1)
                 /\ UNCHANGED <<i2c, run, moved>>

\* TW_MR_DATA_ACK that acknowledges one byte too many.
TW_MR_DATA_ACK_OneMore ==
  /\ twi.phase = "mr" /\ twi.ack
  /\ moved' = [moved EXCEPT !.read = Append(@, i2c.cursor)]
  /\ i2c' = [i2c EXCEPT !.cursor = Inc(@)]
  /\ TWI_REPLY("mr", i2c.read_len - Inc(i2c.cursor) > 0)
  /\ UNCHANGED run

TW_MR_DATA_ACK ==
  /\ twi.phase = "mr" /\ twi.ack
  /\ moved' = [moved EXCEPT !.read = Append(@, i2c.cursor)]
  /\ i2c' = [i2c EXCEPT !.cursor = Inc(@)]
  /\ TWI_REPLY("mr", i2c.read_len - Inc(i2c.cursor) > 1)
  /\ UNCHANGED run

TW_MR_DATA_NACK ==
  /\ twi.phase = "mr" /\ ~ twi.ack
  /\ moved' = [moved EXCEPT !.read = Append(@, i2c.cursor)]
  /\ transfer_stop(Inc(i2c.cursor), i2c.error)
  /\ UNCHANGED run

TW_SLA_NACK == /\ twi.phase = "sla"
               /\ transfer_stop(i2c.cursor, "ADDR")
               /\ UNCHANGED <<run, moved>>

TW_MT_DATA_NACK == /\ twi.phase = "mt"
                   /\ transfer_stop(i2c.cursor, "DATA")
                   /\ UNCHANGED <<run, moved>>

TW_MT_ARB_LOST == /\ twi.phase \in LOSES
                  /\ TWI_START
                  /\ UNCHANGED <<i2c, run, moved>>

TW_BUS_ERROR == /\ twi.phase # "idle"
                /\ transfer_stop(i2c.cursor, "BUS")
                /\ UNCHANGED <<run, moved>>

-------------------------------------------------------------------------------
I2cInit == /\ i2c = [state |-> "UNINITIALIZED", reads |-> FALSE, cursor |-> 0,
                     write_len |-> 0, read_len |-> 0, error |-> "NONE"]
           /\ twi = Idle_twi
           /\ run = [t \in Masters |-> <<>>]
           /\ moved = [wrote |-> <<>>, read |-> <<>>]

i2c_state_machine == \/ TW_START \/ TW_MT_SLA_ACK \/ TW_MT_DATA_ACK \/ TW_MR_SLA_ACK
                     \/ TW_MR_DATA_ACK \/ TW_MR_DATA_NACK \/ TW_SLA_NACK
                     \/ TW_MT_DATA_NACK \/ TW_MT_ARB_LOST \/ TW_BUS_ERROR

I2cCall == \E t \in Masters : \/ i2c_init(t) \/ i2c_deinit(t) \/ i2c_run_start(t)
                              \/ \E lens \in Transfers : i2c_run(t, lens)

I2cSpec == I2cInit /\ [][i2c_state_machine \/ I2cCall]_i2cVars

\* A transfer that ends without an error has moved every byte: the slave took the
\* w_len bytes of the buffer in order, then r_len bytes were stored from its start,
\* none past its end, whichever repeated starts and restarts after a lost
\* arbitration happened in between.
Moved ==
  /\ i2c.state = "READY" /\ i2c.error = "NONE" =>
       /\ moved.wrote = [i \in 1 .. i2c.write_len |-> i - 1]
       /\ moved.read = [i \in 1 .. i2c.read_len |-> i - 1]
  /\ Len(moved.read) <= i2c.read_len
==============================================================================
