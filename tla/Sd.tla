---------------------------------- MODULE Sd ----------------------------------
(***************************************************************************)
(* The SD card driver of devices/sd.c and the chip select of drivers/spi.c *)
(* it uses.  A step is what the driver does from one point where the card  *)
(* answers to the next; the card (external) may answer or stay mute.  An   *)
(* R1 response is its byte: 0 ready, 1 idle, 5 idle and illegal command,   *)
(* 4 an error of a ready card, 255 nothing.                                *)
(***************************************************************************)
EXTENDS Integers, FiniteSets

CONSTANTS
  TRIES,          \* CONFIG_SD_INIT_TIMEOUT_MS / SD_ACMD41_RETRY_DELAY_MS
  CSD_VERSIONS,   \* the CSD structures of the cards
  ARGS_CHECKS     \* CONFIG_KERNEL_ARGS_CHECKS

ASSUME SdAssumption == TRIES \in Nat /\ TRIES < 65536    \* the counter is a uint16_t

VARIABLES
  sd,             \* [fn, at, timeout, ret]: the last call, the command it is at
                  \* (none when it has returned), its counter, what it returned
  type,           \* sd_device.info.type is known
  selected,       \* the chip select of the card is active
  card            \* [st, busy, took, did]: whether the card is idle or ready, programs
                  \* a block, took the last command, did what it asked for

sdVars == <<sd, type, selected, card>>

R1_IDLE_STATE(res)      == res % 2 = 1
R1_ILLEGAL_COMMAND(res) == (res \div 4) % 2 = 1

\* The R1 responses to the commands that only a ready card accepts, to those that
\* any card accepts, and to CMD8, which only a card of version 2 knows.  A card that
\* programs a block holds its line low: sd_read_r1 takes the zeros for a response.
ReadyOnly == {255} \cup IF card.busy THEN {0} ELSE IF card.st = "ready" THEN {0, 4} ELSE {5}
AnyState  == {255} \cup IF card.st = "ready" THEN {0} ELSE {1}
Cmd8      == {0, 255, 1, 5}

spi_slave_select   == ~ selected /\ selected' = TRUE
spi_slave_unselect == selected /\ selected' = FALSE

\* The call goes on at the command at, or returns.
Goto(at)  == sd' = [sd EXCEPT !.at = at]
Return(r) == sd' = [sd EXCEPT !.at = "none", !.ret = r]

-------------------------------------------------------------------------------
\* The tests of the arguments under z_user, for a device and buffers that are given;
\* that of sd_read_block is inverted.
Accepts(fn) == ARGS_CHECKS => CASE fn = "init" -> TRUE
                                [] fn = "read" -> ~ type
                                [] OTHER       -> type

\* A call of the user, up to its first command.
SdCall(fn, at) ==
  /\ sd.at = "none"
  /\ Accepts(fn)
  /\ sd' = [fn |-> fn, at |-> at, timeout |-> TRIES, ret |-> "none"]
  /\ type' = (type /\ fn # "init")
  /\ selected' = (selected /\ fn # "init")
  /\ card' = [card EXCEPT !.took = FALSE, !.did = FALSE]

\* A command is sent to the selected card.
Sends == /\ sd.at \in {"cmd0", "cmd8", "cmd58", "cmd55", "acmd41", "cmd16", "cmd"}
         /\ spi_slave_select
         /\ UNCHANGED <<sd, type, card>>

\* The commands of sd_init: the response is read and the card is unselected.
GoIdle == /\ sd.at = "cmd0"
          /\ spi_slave_unselect
          /\ \E res \in IF card.busy THEN {0, 255} ELSE {0, 1, 255} :
               /\ IF R1_IDLE_STATE(res) THEN Goto("cmd8") ELSE Return("EIO")
               /\ card' = IF res = 1 THEN [card EXCEPT !.st = "idle"] ELSE card
          /\ UNCHANGED type

CheckVoltage ==
  /\ sd.at = "cmd8"
  /\ spi_slave_unselect
  /\ \E res \in Cmd8 :
       IF ~ R1_IDLE_STATE(res) THEN Return("EIO") /\ UNCHANGED type
       ELSE IF ~ R1_ILLEGAL_COMMAND(res) THEN Return("ENOTSUP") /\ UNCHANGED type
       ELSE Goto("cmd58") /\ type' = TRUE
  /\ UNCHANGED card

ReadOcr == /\ sd.at = "cmd58"
           /\ spi_slave_unselect
           /\ \E res \in AnyState : IF res > 1 THEN Return("EIO") ELSE Goto("while")
           /\ UNCHANGED <<type, card>>

\* The test of the loop: the counter is a uint16_t, and is decremented when the loop
\* ends too.
TestTimeout ==
  /\ sd.at = "while"
  /\ sd' = [sd EXCEPT !.timeout = (@ - 1) % 65536,
                      !.at = IF sd.timeout # 0 THEN "cmd55" ELSE "after"]
  /\ UNCHANGED <<type, selected, card>>

AppCommand == /\ sd.at = "cmd55"
              /\ spi_slave_unselect
              /\ \E res \in AnyState : IF res > 1 THEN Return("EIO") ELSE Goto("acmd41")
              /\ UNCHANGED <<type, card>>

\* The card finishes its initialisation, or is still at it and is asked again later.
SendOpCond ==
  /\ sd.at = "acmd41"
  /\ spi_slave_unselect
  /\ \E res \in {0, 1, 255} :
       /\ CASE res = 0 -> Goto("after")
            [] res = 1 -> Goto("while")
            [] OTHER   -> Return("EIO")
       /\ res = 1 => card.st = "idle"
       /\ card' = IF res = 0 THEN [card EXCEPT !.st = "ready"] ELSE card
  /\ UNCHANGED type

AfterLoop ==
  /\ sd.at = "after"
  /\ IF sd.timeout = 0 THEN Return("ETIMEDOUT") ELSE Goto("cmd16")
  /\ UNCHANGED <<type, selected, card>>

\* CMD16 whose response is taken for good when there is one.
SetBlockLength_Unchecked ==
  /\ sd.at = "cmd16"
  /\ spi_slave_unselect
  /\ \E res \in ReadyOnly : Return(IF res = 255 THEN "EIO" ELSE "OK")
  /\ UNCHANGED <<type, card>>

SetBlockLength ==
  /\ sd.at = "cmd16"
  /\ spi_slave_unselect
  /\ \E res \in ReadyOnly : Return(IF res # 0 THEN "EIO" ELSE "OK")
  /\ UNCHANGED <<type, card>>

-------------------------------------------------------------------------------
(* sd_read_block, sd_write_block, sd_read_csd, sd_read_cid: the card stays   *)
(* selected until they return.                                               *)

\* The label exit.
Exit(r) == spi_slave_unselect /\ Return(r)

\* A command whose error returns at once.
Command_NoExit == /\ sd.at = "cmd"
                  /\ selected
                  /\ \E res \in ReadyOnly : IF res # 0 THEN Return("EIO") ELSE Goto("data")
                  /\ card' = [card EXCEPT !.took = ~ card.busy]
                  /\ UNCHANGED <<selected, type>>

Command == /\ sd.at = "cmd"
           /\ selected
           /\ \E res \in ReadyOnly :
                IF res # 0 THEN Exit("EIO") ELSE Goto("data") /\ UNCHANGED selected
           /\ card' = [card EXCEPT !.took = ~ card.busy]
           /\ UNCHANGED type

\* What the read of a data block that fails does: another token, or none.
sd_read_data_block == (Exit("ETIMEDOUT") \/ Exit("EIO")) /\ UNCHANGED <<type, card>>

\* The block was read, and the call returns.
HasData == /\ card.took
           /\ card' = [card EXCEPT !.did = TRUE]
           /\ UNCHANGED type

sd_read_block == /\ sd.fn = "read" /\ sd.at = "data"
                 /\ sd_read_data_block \/ (Exit("OK") /\ HasData)

sd_read_cid == /\ sd.fn = "cid" /\ sd.at = "data"
               /\ sd_read_data_block \/ (Exit("OK") /\ HasData)

\* A CSD that is not of version 1 (0) returns without unselecting the card.
sd_read_csd ==
  /\ sd.fn = "csd" /\ sd.at = "data"
  /\ \/ sd_read_data_block
     \/ /\ \E v \in CSD_VERSIONS :
             IF v = 0 THEN Exit("OK") ELSE Return("ENOTSUP") /\ UNCHANGED selected
        /\ HasData

\* The data of sd_write_block are sent and its response token is read.
WriteData ==
  /\ sd.fn = "write" /\ sd.at = "data"
  /\ \/ Exit("ETIMEDOUT") /\ UNCHANGED card
     \/ Exit("EIO") /\ UNCHANGED card
     \/ /\ card.took
        /\ Goto("wait")
        /\ card' = [card EXCEPT !.busy = TRUE]
        /\ UNCHANGED selected
  /\ UNCHANGED type

\* sd_wait_ready sleeps between its reads and gives up after a while.
sd_wait_ready ==
  /\ sd.at = "wait"
  /\ Exit(IF card.busy THEN "ETIMEDOUT" ELSE "OK")
  /\ UNCHANGED <<type, card>>

\* The card has programmed the block (external).
Programmed == /\ card.busy
              /\ card' = [card EXCEPT !.busy = FALSE, !.did = @ \/ sd.at = "wait"]
              /\ UNCHANGED <<sd, type, selected>>

-------------------------------------------------------------------------------
SdInit == /\ sd = [fn |-> "none", at |-> "none", timeout |-> 0, ret |-> "none"]
          /\ type = FALSE
          /\ selected = FALSE
          /\ card = [st |-> "native", busy |-> FALSE, took |-> FALSE, did |-> FALSE]

SdStep == \/ Sends \/ GoIdle \/ CheckVoltage \/ ReadOcr \/ TestTimeout \/ AppCommand
          \/ SendOpCond \/ AfterLoop \/ SetBlockLength \/ Command \/ sd_read_block
          \/ sd_read_cid \/ sd_read_csd \/ WriteData \/ sd_wait_ready

SdCalls == \/ SdCall("init", "cmd0")
           \/ \E fn \in {"read", "write", "csd", "cid"} : SdCall(fn, "cmd")
           \/ Programmed

SdSpec == SdInit /\ [][SdStep \/ SdCalls]_sdVars

\* A call that returns 0 has had its effect on the card: sd_init left a card that is
\* ready, although its loop may end with the counter wrapped around and no answer;
\* a read got its data; a written block is programmed.
SdDone ==
  sd.ret = "OK" => card.st = "ready" /\ (sd.fn = "init" \/ card.did)

\* Between two calls the card is not selected, whichever command failed: the bus is
\* free for another slave.
Unselected == sd.at = "none" => ~ selected
===============================================================================
