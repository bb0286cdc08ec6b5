---------------------------- MODULE MCStandalone -----------------------------
(***************************************************************************)
(* Three items and deltas from 0 to 4 for the delta queues; a ring of      *)
(* three bytes; transmissions of one and two characters and receive        *)
(* buffers of one and two; I2C transfers of up to one byte written and     *)
(* three read; two attempts of an SD card to get ready; two users of the   *)
(* CAN controller.                                                         *)
(***************************************************************************)
EXTENDS Standalone

CONSTANTS i1, i2, i3, c1, c2, u1, u2, f1, f2

MCEntries   == {i1, i2, i3}
MCBytes     == {c1, c2}
MCTxData    == {<<c1>>, <<c1, c2>>}
MCRxSizes   == {1, 2}
MCTransfers == {<<1, 0>>, <<0, 1>>, <<0, 3>>, <<1, 2>>}
MCWrites    == {<<2, 0>>}
MCMasters   == {u1}
MCLoses     == {"sla"}
MCCanUsers  == {u1, u2}
MCFrames    == {f1, f2}
MCArriving  == {f1}
MCCsd       == {0}
MCParts     == {"tqueue", "tdqueue", "ring", "usart", "i2c", "sd", "can"}
MCI2c       == {"i2c"}
==============================================================================
