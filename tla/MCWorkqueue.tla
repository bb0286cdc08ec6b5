----------------------------- MODULE MCWorkqueue -----------------------------
(***************************************************************************)
(* A work queue with a work and a delayable work, an event and a timer;    *)
(* two threads of the application beside WORKER, and the interrupts.       *)
(***************************************************************************)
EXTENDS Workqueue, TLC

CONSTANTS main, other, worker, x, dly, e, tm

MCThreads    == {main, other, worker}
MCWorks      == {x, dly}
MCDelayables == {dly}
MCEvents     == {dly, e}
MCTimers     == {tm}
MCPeriod     == [i \in MCTimers |-> 2]
MCStarters   == {main}
MCQueues     == {FIFO}
MCCoop       == {}
==============================================================================
