----------------------------- MODULE MCScheduler -----------------------------
(***************************************************************************)
(* Scheduler with three threads: main m, cooperative, that manages the     *)
(* others; u, that sleeps, locks the scheduler and changes its priority;   *)
(* w, that stops by itself and is created and started again by m.          *)
(***************************************************************************)
EXTENDS Scheduler

CONSTANTS m, u, w, qm, qu, qw

MCThreads     == {m, u, w}
MCQueues      == {qm, qu, qw}
MCAutoStart   == {m, u}
MCCooperative == {m}
MCSleepers    == {u}
MCLockers     == {u}
MCPrioPairs   == {<<u, u>>, <<m, m>>}
MCStartPairs  == {<<m, u>>, <<m, w>>}
MCAbortPairs  == {<<m, u>>, <<w, w>>}
MCCreatePairs == {<<m, w>>}
MCJoinPairs   == {<<m, w>>, <<w, u>>}
MCJoinQueue   == [t \in MCThreads |-> CASE t = m -> qm [] t = u -> qu [] t = w -> qw]
==============================================================================
