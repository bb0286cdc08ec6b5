------------------------------ MODULE MCObjects ------------------------------
(***************************************************************************)
(* Three threads and the interrupts; a slab of three blocks, two bits, a   *)
(* message queue of two messages, two semaphores with their descriptors,   *)
(* a mutex with a condition variable.                                      *)
(***************************************************************************)
EXTENDS Objects, TLC

CONSTANTS a, b, c, b1, b2, b3, x, y, m1, m2, s1, s2, p1, p2, mutex, condvar

MCThreads  == {a, b, c}
MCQueues   == {FIFO, SLAB, FLAGS, SIGNAL, MSGQ, POLL, s1, s2, p1, p2, mutex, condvar}
MCNodes    == {b1, b2, b3}
MCUsers    == {b, c, ISR}
MCBits     == {x, y}
MCReset    == {}
MCMessages == {m1, m2}
MCSem1     == {s1}
MCSem2     == {s1, s2}
MCPollfds  == {p1, p2}
MCOneSem   == [p \in MCPollfds |-> s1]
MCTwoSems  == [p \in MCPollfds |-> IF p = p2 THEN s2 ELSE s1]
MCUses     == {"blocks", "flags", "signal", "msgq", "poll", "mutex"}
MCPollTimeouts == {0, K_FOREVER}
MCPollUses == {"poll"}
MCMutexUses == {"mutex"}
MCMutexes   == {mutex}
MCCondvars  == {condvar}
MCCondMutex == [cv \in MCCondvars |-> mutex]

\* Arrays of one descriptor, and an array of two.
MCOneObject  == {{p1}, {p2}}
MCTwoObjects == {{p1, p2}}

\* The threads but main, the blocks and the messages are interchangeable.
MCSymmetry == UNION {Permutations(S) : S \in {{b, c}, MCNodes, MCMessages}}
==============================================================================
