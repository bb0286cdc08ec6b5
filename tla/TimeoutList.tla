----------------------------- MODULE TimeoutList -----------------------------
(***************************************************************************)
(* What dstruct/tqueue.c promises: a list of items in the order in which   *)
(* they expire, each with the number of ticks it has LEFT.  Items with the *)
(* same number of ticks left stay in the order of their insertion.         *)
(*                                                                         *)
(* The kernel module uses this list for z_ker.timeouts_queue.  The module  *)
(* Tqueue models the linked list of deltas of the C code and is checked to *)
(* implement this one.                                                     *)
(***************************************************************************)
EXTENDS Naturals, Sequences, FiniteSets

\* Where a new item goes: behind every item that expires no later.
Position(list, left) ==
  1 + Cardinality({i \in DOMAIN list : list[i].left <= left})

Schedule(list, item, left) ==
  LET p == Position(list, left)
  IN  SubSeq(list, 1, p - 1) \o <<[item |-> item, left |-> left]>>
        \o SubSeq(list, p, Len(list))

\* Time passes for every item; an item whose time is up stays at 0.
Shift(list, ticks) ==
  [i \in DOMAIN list |->
     [list[i] EXCEPT !.left = IF @ <= ticks THEN 0 ELSE @ - ticks]]

HasExpired(list) == list # <<>> /\ list[1].left = 0

Items(list) == {list[i].item : i \in DOMAIN list}

\* No item is in the list twice.
NoRepeat(list) ==
  \A i, j \in DOMAIN list : list[i].item = list[j].item => i = j

\* The list without an item; the others keep their order and their time.
Without(list, item) ==
  IF item \in Items(list)
    THEN LET p == CHOOSE i \in DOMAIN list : list[i].item = item
         IN  SubSeq(list, 1, p - 1) \o SubSeq(list, p + 1, Len(list))
    ELSE list
==============================================================================
