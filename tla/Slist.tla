-------------------------------- MODULE Slist --------------------------------
(***************************************************************************)
(* The singly linked list of dstruct/slist.c.  A list is a record [head,   *)
(* tail]; next is the memory of the nodes, node -> node.next, which the    *)
(* other users of the same memory write as well.                           *)
(***************************************************************************)
EXTENDS Naturals, Sequences, FiniteSets

CONSTANT NULL     \* the null pointer

EmptySlist == [head |-> NULL, tail |-> NULL]

\* The list after slist_append ...
slist_append(l, n) == [head |-> IF l.head = NULL THEN n ELSE l.head, tail |-> n]

\* slist_append that leaves the next field of the node as it was.
slist_append_next_NoReset(next, l, n) ==
  IF l.head = NULL THEN next ELSE [next EXCEPT ![l.tail] = n]

\* ... and the memory of the nodes, written in the order of the code.
slist_append_next(next, l, n) ==
  LET cleared == [next EXCEPT ![n] = NULL]
  IN  IF l.head = NULL THEN cleared ELSE [cleared EXCEPT ![l.tail] = n]

\* The list after slist_get, which returns l.head; the node keeps its next field.
slist_get(next, l) ==
  IF l.head = NULL THEN l
  ELSE [head |-> next[l.head],
        tail |-> IF next[l.head] = NULL THEN NULL ELSE l.tail]

\* The nodes reached from a head, at most as many as there are nodes and one
\* more, which a list without a cycle never has.
Reached(next, head) ==
  LET N == Cardinality(DOMAIN next) + 1
      at[i \in 1 .. N] == IF i = 1 THEN head
                          ELSE IF at[i - 1] = NULL THEN NULL ELSE next[at[i - 1]]
  IN  [i \in 1 .. Cardinality({i \in 1 .. N : at[i] # NULL}) |-> at[i]]
==============================================================================
