-------------------------------- MODULE Dlist --------------------------------
(***************************************************************************)
(* The circular doubly linked lists of dstruct/dlist.c.                    *)
(*                                                                         *)
(* A family of lists that share their nodes is one record d = [next, prev] *)
(* of two functions from nodes to nodes, the two pointer fields of struct  *)
(* dnode.  A list head is a node like any other: head and tail are the     *)
(* names the C unions give to its next and prev.  An operator is the       *)
(* sequence of pointer writes of its C function, applied in that order, so *)
(* an aliasing (list = node, node already linked, ...) has the effect it   *)
(* has in the code.                                                        *)
(***************************************************************************)
EXTENDS Integers

SetNext(d, x, y) == [d EXCEPT !.next = [@ EXCEPT ![x] = y]]
SetPrev(d, x, y) == [d EXCEPT !.prev = [@ EXCEPT ![x] = y]]

dlist_init(d, list) == SetPrev(SetNext(d, list, list), list, list)

\* A plausible slip in dlist_append: the successor link of the node is lost.
dlist_append_NoNext(d, list, node) ==
  LET tail == d.prev[list]
  IN  SetPrev(SetPrev(SetNext(d, tail, node), node, tail), list, node)

dlist_append(d, list, node) ==
  LET tail == d.prev[list]
      d1   == SetNext(d, tail, node)
      d2   == SetPrev(d1, node, tail)
      d3   == SetPrev(d2, list, node)
  IN  SetNext(d3, node, list)

dlist_prepend(d, list, node) ==
  LET head == d.next[list]
      d1   == SetPrev(d, node, list)
      d2   == SetNext(d1, node, head)
      d3   == SetPrev(d2, head, node)
  IN  SetNext(d3, list, node)

dlist_insert(d, successor, node) ==
  LET prev == d.prev[successor]
      d1   == SetNext(d, prev, node)
      d2   == SetPrev(d1, node, prev)
      d3   == SetNext(d2, node, successor)
  IN  SetPrev(d3, successor, node)

\* dlist_remove that forgets to fix the successor's back pointer.
dlist_remove_OneWay(d, node) == SetNext(d, d.prev[node], d.next[node])

dlist_remove(d, node) ==
  LET prev == d.prev[node]
      next == d.next[node]
  IN  SetPrev(SetNext(d, prev, next), next, prev)

DLIST_EMPTY(d, list) == d.next[list] = list

-----------------------------------------------------------------------------
\* The record d is a structure on the nodes in N.
Structures(N) == [next : [N -> N], prev : [N -> N]]

\* The nodes of S are one circular list: next and prev stay inside S and undo
\* each other, and no part of S is closed under next.
Ring(d, S) ==
  /\ \A x \in S : /\ d.next[x] \in S
                  /\ d.prev[x] \in S
                  /\ d.prev[d.next[x]] = x
                  /\ d.next[d.prev[x]] = x
  /\ \A T \in SUBSET S : (T # {} /\ \A x \in T : d.next[x] \in T) => T = S

\* The node reached from x by n hops along next.
Hop(d, x, n) ==
  LET h[i \in 0 .. n] == IF i = 0 THEN x ELSE d.next[h[i - 1]] IN h[n]
==============================================================================
