------------------------------- MODULE Tqueue -------------------------------
(***************************************************************************)
(* The delta queue of dstruct/tqueue.c: a singly linked list of items in   *)
(* which delta[i] is the time between the expiry of the item before i and  *)
(* that of i.  next[ROOT] is the root pointer; the C variable prev_next_p, *)
(* a pointer to a next field, is the node at that holds the field.  One    *)
(* iteration of a loop is one step.                                        *)
(*                                                                         *)
(* list is the list of TimeoutList on which the same calls were made: the  *)
(* module shows that the two agree between the calls.                      *)
(***************************************************************************)
EXTENDS TimeoutList, Integers

CONSTANTS
  Entries,        \* the items (struct titem)
  ROOT, NULL,
  WIDTH           \* number of values of k_delta_t (2^16 in the code)

ASSUME TqueueAssumption ==
  /\ IsFiniteSet(Entries)
  /\ ROOT \notin Entries
  /\ NULL \notin Entries \cup {ROOT}
  /\ WIDTH \in Nat \ {0}

VARIABLES
  next, delta,    \* the fields of the items
  op,             \* the call in progress: [fn, item, at, time]
  list            \* the reference list (history)

tqueueVars == <<next, delta, op, list>>

Delta == 0 .. WIDTH - 1

NoCall == [fn |-> "none", item |-> NULL, at |-> NULL, time |-> 0]

Call(fn, item, time) == [fn |-> fn, item |-> item, at |-> ROOT, time |-> time]

Cur == next[op.at]

-----------------------------------------------------------------------------
\* The assignments of tqueue_schedule before z_tqueue_schedule.
Prepare(f, i, timeout) ==
  /\ next' = [f EXCEPT ![i] = NULL]
  /\ delta' = [delta EXCEPT ![i] = timeout]
  /\ op' = Call("schedule", i, 0)

\* The callers schedule only an item that is not in the queue.
tqueue_schedule(i, timeout) ==
  /\ op = NoCall
  /\ i \notin Items(list)
  /\ Prepare(next, i, timeout)
  /\ list' = Schedule(list, i, timeout)

z_tqueue_schedule ==
  LET i == op.item
  IN  /\ op.fn = "schedule"
      /\ IF Cur # NULL /\ delta[Cur] <= delta[i]
           THEN /\ delta' = [delta EXCEPT ![i] = (@ - delta[Cur]) % WIDTH]
                /\ op' = [op EXCEPT !.at = Cur]
                /\ UNCHANGED next
           ELSE /\ next' = [next EXCEPT ![i] = Cur, ![op.at] = i]
                /\ delta' = IF Cur = NULL THEN delta
                            ELSE [delta EXCEPT ![Cur] = (@ - delta[i]) % WIDTH]
                /\ op' = NoCall
      /\ UNCHANGED list

tqueue_shift(time) ==
  /\ op = NoCall
  /\ op' = Call("shift", NULL, time)
  /\ list' = Shift(list, time)
  /\ UNCHANGED <<next, delta>>

tqueue_shift_step ==
  /\ op.fn = "shift"
  /\ IF Cur # NULL /\ delta[Cur] <= op.time
       THEN /\ delta' = [delta EXCEPT ![Cur] = 0]
            /\ op' = [op EXCEPT !.at = Cur, !.time = @ - delta[Cur]]
       ELSE /\ delta' = IF Cur = NULL THEN delta
                        ELSE [delta EXCEPT ![Cur] = @ - op.time]
            /\ op' = NoCall
  /\ UNCHANGED <<next, list>>

\* tqueue_pop: the item keeps its next field.
tqueue_pop ==
  /\ op = NoCall
  /\ next[ROOT] # NULL
  /\ delta[next[ROOT]] = 0
  /\ next' = [next EXCEPT ![ROOT] = next[next[ROOT]]]
  /\ list' = Tail(list)
  /\ UNCHANGED <<delta, op>>

tqueue_pop_reschedule(timeout) ==
  LET i == next[ROOT]
  IN  /\ op = NoCall
      /\ i # NULL
      /\ delta[i] = 0
      /\ Prepare([next EXCEPT ![ROOT] = next[i]], i, timeout)
      /\ list' = Schedule(Tail(list), i, timeout)

tqueue_remove(i) ==
  /\ op = NoCall
  /\ op' = Call("remove", i, 0)
  /\ list' = Without(list, i)
  /\ UNCHANGED <<next, delta>>

\* tqueue_reschedule: the second half is skipped for an item that is not found.
tqueue_reschedule(i, timeout) ==
  /\ op = NoCall
  /\ op' = Call("reschedule", i, timeout)
  /\ list' = IF i \in Items(list) THEN Schedule(Without(list, i), i, timeout)
             ELSE list
  /\ UNCHANGED <<next, delta>>

\* tqueue_remove that drops the remaining time of the item it removes.
tqueue_remove_step_DropsTime ==
  /\ op.fn \in {"remove", "reschedule"}
  /\ Cur = op.item
  /\ next' = [next EXCEPT ![op.at] = next[Cur], ![Cur] = NULL]
  /\ op' = IF op.fn = "remove" THEN NoCall ELSE [op EXCEPT !.fn = "removed"]
  /\ UNCHANGED <<delta, list>>

\* The iteration of tqueue_remove that finds the item.
tqueue_remove_step ==
  /\ op.fn \in {"remove", "reschedule"}
  /\ Cur = op.item
  /\ next' = [next EXCEPT ![op.at] = next[Cur], ![Cur] = NULL]
  /\ delta' = IF next[Cur] = NULL THEN delta
              ELSE [delta EXCEPT ![next[Cur]] = (@ + delta[Cur]) % WIDTH]
  /\ op' = IF op.fn = "remove" THEN NoCall ELSE [op EXCEPT !.fn = "removed"]
  /\ UNCHANGED list

\* tqueue_remove that does not move on to the next item.
tqueue_remove_walk_Stays ==
  /\ op.fn \in {"remove", "reschedule"}
  /\ Cur # op.item
  /\ op' = IF Cur = NULL THEN NoCall ELSE op
  /\ UNCHANGED <<next, delta, list>>

\* The other iterations, and the end of the list: -ENOENT.
tqueue_remove_walk ==
  /\ op.fn \in {"remove", "reschedule"}
  /\ Cur # op.item
  /\ op' = IF Cur = NULL THEN NoCall ELSE [op EXCEPT !.at = Cur]
  /\ UNCHANGED <<next, delta, list>>

tqueue_reschedule_schedule ==
  /\ op.fn = "removed"
  /\ Prepare(next, op.item, op.time)
  /\ UNCHANGED list

-----------------------------------------------------------------------------
TqueueInit == /\ next = [i \in Entries \cup {ROOT} |-> NULL]
              /\ delta = [i \in Entries |-> 0]
              /\ op = NoCall
              /\ list = <<>>

\* The rest of the call in progress.
TqueueStep == \/ z_tqueue_schedule \/ tqueue_shift_step
              \/ tqueue_remove_step \/ tqueue_remove_walk
              \/ tqueue_reschedule_schedule

TqueueCall == \/ tqueue_pop
              \/ \E time \in Delta :
                   \/ tqueue_shift(time) \/ tqueue_pop_reschedule(time)
                   \/ \E i \in Entries : \/ tqueue_schedule(i, time)
                                         \/ tqueue_reschedule(i, time)
              \/ \E i \in Entries : tqueue_remove(i)

-----------------------------------------------------------------------------
(* Properties *)

\* The linked list read from the root: its nodes, and for each the sum of the
\* deltas up to it.
Chain ==
  LET N == Cardinality(Entries)
      node[n \in 0 .. N] ==
        IF n = 0 THEN ROOT
        ELSE IF node[n - 1] = NULL THEN NULL ELSE next[node[n - 1]]
      left[n \in 0 .. N] ==
        IF n = 0 \/ node[n] = NULL THEN 0 ELSE left[n - 1] + delta[node[n]]
  IN  [n \in 1 .. Cardinality({n \in 1 .. N : node[n] # NULL}) |->
         [item |-> node[n], left |-> left[n]]]

\* Between two calls the delta queue is the list of TimeoutList: every item is
\* reached once, in the order of expiry and of insertion, and the sum of the
\* deltas up to it is its time left, with no wrap-around of a delta, and the
\* last item has no next one.
AgreesWithList ==
  op = NoCall =>
    /\ Chain = list
    /\ next[IF list = <<>> THEN ROOT ELSE list[Len(list)].item] = NULL

\* Every call returns.
CallsReturn == (op # NoCall) ~> (op = NoCall)
=============================================================================
