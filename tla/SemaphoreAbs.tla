----------------------------- MODULE SemaphoreAbs -----------------------------
(***************************************************************************)
(* What a counting semaphore promises to its users, without a kernel: a    *)
(* number of units and a first-in first-out line of threads.  A unit given *)
(* goes to the first thread of the line, or is counted up to the limit; a  *)
(* wait ends by a unit, by its timeout or by a cancellation, and never by  *)
(* two of them.                                                            *)
(***************************************************************************)
EXTENDS Naturals, Sequences

CONSTANTS Threads, Sems, Limit

VARIABLES
  units,          \* semaphore -> units available
  line,           \* semaphore -> sequence of the waiting threads
  outcome         \* semaphore -> thread -> how its wait ended, until it returns

vars == <<units, line, outcome>>

Outcomes == {"OK", "ETIMEDOUT", "ECANCELED"}

NotWaiting(s, t) ==
  outcome[s][t] = "none" /\ \A i \in DOMAIN line[s] : line[s][i] # t

\* The wait of the i-th thread of the line ends.
EndWait(s, i, how) ==
  /\ i \in DOMAIN line[s]
  /\ line' = [line EXCEPT ![s] = SubSeq(@, 1, i - 1) \o SubSeq(@, i + 1, Len(@))]
  /\ outcome' = [outcome EXCEPT ![s] = [@ EXCEPT ![line[s][i]] = how]]
  /\ UNCHANGED units

Init == /\ units \in [Sems -> Nat]
        /\ \A s \in Sems : units[s] <= Limit[s]
        /\ line = [s \in Sems |-> <<>>]
        /\ outcome = [s \in Sems |-> [t \in Threads |-> "none"]]

TakeUnit(s) ==
  /\ units[s] > 0
  /\ units' = [units EXCEPT ![s] = @ - 1]
  /\ UNCHANGED <<line, outcome>>

Wait(s, t) ==
  /\ units[s] = 0
  /\ NotWaiting(s, t)
  /\ line' = [line EXCEPT ![s] = Append(@, t)]
  /\ UNCHANGED <<units, outcome>>

Give(s) ==
  \/ EndWait(s, 1, "OK")
  \/ /\ line[s] = <<>>
     /\ units[s] < Limit[s]
     /\ units' = [units EXCEPT ![s] = @ + 1]
     /\ UNCHANGED <<line, outcome>>

TimeOut(s) == \E i \in DOMAIN line[s] : EndWait(s, i, "ETIMEDOUT")

Cancel(s) == EndWait(s, 1, "ECANCELED")

Return(s, t) ==
  /\ outcome[s][t] \in Outcomes
  /\ outcome' = [outcome EXCEPT ![s] = [@ EXCEPT ![t] = "none"]]
  /\ UNCHANGED <<units, line>>

Next ==
  \E s \in Sems :
    \/ TakeUnit(s) \/ Give(s) \/ TimeOut(s) \/ Cancel(s)
    \/ \E t \in Threads : Wait(s, t) \/ Return(s, t)

Spec == Init /\ [][Next]_vars
===============================================================================
