---------------------------- MODULE TaskDispatch ----------------------------
(***************************************************************************)
(* What the task queue promises, without rows, claims, leases or daemons:  *)
(* a submitted task is pending; it is held by at most one daemon, may be   *)
(* given back before it began, begins at most once and ends for good.      *)
(* Tasks of one serialized work are held one at a time and an agent never  *)
(* has more tasks held or begun than its capacity.                         *)
(***************************************************************************)
EXTENDS Naturals, FiniteSets

CONSTANTS Id, Agent, Work, Capacity

VARIABLES
  phase,  \* phase[i]: where task i is
  what    \* what[i]: the work of task i

Phase == {"none", "pending", "held", "begun", "done"}

Busy(i) == phase[i] \in {"held", "begun"}
BusyFor(a) == {i \in Id : Busy(i) /\ what[i].agent = a}
\* Of two tasks of a serialized work only one may be busy.
Conflict(i, j) == i # j /\ what[i] = what[j] /\ what[i].kind # "run"

Init ==
  /\ phase = [i \in Id |-> "none"]
  /\ what \in [Id -> Work]

\* Tasks end, however they end, and others are submitted in the same breath: a
\* failure and its retry are one step.
EndAndSubmit ==
  \E E, S \in SUBSET Id :
    /\ \A i \in E : phase[i] \in {"pending", "held", "begun"}
    /\ \A i \in S : phase[i] = "none"
    /\ phase' = [i \in Id |-> IF i \in E THEN "done"
                              ELSE IF i \in S THEN "pending" ELSE phase[i]]
    /\ what' \in [Id -> Work]
    /\ \A i \in Id \ S : what'[i] = what[i]

Hold(i) ==
  /\ phase[i] = "pending"
  /\ \A j \in Id : Conflict(i, j) => ~Busy(j)
  /\ Cardinality(BusyFor(what[i].agent)) < Capacity[what[i].agent]
  /\ phase' = [phase EXCEPT ![i] = "held"]
  /\ UNCHANGED what

GiveBack(i) ==
  /\ phase[i] = "held"
  /\ phase' = [phase EXCEPT ![i] = "pending"]
  /\ UNCHANGED what

Begin(i) ==
  /\ phase[i] = "held"
  /\ phase' = [phase EXCEPT ![i] = "begun"]
  /\ UNCHANGED what

Next == EndAndSubmit \/ \E i \in Id : Hold(i) \/ GiveBack(i) \/ Begin(i)

Spec == Init /\ [][Next]_<<phase, what>>
=============================================================================
