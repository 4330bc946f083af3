------------------------------ MODULE ProbeRound ------------------------------
(***************************************************************************)
(* What the probe schedule promises (the comments of swim/state.h and      *)
(* swim/state.c on ProbeSchedule): probing proceeds in rounds, and a round *)
(* probes every member of the view that is not dead exactly once, in no    *)
(* particular order.  ProbeSchedule implements it.                         *)
(*                                                                         *)
(* Members are known by their slot in the sorted array swim->view.         *)
(***************************************************************************)
EXTENDS Integers

VARIABLES
  view_size,        \* swim->view_size
  dead,             \* slots whose status is SWIM_STATUS_DEAD
  todo,             \* slots the current round has not come to yet
  target            \* what the last call of swim_probe_next returned

vars == <<view_size, dead, todo, target>>

Nobody == -1

\* The slots a call chooses from: a new round when the last one is over
Round == IF todo = {} THEN 0..view_size-1 ELSE todo

Init == view_size = 0 /\ dead = {} /\ todo = {} /\ target = Nobody

\* A member of the round is probed; only dead ones are passed over
Probe(i) ==
  /\ i \in Round \ dead
  /\ todo' \in SUBSET (Round \ {i})
  /\ Round \ todo' \subseteq dead \cup {i}
  /\ target' = i
  /\ UNCHANGED <<view_size, dead>>

\* A round that has only dead members left ends without a probe
EndRound ==
  /\ view_size > 0
  /\ Round \subseteq dead
  /\ todo' = {}
  /\ target' = Nobody
  /\ UNCHANGED <<view_size, dead>>

\* No memory for a new round: nobody is probed
NoRound ==
  /\ todo = {}
  /\ target' = Nobody
  /\ UNCHANGED <<view_size, dead, todo>>

\* A member is added, or one leaves: the round is abandoned
Change ==
  /\ view_size' \in {view_size, view_size + 1}
  /\ dead' \in SUBSET (0..view_size'-1)
  /\ todo' = {}
  /\ target' \in {target, Nobody}

\* Members die and come back to life in the middle of a round
StatusChange ==
  /\ dead' \in SUBSET (0..view_size-1)
  /\ UNCHANGED <<view_size, todo, target>>

Next ==
  \/ \E i \in 0..view_size-1 : Probe(i)
  \/ EndRound
  \/ NoRound
  \/ Change
  \/ StatusChange

Spec == Init /\ [][Next]_vars
==============================================================================
