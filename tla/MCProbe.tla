------------------------------- MODULE MCProbe -------------------------------
(***************************************************************************)
(* ProbeSchedule for TLC.                                                  *)
(***************************************************************************)
EXTENDS ProbeSchedule

\* Only additions and probes, of members that stay alive
GrowingNext == swim_probe_next \/ \E k \in 0..view_size : swim_state_add(k, FALSE)
GrowingSpec == Init /\ [][GrowingNext]_vars
==============================================================================
