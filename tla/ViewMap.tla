------------------------------- MODULE ViewMap -------------------------------
(***************************************************************************)
(* What the view of a process promises: a map from UUIDs to entries, on    *)
(* which the functions of swim/state.c act as module SwimState says.       *)
(* Module ViewArray shows that the sorted array keeps that promise.        *)
(*                                                                         *)
(* The promise has a limit: beyond Cleared members an added entry may come *)
(* with a witness, and with no memory left a node is not added at all.     *)
(***************************************************************************)
EXTENDS SwimState

CONSTANTS
  Cleared,  \* slots that swim_state_init clears (32)
  Infos     \* the entries that messages speak of

VARIABLE members    \* the entries, by UUID

\* The view with u added, in all the ways it may come out
AddedTo(u, info) ==
  {[swim_state_add(members, u, info) EXCEPT ![u].witness = w] :
     w \in IF Cardinality(DOMAIN members) < Cleared
           THEN {NoAddr} ELSE Addr \cup {NoAddr}}

Init == members = Nothing

Add(u, info) == u \notin DOMAIN members /\ members' \in AddedTo(u, info)

\* The status switch of swim_process_ack on entry u of view v
Refuted(v, u) ==
  IF v[u].status \in {SUSPECT, UNKNOWN} THEN swim_cluster_refuted_dead(v, u)
  ELSE v

\* An ACK for a node that is new looks at the entry with the largest UUID
Ack(u, info) ==
  \/ u \in DOMAIN members /\ members' = Refuted(members, u)
  \/ /\ u \notin DOMAIN members
     /\ \E v \in AddedTo(u, info) : members' = Refuted(v, Added(v))

\* An entry is changed in place
Change(u) ==
  /\ u \in DOMAIN members
  /\ \/ \E addr \in Addr : members' = swim_state_suspect(members, u, addr)
     \/ \E info \in Infos :
          members' = swim_state_notice(members, u, info.age, info.incarnation)
     \/ members' = [members EXCEPT ![u].status = DEAD]
     \/ \E info \in Infos :
          members' = [members EXCEPT ![u] = MergeEntry(@, info)]

Next == \E u \in Node :
  \/ \E info \in Infos : Add(u, info) \/ Ack(u, info)
  \/ Change(u)

Spec == Init /\ [][Next]_members
==============================================================================
