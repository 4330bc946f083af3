------------------------------- MODULE MCSwim --------------------------------
(***************************************************************************)
(* Instances of Swim for TLC: deployments of two to four processes, and    *)
(* clusters that have already formed as alternative initial states.        *)
(***************************************************************************)
EXTENDS Swim, TLC

CONSTANTS a1, a2, a3

\* Process i has an address of its own
OwnAddress == 1 :> a1 @@ 2 :> a2 @@ 3 :> a3
PairAddress == 1 :> a1 @@ 2 :> a2

\* Four processes; only process 1 is still to join, through process 2
FourAddress == 1 :> 11 @@ 2 :> 12 @@ 3 :> 13 @@ 4 :> 14
SecondSeed == [n \in Node |-> {AddrOf[2]}]

\* Process 3 is what runs at the address of process 1 after a restart
ReusedAddress == 1 :> a1 @@ 2 :> a2 @@ 3 :> a1

AnySeed == [n \in Node |-> Addr \cup {NoAddr}]

\* Every process but the first joins through the one before it
ChainSeed == [n \in Node |-> IF n = 1 THEN {NoAddr} ELSE {AddrOf[n - 1]}]

\* What n knows when the cluster has formed, late seconds after it heard of 3
FormedView(n, late) ==
  [u \in Node \ {n} |->
     [status |-> ALIVE, incarnation |-> 0, age |-> IF u = 3 THEN late ELSE 0,
      addr |-> AddrOf[u], witness |-> NoAddr]]

\* The state after 1 has started, 2 and 3 have joined through it and all
\* datagrams have arrived within the same second
Formed ==
  /\ pc = [n \in Node |-> "recv"]
  /\ incarnation = [n \in Node |-> 0]
  /\ view = [n \in Node |-> FormedView(n, 0)]
  /\ hbAge = [n \in Node |-> 0]
  /\ downAge = [n \in Node |-> 0]
  /\ net = {}

FormedSpec == Formed /\ [][Next]_vars

\* A state in which 3 has just stopped: one of the others has heard of it this
\* second, the other one some time ago, though a PING or an ACK of 3 may still
\* be on its way to it
Bereaved ==
  /\ pc = [n \in Node |-> IF n = 3 THEN "stopped" ELSE "recv"]
  /\ incarnation = [n \in Node |-> 0]
  /\ hbAge = [n \in Node |-> 0]
  /\ downAge = [n \in Node |-> 0]
  /\ \E near \in 1..2, late \in 0..(SuspectAfter - 1),
        type \in {"PING", "ACK", "none"} :
       /\ view = [n \in Node |-> IF n = 3 THEN Nothing
                                 ELSE FormedView(n, IF n = near THEN 0 ELSE late)]
       /\ net = {[type |-> t, uuid |-> 3, age |-> 0, incarnation |-> 0,
                  from |-> AddrOf[3], to |-> AddrOf[3 - near],
                  arg |-> IF t = "ACK" THEN 3 ELSE NilUuid, joinaddr |-> NoAddr,
                  gossip |-> [u \in 1..2 |-> swim_node_copy(FormedView(3, 0)[u], 1)]]
                 : t \in {type} \ {"none"}}

BereavedFairSpec == Bereaved /\ [][Next]_vars /\ Fairness

\* The state after 2 has started, 3 has joined through it and 4 through 3, all
\* within the same second and with every answer lost: 2 knows 3 and 3 knows 4
Strangers ==
  /\ pc = [n \in Node |-> IF n = 1 THEN "new" ELSE "recv"]
  /\ incarnation = [n \in Node |-> 0]
  /\ view = [n \in Node |-> [u \in {n + 1} \cap (3..4) |->
               [status |-> ALIVE, incarnation |-> 0, age |-> 0,
                addr |-> AddrOf[u], witness |-> NoAddr]]]
  /\ hbAge = [n \in Node |-> 0]
  /\ downAge = [n \in Node |-> 0]
  /\ net = {}

StrangersSpec == Strangers /\ [][Next]_vars

==============================================================================
