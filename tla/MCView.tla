-------------------------------- MODULE MCView --------------------------------
(***************************************************************************)
(* ViewArray for TLC: what messages say of a node, of two incarnations.    *)
(***************************************************************************)
EXTENDS ViewArray

State == INSTANCE SwimState

MCInfos ==
  [status : {State!UNKNOWN, State!ALIVE, State!DEAD}, incarnation : {0, 1},
   age : {0}, addr : Addr, witness : {NoAddr}]
==============================================================================
