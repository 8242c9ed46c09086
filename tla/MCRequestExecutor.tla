-------------------------- MODULE MCRequestExecutor --------------------------
(* Instances of RequestExecutor for TLC: in each executor more calls than  *)
(* slots, more than each budget allows, and two mutations of one target.   *)
EXTENDS RequestExecutor, TLC

CONSTANTS m3, t1, t2

MCTarget == [m \in Mutated |-> IF m = m3 THEN t2 ELSE t1]
=============================================================================
