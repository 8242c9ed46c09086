----------------------------- MODULE MCJobStore -----------------------------
(* Instances of JobStore for TLC: three processes share two pids, so that a*)
(* dead scanner's pid is taken again while its job is still open, and one  *)
(* of them, which may not be signalled by the others, is an older binary.  *)
EXTENDS JobStore, TLC

CONSTANTS a, b, c

TwoKnown == (a :> 2) @@ (b :> 2)
ThreeKnown == TwoKnown @@ (c :> 1)
=============================================================================
