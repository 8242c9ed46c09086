-------------------------- MODULE MCDetectionEngine --------------------------
(* Instances of DetectionEngine for TLC: more eligible pairs than places   *)
(* in the errgroup, fewer keys than findings, and a second run on the same *)
(* scan job.                                                               *)
EXTENDS DetectionEngine, TLC
=============================================================================
