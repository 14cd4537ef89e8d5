---------------------------- MODULE MCMatchPaths ----------------------------
(* MatchPaths for TLC: three entries and three machines, every eligibility  *)
(* relation between them (512 initial states).                              *)
EXTENDS MatchPaths
=============================================================================
