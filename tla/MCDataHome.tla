----------------------------- MODULE MCDataHome -----------------------------
(* DataHome for TLC: a few chunks through a few small generations.           *)
EXTENDS DataHomeProps, TLC

CONSTANTS c1, c2, c3, h1, h2

ChunkSymmetry == Permutations(Chunks \ (HeldOut \cup Damaged)) \cup Permutations(HeldOut \ Damaged)
=============================================================================
