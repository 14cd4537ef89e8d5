----------------------------- MODULE MCTagQueue -----------------------------
(* TagQueue for TLC: small pools, and the commands and faults each run       *)
(* explores.                                                                 *)
EXTENDS TagQueueProps, TLC

CONSTANTS t1, t2, m1, m2, gen, train

AllPairs == Tags \X Machines

\* Two tags over two machines; tag t2 fits the second one only.
UnevenPairs == {<<t1, m1>>, <<t1, m2>>, <<t2, m2>>}

TagSymmetry == Permutations(Tags)

=============================================================================
