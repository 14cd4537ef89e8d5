---------------------------- MODULE MCHomeMoves ----------------------------
(* HomeMoves for TLC.                                                        *)
EXTENDS HomeMovesProps
=============================================================================
