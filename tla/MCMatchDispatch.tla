--------------------------- MODULE MCMatchDispatch ---------------------------
(* MatchDispatch for TLC.                                                    *)
EXTENDS MatchDispatchProps
=============================================================================
