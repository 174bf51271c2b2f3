--------------------------- MODULE MCBalanceCache ---------------------------
(***************************************************************************)
(* Instances of BalanceCache for TLC.                                      *)
(***************************************************************************)
EXTENDS BalanceCache

CONSTANTS o1, o2, r1, r2
=============================================================================
