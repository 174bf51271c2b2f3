---------------------------- MODULE MCKlineChart ----------------------------
(***************************************************************************)
(* Instances of KlineChart for TLC.                                        *)
(***************************************************************************)
EXTENDS KlineChart

CONSTANTS m1, m5
=============================================================================
