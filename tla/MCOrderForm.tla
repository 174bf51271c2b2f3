---------------------------- MODULE MCOrderForm ----------------------------
(***************************************************************************)
(* Instances of OrderForm for TLC: a pair whose lot is coarser than the    *)
(* form's default, and one with the default.                               *)
(***************************************************************************)
EXTENDS OrderForm, TLC

CONSTANTS BTC, ETH

LotOf == [s \in Symbols |-> IF s = BTC THEN 2 ELSE 1]
PricesOf == [s \in Symbols |-> IF s = BTC THEN {2, 3} ELSE {2}]
MinOf == [s \in Symbols |-> IF s = BTC THEN 2 ELSE 1]
=============================================================================
