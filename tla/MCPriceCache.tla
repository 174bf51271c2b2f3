---------------------------- MODULE MCPriceCache ----------------------------
(***************************************************************************)
(* Instances of PriceCache for TLC: an order, a valuation of two assets    *)
(* and a chart that opens.                                                 *)
(***************************************************************************)
EXTENDS PriceCache, TLC

CONSTANTS order, balances, chart, btcPrice, ethPrice, candles

MCTtl  == (btcPrice :> 2) @@ (ethPrice :> 2) @@ (candles :> 0)
MCPlan == (order :> <<btcPrice>>) @@ (balances :> <<btcPrice, ethPrice>>)
          @@ (chart :> <<candles>>)
MCTtlOf  == [k \in Keys |-> MCTtl[k]]
MCPlanOf == [c \in Callers |-> MCPlan[c]]
=============================================================================
