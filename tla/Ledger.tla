------------------------------- MODULE Ledger -------------------------------
(***************************************************************************)
(* What the REST side of the exchange promises about money, with no HTTP,  *)
(* no cookie, no row lock and no transaction in sight: an account is       *)
(* opened with the starting grant, a market order moves two balances and   *)
(* leaves one trade in one indivisible step, and a reset replaces an       *)
(* account and its whole history by a fresh one.  OrderFlow, where these   *)
(* steps are interleaved statements of concurrent transactions, is proved  *)
(* to implement this module.                                               *)
(***************************************************************************)
EXTENDS Integers

CONSTANTS
    Accounts,   \* the identities an account can ever have
    OrderIds,   \* the identities an order can ever have
    Pairs,      \* trading pairs, each named by its base asset
    Quote,      \* the quote asset of every pair (USDT)
    Start,      \* the grant of quote asset a fresh account receives
    Amounts,    \* executed quantities
    Prices      \* prices an order may be filled at

VARIABLES
    live,       \* accounts that exist
    free,       \* free[u][a]: balance of asset a in account u
    trades      \* trades of the accounts that exist

vars == <<live, free, trades>>

Assets == Pairs \cup {Quote}

Zero  == [a \in Assets |-> 0]
Grant == [Zero EXCEPT ![Quote] = Start]

Init ==
    /\ live = {}
    /\ free = [u \in Accounts |-> Zero]
    /\ trades = {}

Open(u) ==
    /\ u \notin live
    /\ live' = live \cup {u}
    /\ free' = [free EXCEPT ![u] = Grant]
    /\ UNCHANGED trades

\* A market buy of q units at price p, and its mirror image.
Buy(u, id, pair, q, p) ==
    /\ u \in live
    /\ free[u][Quote] >= q * p
    /\ free' = [free EXCEPT ![u][Quote] = @ - q * p, ![u][pair] = @ + q]
    /\ trades' = trades \cup {[order |-> id, account |-> u, side |-> "BUY",
                               pair |-> pair, quantity |-> q, quote |-> q * p]}
    /\ UNCHANGED live

Sell(u, id, pair, q, p) ==
    /\ u \in live
    /\ free[u][pair] >= q
    /\ free' = [free EXCEPT ![u][pair] = @ - q, ![u][Quote] = @ + q * p]
    /\ trades' = trades \cup {[order |-> id, account |-> u, side |-> "SELL",
                               pair |-> pair, quantity |-> q, quote |-> q * p]}
    /\ UNCHANGED live

\* The old account may be gone already: a second reset of the same identity
\* still opens a fresh account.
Reset(old, new) ==
    /\ new \notin live
    /\ live' = (live \ {old}) \cup {new}
    /\ free' = [free EXCEPT ![old] = Zero, ![new] = Grant]
    /\ trades' = {t \in trades : t.account # old}

Next ==
    \/ \E u \in Accounts : Open(u)
    \/ \E u \in Accounts, id \in OrderIds, pair \in Pairs, q \in Amounts, p \in Prices :
          Buy(u, id, pair, q, p) \/ Sell(u, id, pair, q, p)
    \/ \E old, new \in Accounts : old # new /\ Reset(old, new)

Spec == Init /\ [][Next]_vars
=============================================================================
