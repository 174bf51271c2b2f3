---------------------------- MODULE MCOrderFlow ----------------------------
(***************************************************************************)
(* Instances of OrderFlow for TLC.                                         *)
(***************************************************************************)
EXTENDS OrderFlow, TLC

CONSTANT first  \* the request that is already over in WarmInit

RequestSymmetry == Permutations(Requests)

\* A reachable state to start from: one request has registered the browser, bought
\* some of an active pair at price 1, and had its cookie delivered.  The account owns
\* both assets of the pair, so the next orders can lock the balances in both orders.
WarmUser == <<first, "visit">>
WarmBuy(p) == [kind |-> "market", side |-> "BUY", pair |-> p,
               quantity |-> CHOOSE q \in Quantities : RoundDown(q) >= MinQuantity]

WarmInit ==
    \E pair \in ActivePairs :
    LET bought == Executed(WarmBuy(pair)) IN
    /\ jar = WarmUser
    /\ live = {WarmUser}
    /\ rows = [u \in Users |-> IF u = WarmUser THEN {Quote, pair} ELSE {}]
    /\ free = [u \in Users |-> IF u = WarmUser
                               THEN [Grant EXCEPT ![Quote] = @ - bought, ![pair] = bought] ELSE Zero]
    /\ orders = {[id |-> first, account |-> WarmUser, side |-> "BUY", pair |-> pair,
                  quantity |-> bought, status |-> "FILLED"]}
    /\ trades = {[order |-> first, account |-> WarmUser, side |-> "BUY", pair |-> pair,
                  quantity |-> bought, quote |-> bought]}
    /\ pc = [r \in Requests |-> IF r = first THEN "done" ELSE "idle"]
    /\ body = [r \in Requests |-> IF r = first THEN WarmBuy(pair) ELSE NoOrder]
    /\ user = [r \in Requests |-> IF r = first THEN WarmUser ELSE NoUser]
    /\ setCookie = [r \in Requests |-> IF r = first THEN WarmUser ELSE NoUser]
    /\ price = [r \in Requests |-> IF r = first THEN 1 ELSE 0]
    /\ snap = [r \in Requests |-> Zero]
    /\ missed = [r \in Requests |-> {}]
    /\ locks = [r \in Requests |-> {}]
    /\ reply = [r \in Requests |-> IF r = first THEN "201" ELSE "none"]

WarmSpec == WarmInit /\ [][Next]_vars /\ Fairness
=============================================================================
