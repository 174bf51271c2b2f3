--------------------------- MODULE OrderFlow_proofs ---------------------------
(***************************************************************************)
(* Theorems about OrderFlow, for every number of requests, pairs, prices   *)
(* and quantities: the inductive invariant, what an answer says about the  *)
(* rows in the database, what becomes of the browser's cookie, and that    *)
(* concurrent transactions look like the atomic steps of Ledger.           *)
(***************************************************************************)
EXTENDS OrderFlow, FiniteSetTheorems, TLAPS

-----------------------------------------------------------------------------
\* The arithmetic of one order

LEMMA NatProduct ==
    ASSUME NEW m \in Nat \ {0}, NEW n \in Nat \ {0}
    PROVE  m * n \in Nat \ {0}
OBVIOUS

\* An accepted market order spends a positive amount of one asset and receives a
\* positive amount of another.
LEMMA OrderAmounts ==
    ASSUME NEW b \in Bodies, b.kind = "market", Acceptable(b)
    PROVE  /\ b.side \in Sides
           /\ b.pair \in Pairs
           /\ Executed(b) \in Nat \ {0}
           /\ SpendAsset(b) \in Assets
           /\ ReceiveAsset(b) \in Assets
           /\ SpendAsset(b) # ReceiveAsset(b)
           /\ \A p \in Prices : /\ QuoteAmount(b, p) \in Nat \ {0}
                                /\ SpendAmount(b, p) \in Nat \ {0}
                                /\ ReceiveAmount(b, p) \in Nat \ {0}
<1>1. /\ b.side \in Sides
      /\ b.pair \in Pairs
      /\ b.quantity \in Quantities
  BY DEF Bodies
<1>2. Executed(b) \in Nat \ {0}
  <2>1. b.quantity \in Nat /\ LotStep \in Nat \ {0} /\ MinQuantity \in Nat \ {0}
    BY <1>1, OrderFlowConstants
  <2>2. Executed(b) \in Int
    BY <2>1 DEF Executed, RoundDown
  <2>3. QED
    BY <2>1, <2>2 DEF Acceptable
<1>3. \A p \in Prices : QuoteAmount(b, p) \in Nat \ {0}
  BY <1>2, NatProduct, OrderFlowConstants DEF QuoteAmount
<1>4. /\ SpendAsset(b) \in Assets
      /\ ReceiveAsset(b) \in Assets
      /\ SpendAsset(b) # ReceiveAsset(b)
  BY <1>1, OrderFlowConstants DEF SpendAsset, ReceiveAsset, Assets
<1>5. QED
  BY <1>1, <1>2, <1>3, <1>4 DEF SpendAmount, ReceiveAmount

-----------------------------------------------------------------------------
\* The initial states

LEMMA InitIInv == Init => IInv
<1> SUFFICES ASSUME Init PROVE IInv
  OBVIOUS
<1> USE DEF Init
<1>1. Zero \in [Assets -> Int]
  BY DEF Zero
<1>2. TypeOK
  BY <1>1 DEF TypeOK
<1>3. Solvent
  BY DEF Solvent, Zero
<1>4. Prepared
  BY DEF Prepared, Pricing, OrderTx, ResetTx
<1>5. BornBeforeKnown
  BY OrderFlowConstants DEF BornBeforeKnown, Unborn, Users
<1>6. RowsHoldMoney
  BY DEF RowsHoldMoney, Zero
<1>7. SnapshotFresh /\ RowsExclusive /\ DebitsCovered
  BY DEF SnapshotFresh, RowsExclusive, DebitsCovered, DebitCovered, Debited, OrderTx
<1>8. QED
  BY <1>2, <1>3, <1>4, <1>5, <1>6, <1>7 DEF IInv

-----------------------------------------------------------------------------
\* Steps of three kinds that touch neither the database nor a lock of others

\* A request that ends without a commit rolls back and gives up its locks.
LEMMA FailStep ==
    ASSUME IInv, NEW r \in Requests, NEW status \in Statuses, Fail(r, status)
    PROVE  IInv'
<1> USE DEF IInv, Fail, Answer, dbVars, browserVars
<1>1. TypeOK'
  BY DEF TypeOK, Zero, InFlight
<1>2. Solvent'
  BY DEF Solvent
<1>3. Prepared'
  BY DEF Prepared, TypeOK, Pricing, OrderTx, ResetTx, Market
<1>4. BornBeforeKnown'
  <2>1. Unborn' \subseteq Unborn
    BY DEF Unborn, TypeOK
  <2>2. QED
    BY <2>1 DEF BornBeforeKnown
<1>5. RowsHoldMoney'
  BY DEF RowsHoldMoney
<1>6. SnapshotFresh'
  BY DEF SnapshotFresh, TypeOK, OrderTx
<1>7. RowsExclusive'
  BY DEF RowsExclusive, TypeOK, OrderTx, ResetTx
<1>8. DebitsCovered'
  BY DEF DebitsCovered, DebitCovered, TypeOK, Debited, OrderTx, Spend, Receive
<1>9. QED
  BY <1>1, <1>2, <1>3, <1>4, <1>5, <1>6, <1>7, <1>8

\* A statement that waits for its locks, takes them and goes on.
LEMMA LockStep ==
    ASSUME IInv, NEW r \in Requests, NEW wanted \in SUBSET RowLocks, NEW next,
           LockAndGo(r, wanted, next),
           \/ /\ pc[r] = "debit" /\ next = "credit"
              /\ Covered(r) /\ Spend(r) \in wanted /\ Spend(r) \notin missed[r]
           \/ pc[r] = "credit" /\ next = "insertOrder" /\ Receive(r) \in wanted
           \/ pc[r] = "insertOrder" /\ next = "insertTrade"
           \/ pc[r] = "insertTrade" /\ next = "commitOrder"
           \/ pc[r] \in ResetTx /\ next \in ResetTx
    PROVE  IInv'
<1> USE DEF IInv, LockAndGo, dbVars, browserVars
<1>1. TypeOK'
  BY DEF TypeOK, InFlight, OrderTx, ResetTx
<1>2. Solvent'
  BY DEF Solvent
<1>3. Prepared'
  BY DEF Prepared, TypeOK, Pricing, OrderTx, ResetTx, Market
<1>4. BornBeforeKnown'
  <2>1. Unborn' = Unborn
    BY DEF Unborn, TypeOK, OrderTx, ResetTx
  <2>2. QED
    BY <2>1 DEF BornBeforeKnown
<1>5. RowsHoldMoney'
  BY DEF RowsHoldMoney
<1>6. SnapshotFresh'
  BY DEF SnapshotFresh, TypeOK, OrderTx, ResetTx
<1>7. RowsExclusive'
  <2>1. ASSUME NEW o \in Requests, o # r, user[o] = user[r], NEW a \in Assets, a \in wanted
        PROVE  a \notin locks[o]
    <3>1. a # "account_key"
      BY OrderFlowConstants DEF Assets
    <3>2. QED
      BY <2>1, <3>1 DEF Grantable, Blockers, Conflict
  <2>2. \A o \in Requests : pc'[o] \notin OrderTx \cup ResetTx => locks'[o] = {}
    BY DEF RowsExclusive, TypeOK, OrderTx, ResetTx
  <2>3. QED
    BY <2>1, <2>2 DEF RowsExclusive, TypeOK
<1>8. DebitsCovered'
  <2>1. ASSUME NEW o \in Requests, o # r PROVE DebitCovered(o)'
    <3>1. pc'[o] = pc[o] /\ locks'[o] = locks[o]
      BY <2>1 DEF TypeOK
    <3>2. DebitCovered(o)
      BY DEF DebitsCovered
    <3>3. QED
      BY <3>1, <3>2 DEF DebitCovered, Debited, Spend, Receive
  <2>2. pc'[r] = next /\ locks'[r] = locks[r] \cup wanted
    BY DEF TypeOK
  <2>3. DebitCovered(r)
    BY DEF DebitsCovered
  <2>4. ASSUME pc[r] = "debit" PROVE DebitCovered(r)'
    <3>1. user[r] \in Users /\ Spend(r) \in Assets
          /\ SpendAmount(body[r], price[r]) \in Nat \ {0}
      BY <2>4, OrderAmounts DEF Prepared, Pricing, OrderTx, Market, Spend
    <3>2. free[user[r]][Spend(r)] >= SpendAmount(body[r], price[r])
      BY <2>4, <3>1 DEF SnapshotFresh, Covered, OrderTx, ResetTx
    <3>3. Spend(r) \in rows[user[r]]
      BY <3>1, <3>2 DEF RowsHoldMoney
    <3>4. QED
      BY <2>2, <2>4, <3>2, <3>3 DEF DebitCovered, Debited, OrderTx, ResetTx, Spend, Receive
  <2>5. ASSUME pc[r] # "debit" PROVE DebitCovered(r)'
    BY <2>2, <2>3, <2>5 DEF DebitCovered, Debited, OrderTx, ResetTx, Spend, Receive
  <2>6. QED
    BY <2>1, <2>4, <2>5 DEF DebitsCovered
<1>9. QED
  BY <1>1, <1>2, <1>3, <1>4, <1>5, <1>6, <1>7, <1>8

\* A request that moves on without touching anything shared.
LEMMA QuietStep ==
    ASSUME IInv, NEW r \in Requests,
           NEW next \in {"handle", "register", "pricing", "lost"} \cup ResetTx,
           pc' = [pc EXCEPT ![r] = next],
           UNCHANGED <<browserVars, dbVars, txVars, body, user, setCookie, price, reply>>,
           next = "register" => pc[r] = "lookup",
           next # "lost" => pc[r] \notin {"replied", "done", "lost"},
           next \in {"handle", "pricing"} \cup ResetTx => user[r] \in Users,
           next = "pricing" => Market(r) /\ body[r] \in Bodies /\ Acceptable(body[r]),
           pc[r] \in OrderTx \cup ResetTx => next \in ResetTx
    PROVE  IInv'
<1> USE DEF IInv, dbVars, browserVars, txVars
<1>1. TypeOK'
  BY DEF TypeOK, InFlight, ResetTx
<1>2. Solvent'
  BY DEF Solvent
<1>3. Prepared'
  BY DEF Prepared, TypeOK, Pricing, OrderTx, ResetTx, Market
<1>4. BornBeforeKnown'
  <2>1. Unborn' \subseteq Unborn
    BY DEF Unborn, TypeOK, ResetTx
  <2>2. QED
    BY <2>1 DEF BornBeforeKnown
<1>5. RowsHoldMoney'
  BY DEF RowsHoldMoney
<1>6. SnapshotFresh'
  BY DEF SnapshotFresh, TypeOK, OrderTx, ResetTx
<1>7. RowsExclusive'
  BY DEF RowsExclusive, TypeOK, OrderTx, ResetTx
<1>8. DebitsCovered'
  BY DEF DebitsCovered, DebitCovered, TypeOK, Debited, OrderTx, ResetTx, Spend, Receive
<1>9. QED
  BY <1>1, <1>2, <1>3, <1>4, <1>5, <1>6, <1>7, <1>8

-----------------------------------------------------------------------------
\* The browser, the middleware and the first statement

LEMMA GrantType == Grant \in [Assets -> Int] /\ Quote \in Assets
BY OrderFlowConstants DEF Grant, Zero, Assets

LEMMA GrantBalances ==
    \A a \in Assets : /\ Grant[a] >= 0
                      /\ a # Quote => Grant[a] = 0
BY OrderFlowConstants DEF Grant, Zero, Assets

LEMMA SendStep ==
    ASSUME IInv, NEW r \in Requests, Send(r)
    PROVE  IInv'
<1> USE DEF IInv, Send, dbVars, txVars, browserVars
<1>1. TypeOK'
  BY DEF TypeOK, InFlight
<1>2. Solvent'
  BY DEF Solvent
<1>3. Prepared'
  BY DEF Prepared, TypeOK, Pricing, OrderTx, ResetTx, Market
<1>4. BornBeforeKnown'
  <2>1. Unborn' = Unborn
    BY DEF Unborn, TypeOK
  <2>2. QED
    BY <2>1 DEF BornBeforeKnown, TypeOK
<1>5. RowsHoldMoney'
  BY DEF RowsHoldMoney
<1>6. SnapshotFresh'
  BY DEF SnapshotFresh, TypeOK, OrderTx
<1>7. RowsExclusive'
  <2>1. locks[r] = {}
    BY DEF RowsExclusive, OrderTx, ResetTx
  <2>2. QED
    BY <2>1 DEF RowsExclusive, TypeOK, OrderTx, ResetTx
<1>8. DebitsCovered'
  BY DEF DebitsCovered, DebitCovered, TypeOK, Debited, OrderTx, Spend, Receive
<1>9. QED
  BY <1>1, <1>2, <1>3, <1>4, <1>5, <1>6, <1>7, <1>8

LEMMA DeliverStep ==
    ASSUME IInv, NEW r \in Requests, Deliver(r)
    PROVE  IInv'
<1> USE DEF IInv, Deliver, dbVars, txVars
<1>1. TypeOK'
  BY DEF TypeOK
<1>2. Solvent'
  BY DEF Solvent
<1>3. Prepared'
  BY DEF Prepared, TypeOK, Pricing, OrderTx, ResetTx, Market
<1>4. BornBeforeKnown'
  <2>1. Unborn' = Unborn
    BY DEF Unborn, TypeOK
  <2>2. QED
    BY <2>1 DEF BornBeforeKnown
<1>5. RowsHoldMoney'
  BY DEF RowsHoldMoney
<1>6. SnapshotFresh'
  BY DEF SnapshotFresh, TypeOK, OrderTx
<1>7. RowsExclusive'
  BY DEF RowsExclusive, TypeOK, OrderTx, ResetTx
<1>8. DebitsCovered'
  BY DEF DebitsCovered, DebitCovered, TypeOK, Debited, OrderTx, Spend, Receive
<1>9. QED
  BY <1>1, <1>2, <1>3, <1>4, <1>5, <1>6, <1>7, <1>8

\* The new user's id is unborn, so no other request can refer to it.
LEMMA RegisterStep ==
    ASSUME IInv, NEW r \in Requests, Register(r)
    PROVE  IInv'
<1> DEFINE new == <<r, "visit">>
<1> USE DEF IInv, Register, IssueCookie, browserVars, txVars
<1>1. new \in Users /\ new \in Unborn /\ new \notin Unborn' /\ Unborn' \subseteq Unborn
  BY DEF Users, Unborn, TypeOK
<1>2. TypeOK'
  BY <1>1, GrantType DEF TypeOK, InFlight
<1>3. /\ pc' = [pc EXCEPT ![r] = "handle"] /\ pc[r] = "register"
      /\ live' = live \cup {new}
      /\ user' = [user EXCEPT ![r] = new]
      /\ setCookie' = [setCookie EXCEPT ![r] = new]
      /\ rows' = [rows EXCEPT ![new] = {Quote}]
      /\ free' = [free EXCEPT ![new] = Grant]
      /\ UNCHANGED <<jar, body, price, snap, missed, locks>>
  OBVIOUS
<1> HIDE DEF new, Register
<1>4. \A u \in Users : /\ rows'[u] = IF u = new THEN {Quote} ELSE rows[u]
                       /\ free'[u] = IF u = new THEN Grant ELSE free[u]
  BY <1>1, <1>3 DEF TypeOK
<1>5. Solvent'
  <2> SUFFICES ASSUME NEW u \in Users, NEW a \in Assets PROVE free'[u][a] >= 0
    BY DEF Solvent
  <2>1. CASE u = new
    <3>1. free'[u][a] = Grant[a]
      BY <1>4, <2>1
    <3>2. QED
      BY <3>1, GrantBalances
  <2>2. CASE u # new
    BY <1>4, <2>2 DEF Solvent
  <2>3. QED
    BY <2>1, <2>2
<1>6. Prepared'
  BY <1>1, <1>3 DEF Prepared, TypeOK, Pricing, OrderTx, ResetTx, Market
<1>7. BornBeforeKnown'
  <2>1. \A o \in Requests : /\ user'[o] = user[o] \/ user'[o] = new
                            /\ setCookie'[o] = setCookie[o] \/ setCookie'[o] = new
    BY <1>3 DEF TypeOK
  <2>2. \A u \in Unborn' : u \in Users /\ u # new /\ u \in Unborn
    BY <1>1 DEF Unborn, Users
  <2>3. \A u \in Unborn' : u \notin live' /\ rows'[u] = {}
    BY <1>3, <1>4, <2>2 DEF BornBeforeKnown
  <2>4. jar' \notin Unborn'
    BY <1>1, <1>3 DEF BornBeforeKnown
  <2>5. \A o \in Requests : user'[o] \notin Unborn' /\ setCookie'[o] \notin Unborn'
    BY <1>1, <2>1 DEF BornBeforeKnown
  <2>6. QED
    BY <2>3, <2>4, <2>5 DEF BornBeforeKnown
<1>8. RowsHoldMoney'
  <2> SUFFICES ASSUME NEW u \in Users
               PROVE  /\ u \notin live' => rows'[u] = {}
                      /\ \A a \in Assets : a \notin rows'[u] => free'[u][a] = 0
    BY DEF RowsHoldMoney
  <2>1. CASE u = new
    <3>1. u \in live' /\ rows'[u] = {Quote} /\ \A a \in Assets : free'[u][a] = Grant[a]
      BY <1>3, <1>4, <2>1
    <3>2. QED
      BY <3>1, GrantBalances
  <2>2. CASE u # new
    BY <1>3, <1>4, <2>2 DEF RowsHoldMoney
  <2>3. QED
    BY <2>1, <2>2
<1>9. \A o \in Requests : user[o] # new
  BY <1>1 DEF BornBeforeKnown
<1>10. SnapshotFresh'
  <2>1. \A o \in Requests : pc[o] \in OrderTx => user[o] \in Users
    BY DEF Prepared, Pricing
  <2>2. QED
    BY <1>3, <1>9, <1>4, <2>1 DEF SnapshotFresh, TypeOK, OrderTx
<1>11. RowsExclusive'
  <2>1. locks[r] = {}
    BY <1>3 DEF RowsExclusive, OrderTx, ResetTx
  <2>2. QED
    BY <1>3, <2>1 DEF RowsExclusive, TypeOK, OrderTx, ResetTx
<1>12. DebitsCovered'
  <2>1. SUFFICES ASSUME NEW o \in Requests, o # r
                 PROVE  DebitCovered(o)'
    BY <1>3 DEF DebitsCovered, DebitCovered, Debited, TypeOK, OrderTx
  <2>2. DebitCovered(o)
    BY DEF DebitsCovered
  <2>3. pc'[o] = pc[o] /\ user'[o] = user[o]
    BY <1>3, <2>1 DEF TypeOK
  <2>4. Debited(o) => rows'[user[o]] = rows[user[o]] /\ free'[user[o]] = free[user[o]]
    BY <1>9, <1>4 DEF Debited, Prepared, Pricing
  <2>5. QED
    BY <1>3, <2>2, <2>3, <2>4 DEF DebitCovered, Debited, Spend, Receive
<1>13. QED
  BY <1>2, <1>5, <1>6, <1>7, <1>10, <1>11, <1>12, <1>8

LEMMA PriceStep ==
    ASSUME IInv, NEW r \in Requests, PriceArrives(r)
    PROVE  IInv'
<1> USE DEF IInv, PriceArrives, dbVars, txVars, browserVars
<1>1. TypeOK'
  BY DEF TypeOK, InFlight
<1>2. Solvent'
  BY DEF Solvent
<1>3. Prepared'
  BY DEF Prepared, TypeOK, Pricing, OrderTx, ResetTx, Market
<1>4. BornBeforeKnown'
  <2>1. Unborn' = Unborn
    BY DEF Unborn, TypeOK
  <2>2. QED
    BY <2>1 DEF BornBeforeKnown
<1>5. RowsHoldMoney'
  BY DEF RowsHoldMoney
<1>6. SnapshotFresh'
  BY DEF SnapshotFresh, TypeOK, OrderTx
<1>7. RowsExclusive'
  BY DEF RowsExclusive, TypeOK, OrderTx, ResetTx
<1>8. DebitsCovered'
  BY DEF DebitsCovered, DebitCovered, TypeOK, Debited, OrderTx, Spend, Receive
<1>9. QED
  BY <1>1, <1>2, <1>3, <1>4, <1>5, <1>6, <1>7, <1>8

LEMMA BeginStep ==
    ASSUME IInv, NEW r \in Requests, Begin(r)
    PROVE  IInv'
<1> USE DEF IInv, Begin, dbVars, browserVars
<1>1. user[r] \in Users
  BY DEF Prepared, Pricing
<1>2. TypeOK'
  BY <1>1 DEF TypeOK, InFlight, OrderTx
<1>3. Solvent'
  BY DEF Solvent
<1>4. Prepared'
  BY DEF Prepared, TypeOK, Pricing, OrderTx, ResetTx, Market
<1>5. BornBeforeKnown'
  <2>1. Unborn' = Unborn
    BY DEF Unborn, TypeOK
  <2>2. QED
    BY <2>1 DEF BornBeforeKnown
<1>6. RowsHoldMoney'
  BY DEF RowsHoldMoney
<1>7. SnapshotFresh'
  BY DEF SnapshotFresh, TypeOK, OrderTx
<1>8. RowsExclusive'
  BY DEF RowsExclusive, TypeOK, OrderTx, ResetTx
<1>9. DebitsCovered'
  BY DEF DebitsCovered, DebitCovered, TypeOK, Debited, OrderTx, Spend, Receive
<1>10. QED
  BY <1>2, <1>3, <1>4, <1>5, <1>6, <1>7, <1>8, <1>9

-----------------------------------------------------------------------------
\* The two commits

\* What a commit moves: an amount out of one balance of the account, another into a
\* second one.
LEMMA CommitMoves ==
    ASSUME IInv, NEW r \in Requests, CommitOrder(r)
    PROVE  LET u    == user[r]
               s    == Spend(r)
               c    == Receive(r)
               paid == SpendAmount(body[r], price[r])
               got  == ReceiveAmount(body[r], price[r])
           IN  /\ u \in Users
               /\ Market(r) /\ body[r] \in Bodies /\ Acceptable(body[r])
               /\ price[r] \in Prices
               /\ s \in Assets /\ c \in Assets /\ s # c
               /\ paid \in Nat /\ got \in Nat
               /\ body[r].side \in Sides /\ body[r].pair \in Pairs
               /\ Executed(body[r]) \in Nat /\ QuoteAmount(body[r], price[r]) \in Nat
               /\ free' \in [Users -> [Assets -> Int]]
               /\ \A v \in Users, a \in Assets :
                     free'[v][a] = IF v # u THEN free[v][a]
                                   ELSE IF a = s THEN free[u][s] - paid
                                   ELSE IF a = c THEN free[u][c] + got
                                   ELSE free[u][a]
<1> DEFINE u == user[r]
           s == Spend(r)
           c == Receive(r)
           paid == SpendAmount(body[r], price[r])
           got  == ReceiveAmount(body[r], price[r])
<1> USE DEF IInv
<1>1. /\ u \in Users
      /\ Market(r) /\ body[r] \in Bodies /\ Acceptable(body[r])
      /\ price[r] \in Prices
  BY DEF CommitOrder, Prepared, Pricing, OrderTx
<1>2. /\ s \in Assets /\ c \in Assets /\ s # c
      /\ paid \in Nat /\ got \in Nat
      /\ body[r].side \in Sides /\ body[r].pair \in Pairs
      /\ Executed(body[r]) \in Nat /\ QuoteAmount(body[r], price[r]) \in Nat
  BY <1>1, OrderAmounts DEF Market, Spend, Receive
<1>3. /\ free' \in [Users -> [Assets -> Int]]
      /\ \A v \in Users, a \in Assets :
            free'[v][a] = IF v # u THEN free[v][a]
                          ELSE IF a = s THEN free[u][s] - paid
                          ELSE IF a = c THEN free[u][c] + got
                          ELSE free[u][a]
  <2>1. free' = [free EXCEPT ![u][s] = @ - paid, ![u][c] = @ + got]
    BY DEF CommitOrder
  <2>2. free \in [Users -> [Assets -> Int]]
    BY DEF TypeOK
  <2> HIDE DEF u, s, c, paid, got
  <2>3. free'  = [free EXCEPT ![u] = [free[u] EXCEPT ![s] = free[u][s] - paid,
                                                     ![c] = free[u][c] + got]]
    BY <1>1, <1>2, <2>1, <2>2
  <2>4. QED
    BY <1>1, <1>2, <2>2, <2>3
<1>4. QED
  BY <1>1, <1>2, <1>3

\* An order commits: its row locks kept every other debit off the two rows.
LEMMA CommitOrderStep ==
    ASSUME IInv, NEW r \in Requests, CommitOrder(r)
    PROVE  IInv'
<1> DEFINE u == user[r]
           s == Spend(r)
           c == Receive(r)
           paid == SpendAmount(body[r], price[r])
           got  == ReceiveAmount(body[r], price[r])
<1> USE DEF IInv, browserVars
<1>1. /\ u \in Users
      /\ Market(r) /\ body[r] \in Bodies /\ Acceptable(body[r])
      /\ price[r] \in Prices
  BY CommitMoves
<1>2. /\ s \in Assets /\ c \in Assets /\ s # c
      /\ paid \in Nat /\ got \in Nat
      /\ body[r].side \in Sides /\ body[r].pair \in Pairs
      /\ Executed(body[r]) \in Nat /\ QuoteAmount(body[r], price[r]) \in Nat
  BY CommitMoves
<1>3. /\ s \in locks[r] /\ c \in locks[r] /\ s \in rows[u]
      /\ free[u][s] >= paid
  BY DEF DebitsCovered, DebitCovered, Debited, CommitOrder, OrderTx
<1>4. /\ free' \in [Users -> [Assets -> Int]]
      /\ \A v \in Users, a \in Assets :
            free'[v][a] = IF v # u THEN free[v][a]
                          ELSE IF a = s THEN free[u][s] - paid
                          ELSE IF a = c THEN free[u][c] + got
                          ELSE free[u][a]
  BY CommitMoves
<1>5. rows' = [rows EXCEPT ![u] = rows[u] \cup {c}]
  BY DEF CommitOrder
<1>6. /\ pc' = [pc EXCEPT ![r] = "replied"]
      /\ locks' = [locks EXCEPT ![r] = {}]
      /\ missed' = Missing(u, {s, c}, r)
      /\ UNCHANGED <<jar, live, body, user, setCookie, price>>
      /\ \A o \in Requests : o # r => snap'[o] = snap[o]
      /\ pc[r] = "commitOrder"
  BY DEF CommitOrder, TypeOK
<1>7. TypeOK'
  <2>1. orders' \subseteq [id : Requests, account : Users, side : Sides, pair : Pairs,
                           quantity : Nat, status : {"FILLED"}]
    BY <1>1, <1>2 DEF CommitOrder, NewOrder, TypeOK
  <2>2. trades' \subseteq [order : Requests, account : Users, side : Sides, pair : Pairs,
                           quantity : Nat, quote : Nat]
    BY <1>1, <1>2 DEF CommitOrder, NewTrade, TypeOK
  <2>3. missed' \in [Requests -> SUBSET Assets]
    BY <1>2, <1>6 DEF Missing, TypeOK
  <2>4. /\ snap' \in [Requests -> [Assets -> Int]]
        /\ reply' \in [Requests -> {"none"} \cup Statuses]
    BY DEF CommitOrder, TypeOK, Zero, Statuses
  <2>5. rows' \in [Users -> SUBSET Assets]
    BY <1>2, <1>5 DEF TypeOK
  <2>6. QED
    BY <1>4, <1>6, <2>1, <2>2, <2>3, <2>4, <2>5 DEF TypeOK
<1>8. Solvent'
  <2> SUFFICES ASSUME NEW v \in Users, NEW a \in Assets
               PROVE  free'[v][a] >= 0
    BY DEF Solvent
  <2>1. free[v][a] \in Int /\ free[v][a] >= 0
    BY DEF Solvent, TypeOK
  <2> HIDE DEF u, s, c, paid, got
  <2>2. QED
    BY <1>2, <1>3, <1>4, <2>1
<1>9. Prepared'
  BY <1>6 DEF Prepared, TypeOK, Pricing, OrderTx, ResetTx, Market
<1>10. BornBeforeKnown'
  <2>1. Unborn' \subseteq Unborn
    BY <1>6 DEF Unborn, TypeOK
  <2>2. \A v \in Unborn' : rows'[v] = rows[v]
    BY <1>5, <2>1 DEF BornBeforeKnown, TypeOK
  <2>3. QED
    BY <1>6, <2>1, <2>2 DEF BornBeforeKnown
<1>11. RowsHoldMoney'
  <2>1. u \in live
    BY <1>1, <1>3 DEF RowsHoldMoney
  <2>2. \A v \in Users : rows'[v] = IF v = u THEN rows[u] \cup {c} ELSE rows[v]
    BY <1>5 DEF TypeOK
  <2>3. QED
    BY <1>3, <1>4, <1>6, <2>1, <2>2 DEF RowsHoldMoney
<1>12. SnapshotFresh'
  <2>1. SUFFICES ASSUME NEW o \in Requests, o # r, pc[o] \in OrderTx,
                        NEW a \in Assets, a \notin missed'[o]
                 PROVE  snap[o][a] = free'[user[o]][a]
    <3>1. \A o \in Requests : pc'[o] \in OrderTx => o # r /\ pc[o] \in OrderTx
      BY <1>6 DEF TypeOK, OrderTx
    <3>2. QED
      BY <1>6, <3>1 DEF SnapshotFresh
  <2>2. user[o] \in Users
    BY <2>1 DEF Prepared, Pricing
  <2>3. a \notin missed[o] /\ (user[o] = u => a # s /\ a # c)
    BY <1>6, <2>1 DEF Missing
  <2>4. free'[user[o]][a] = free[user[o]][a]
    BY <1>4, <2>2, <2>3
  <2>5. QED
    BY <2>1, <2>3, <2>4 DEF SnapshotFresh
<1>13. RowsExclusive'
  BY <1>6 DEF RowsExclusive, TypeOK, OrderTx, ResetTx
<1>14. DebitsCovered'
  <2>1. SUFFICES ASSUME NEW o \in Requests, o # r, Debited(o)
                 PROVE  DebitCovered(o)'
    BY <1>6 DEF DebitsCovered, DebitCovered, Debited, TypeOK, OrderTx
  <2>2. /\ DebitCovered(o) /\ user[o] \in Users
        /\ Spend(o) \in Assets
    BY <2>1, OrderAmounts DEF DebitsCovered, Debited, Prepared, Pricing, Market, Spend
  <2>3. user[o] = u => Spend(o) # s /\ Spend(o) # c
    BY <1>2, <1>3, <2>1, <2>2 DEF RowsExclusive, DebitCovered
  <2>4. free'[user[o]][Spend(o)] = free[user[o]][Spend(o)]
    BY <1>4, <2>2, <2>3
  <2>5. rows[user[o]] \subseteq rows'[user[o]]
    BY <1>5, <2>2 DEF TypeOK
  <2>6. pc'[o] = pc[o] /\ locks'[o] = locks[o]
    BY <1>6, <2>1 DEF TypeOK
  <2>7. QED
    BY <1>6, <2>1, <2>2, <2>4, <2>5, <2>6 DEF DebitCovered, Debited, Spend, Receive
<1>15. QED
  BY <1>7, <1>8, <1>9, <1>10, <1>11, <1>12, <1>13, <1>14

\* A reset commits: its locks on every balance row kept debits off the account.
LEMMA CommitResetStep ==
    ASSUME IInv, NEW r \in Requests, CommitReset(r)
    PROVE  IInv'
<1> DEFINE u == user[r]
           new == <<r, "reset">>
<1> USE DEF IInv, browserVars
<1>1. /\ u \in Users /\ new \in Users /\ u # new
      /\ new \in Unborn /\ new \notin Unborn' /\ Unborn' \subseteq Unborn
  <2>1. u \in Users /\ pc[r] = "deleteBalances"
    BY DEF CommitReset, Prepared, ResetTx
  <2>2. new \in Users /\ new \in Unborn /\ new \notin Unborn' /\ Unborn' \subseteq Unborn
    BY <2>1 DEF CommitReset, Users, Unborn, TypeOK
  <2>3. QED
    BY <2>1, <2>2 DEF BornBeforeKnown
<1>2. /\ pc[r] = "deleteBalances" /\ pc' = [pc EXCEPT ![r] = "replied"]
      /\ rows[u] \subseteq locks[r]
      /\ live' = (live \ {u}) \cup {new}
      /\ rows' = [rows EXCEPT ![u] = {}, ![new] = {Quote}]
      /\ free' = [free EXCEPT ![u] = Zero, ![new] = Grant]
      /\ setCookie' = [setCookie EXCEPT ![r] = new]
      /\ missed' = Missing(u, Assets, r)
      /\ locks' = [locks EXCEPT ![r] = {}]
      /\ reply' = [reply EXCEPT ![r] = "204"]
      /\ orders' \subseteq orders /\ trades' \subseteq trades
      /\ UNCHANGED <<jar, body, user, price, snap>>
  BY DEF CommitReset, IssueCookie, Surviving
<1>3. \A o \in Requests : user[o] # new
  BY <1>1 DEF BornBeforeKnown
<1> HIDE DEF new, u
<1>4. \A v \in Users :
         /\ rows'[v] = IF v = u THEN {} ELSE IF v = new THEN {Quote} ELSE rows[v]
         /\ free'[v] = IF v = u THEN Zero ELSE IF v = new THEN Grant ELSE free[v]
  BY <1>1, <1>2 DEF TypeOK
<1>5. TypeOK'
  <2>1. missed' \in [Requests -> SUBSET Assets]
    BY <1>2 DEF Missing, TypeOK
  <2>2. Zero \in [Assets -> Int]
    BY DEF Zero
  <2>3. rows' \in [Users -> SUBSET Assets] /\ free' \in [Users -> [Assets -> Int]]
    BY <1>1, <1>2, <2>2, GrantType DEF TypeOK
  <2>4. QED
    BY <1>1, <1>2, <2>1, <2>3 DEF TypeOK, Statuses
<1>6. Solvent'
  <2> SUFFICES ASSUME NEW v \in Users, NEW a \in Assets PROVE free'[v][a] >= 0
    BY DEF Solvent
  <2>1. CASE v = u
    BY <1>4, <2>1 DEF Zero
  <2>2. CASE v = new
    <3>1. free'[v][a] = Grant[a]
      BY <1>1, <1>4, <2>2
    <3>2. QED
      BY <3>1, GrantBalances
  <2>3. CASE v # u /\ v # new
    BY <1>4, <2>3 DEF Solvent
  <2>4. QED
    BY <2>1, <2>2, <2>3
<1>7. Prepared'
  BY <1>2 DEF Prepared, TypeOK, Pricing, OrderTx, ResetTx, Market
<1>8. BornBeforeKnown'
  <2>1. \A v \in Unborn' : v \in Users /\ v # new /\ v \in Unborn
    BY <1>1 DEF Unborn, Users
  <2>2. \A v \in Unborn' : v \notin live' /\ rows'[v] = {}
    BY <1>2, <1>4, <2>1 DEF BornBeforeKnown
  <2>3. jar' \notin Unborn'
    BY <1>1, <1>2 DEF BornBeforeKnown
  <2>4. \A o \in Requests : user'[o] = user[o] /\ setCookie'[o] \in {setCookie[o], new}
    BY <1>2 DEF TypeOK
  <2>5. \A o \in Requests : user'[o] \notin Unborn' /\ setCookie'[o] \notin Unborn'
    BY <1>1, <2>4 DEF BornBeforeKnown
  <2>6. QED
    BY <2>2, <2>3, <2>5 DEF BornBeforeKnown
<1>9. RowsHoldMoney'
  <2> SUFFICES ASSUME NEW v \in Users
               PROVE  /\ v \notin live' => rows'[v] = {}
                      /\ \A a \in Assets : a \notin rows'[v] => free'[v][a] = 0
    BY DEF RowsHoldMoney
  <2>1. CASE v = u
    BY <1>4, <2>1 DEF Zero
  <2>2. CASE v = new
    <3>1. v \in live' /\ rows'[v] = {Quote} /\ \A a \in Assets : free'[v][a] = Grant[a]
      BY <1>1, <1>2, <1>4, <2>2
    <3>2. QED
      BY <3>1, GrantBalances
  <2>3. CASE v # u /\ v # new
    <3>1. rows'[v] = rows[v] /\ free'[v] = free[v] /\ (v \notin live' => v \notin live)
      BY <1>2, <1>4, <2>3
    <3>2. QED
      BY <3>1 DEF RowsHoldMoney
  <2>4. QED
    BY <2>1, <2>2, <2>3
<1>10. SnapshotFresh'
  <2>1. SUFFICES ASSUME NEW o \in Requests, o # r, pc[o] \in OrderTx,
                        NEW a \in Assets, a \notin missed'[o]
                 PROVE  snap[o][a] = free'[user[o]][a]
    <3>1. \A o \in Requests : pc'[o] \in OrderTx => o # r /\ pc[o] \in OrderTx
      BY <1>2 DEF TypeOK, OrderTx
    <3>2. user' = user /\ snap' = snap
      BY <1>2
    <3>3. QED
      BY <3>1, <3>2 DEF SnapshotFresh
  <2>2. a \notin missed[o] /\ user[o] # u
    BY <1>2, <2>1 DEF Missing
  <2>3. free'[user[o]] = free[user[o]]
    BY <1>3, <1>4, <2>1, <2>2 DEF Prepared, Pricing
  <2>4. QED
    BY <2>1, <2>2, <2>3 DEF SnapshotFresh
<1>11. RowsExclusive'
  BY <1>2 DEF RowsExclusive, TypeOK, OrderTx, ResetTx
<1>12. DebitsCovered'
  <2>1. SUFFICES ASSUME NEW o \in Requests, o # r, Debited(o)
                 PROVE  DebitCovered(o)'
    BY <1>2 DEF DebitsCovered, DebitCovered, Debited, TypeOK, OrderTx
  <2>2. /\ DebitCovered(o) /\ user[o] \in Users
        /\ Spend(o) \in Assets
    BY <2>1, OrderAmounts DEF DebitsCovered, Debited, Prepared, Pricing, Market, Spend
  <2>3. user[o] # u
    BY <1>2, <2>1, <2>2 DEF RowsExclusive, DebitCovered, u
  <2>4. rows'[user[o]] = rows[user[o]] /\ free'[user[o]] = free[user[o]]
    BY <1>3, <1>4, <2>2, <2>3
  <2>5. pc'[o] = pc[o] /\ locks'[o] = locks[o]
    BY <1>2, <2>1 DEF TypeOK
  <2>6. QED
    BY <1>2, <2>2, <2>4, <2>5 DEF DebitCovered, Debited, Spend, Receive
<1>13. QED
  BY <1>5, <1>6, <1>7, <1>8, <1>9, <1>10, <1>11, <1>12

-----------------------------------------------------------------------------
\* The invariant

LEMMA NextIInv == IInv /\ [Next]_vars => IInv'
<1> SUFFICES ASSUME IInv, [Next]_vars PROVE IInv'
  OBVIOUS
<1>1. ASSUME NEW r \in Requests, Send(r) PROVE IInv'
  BY <1>1, SendStep
<1>2. ASSUME NEW r \in Requests, Deliver(r) PROVE IInv'
  BY <1>2, DeliverStep
<1>3. ASSUME NEW r \in Requests, Register(r) PROVE IInv'
  BY <1>3, RegisterStep
<1>4. ASSUME NEW r \in Requests, PriceArrives(r) PROVE IInv'
  BY <1>4, PriceStep
<1>5. ASSUME NEW r \in Requests, Begin(r) PROVE IInv'
  BY <1>5, BeginStep
<1>6. ASSUME NEW r \in Requests, CommitOrder(r) PROVE IInv'
  BY <1>6, CommitOrderStep
<1>7. ASSUME NEW r \in Requests, CommitReset(r) PROVE IInv'
  BY <1>7, CommitResetStep
<1>8. ASSUME NEW r \in Requests,
             \/ Refuse(r) \/ MiddlewareFails(r) \/ View(r)
             \/ LimitOrder(r) \/ RejectOrder(r) \/ PriceUnavailable(r)
             \/ DebitFindsNothing(r) \/ DebitConflicts(r) \/ CreditConflicts(r)
             \/ Abort(r) \/ DeadlockVictim(r)
      PROVE  IInv'
  <2>1. PICK status \in Statuses : Fail(r, status)
    BY <1>8 DEF Refuse, MiddlewareFails, View, LimitOrder, RejectOrder, PriceUnavailable,
                DebitFindsNothing, DebitConflicts, CreditConflicts, Abort, DeadlockVictim,
                Statuses
  <2>2. QED
    BY <2>1, FailStep
<1>9. ASSUME NEW r \in Requests, Lookup(r) \/ AcceptOrder(r) \/ Lose(r)
                                  \/ StartReset(r) \/ NothingToDelete(r)
      PROVE  IInv'
  <2>1. CASE Lookup(r)
    <3>1. user[r] \in live => user[r] \in Users
      BY DEF IInv, TypeOK
    <3>2. QED
      BY <2>1, <3>1, QuietStep DEF Lookup, OrderTx, ResetTx
  <2>2. CASE AcceptOrder(r)
    <3>1. user[r] \in Users /\ body[r] \in Bodies
      BY <2>2 DEF AcceptOrder, IInv, Prepared, TypeOK, Market, NoOrder
    <3>2. QED
      BY <2>2, <3>1, QuietStep DEF AcceptOrder, OrderTx, ResetTx
  <2>3. CASE Lose(r)
    BY <2>3, QuietStep DEF Lose, OrderTx, ResetTx
  <2>4. CASE StartReset(r)
    <3>1. user[r] \in Users
      BY <2>4 DEF StartReset, IInv, Prepared
    <3>2. QED
      BY <2>4, <3>1, QuietStep DEF StartReset, OrderTx, ResetTx
  <2>5. CASE NothingToDelete(r)
    <3>1. user[r] \in Users
      BY <2>5 DEF NothingToDelete, IInv, Prepared, ResetTx
    <3>2. QED
      BY <2>5, <3>1, QuietStep DEF NothingToDelete, OrderTx, ResetTx
  <2>6. QED
    BY <1>9, <2>1, <2>2, <2>3, <2>4, <2>5
<1>10. ASSUME NEW r \in Requests,
              \/ Debit(r) \/ Credit(r) \/ InsertOrder(r) \/ InsertTrade(r)
              \/ DeleteUser(r) \/ DeleteAccount(r) \/ DeleteBalance(r)
       PROVE  IInv'
  <2> USE DEF IInv
  <2>1. /\ pc[r] \in OrderTx => Spend(r) \in Assets /\ Receive(r) \in Assets
        /\ Assets \subseteq RowLocks
    BY OrderAmounts DEF Prepared, Pricing, Market, Spend, Receive, RowLocks
  <2>2. CASE Debit(r)
    BY <2>1, <2>2, LockStep DEF Debit, OrderTx
  <2>3. CASE Credit(r)
    <3>1. CreditLocks(r) \in SUBSET RowLocks /\ Receive(r) \in CreditLocks(r)
      BY <2>1, <2>3 DEF Credit, CreditLocks, OrderTx, RowLocks
    <3>2. QED
      BY <2>3, <3>1, LockStep DEF Credit
  <2>4. CASE InsertOrder(r) \/ InsertTrade(r)
    BY <2>4, LockStep DEF InsertOrder, InsertTrade, RowLocks
  <2>5. CASE DeleteUser(r) \/ DeleteAccount(r)
    BY <2>5, LockStep DEF DeleteUser, DeleteAccount, RowLocks, ResetTx
  <2>6. CASE DeleteBalance(r)
    <3>1. PICK a \in rows[user[r]] \ locks[r] : LockAndGo(r, {a}, "deleteBalances")
      BY <2>6 DEF DeleteBalance
    <3>2. pc[r] \in ResetTx /\ user[r] \in Users
      BY <2>6 DEF DeleteBalance, ResetTx, Prepared
    <3>3. {a} \in SUBSET RowLocks
      BY <2>1, <3>1, <3>2 DEF TypeOK
    <3>4. QED
      BY <3>1, <3>2, <3>3, LockStep DEF ResetTx
  <2>7. QED
    BY <1>10, <2>2, <2>3, <2>4, <2>5, <2>6
<1>11. CASE UNCHANGED vars
  BY <1>11 DEF vars, IInv, TypeOK, Solvent, Prepared, BornBeforeKnown, Unborn, RowsHoldMoney,
               SnapshotFresh, RowsExclusive, DebitsCovered, DebitCovered, Debited, Market,
               Spend, Receive
<1>12. QED
  BY <1>1, <1>2, <1>3, <1>4, <1>5, <1>6, <1>7, <1>8, <1>9, <1>10, <1>11
     DEF Next, Serve, OrderStep, ResetStep

\* The inductive invariant holds, whatever the number of concurrent requests.
THEOREM Invariance == Spec => []IInv
<1>1. QED
  BY InitIInv, NextIInv, PTL DEF Spec

\* Every variable keeps its type: in particular no amount leaves the integers and
\* no order is stored in a status other than FILLED.
THEOREM TypeCorrect == Spec => []TypeOK
<1>1. IInv => TypeOK
  BY DEF IInv
<1>2. QED
  BY <1>1, Invariance, PTL

\* No balance is ever negative, for any number of concurrent orders and resets:
\* the debit OrdersService.placeMarketOrder decides on a snapshot is still covered
\* when it commits.
THEOREM NeverOverdrawn == Spec => []Solvent
<1>1. IInv => Solvent
  BY DEF IInv
<1>2. QED
  BY <1>1, Invariance, PTL

-----------------------------------------------------------------------------
\* Every request ends in one way, so what it left behind can be told from it.

Over == {"replied", "done", "lost"}
Filled(r) == reply[r] = "201"

\* Only what is over has been answered, and only an acceptable order is filled.
Answered ==
    \A r \in Requests :
        /\ pc[r] \notin Over => reply[r] = "none"
        /\ Filled(r) => /\ user[r] \in Users /\ price[r] \in Prices
                        /\ Market(r) /\ body[r] \in Bodies /\ Acceptable(body[r])

\* A row is the one its request asked for, its request was told so, and its account
\* exists.
RowsOfFilled ==
    /\ \A o \in orders : Filled(o.id) /\ o = NewOrder(o.id) /\ o.account \in live
    /\ \A t \in trades : Filled(t.order) /\ t = NewTrade(t.order) /\ t.account \in live

\* The other way round, until the account is reset.
FilledHasRows ==
    \A r \in Requests : Filled(r) /\ user[r] \in live =>
        NewOrder(r) \in orders /\ NewTrade(r) \in trades

History == Answered /\ RowsOfFilled /\ FilledHasRows

LEMMA NewRows ==
    ASSUME NEW r \in Requests
    PROVE  /\ NewOrder(r).id = r /\ NewOrder(r).account = user[r]
           /\ NewTrade(r).order = r /\ NewTrade(r).account = user[r]
BY DEF NewOrder, NewTrade

LEMMA InitHistory == Init => History
BY DEF Init, History, Answered, RowsOfFilled, FilledHasRows, Filled, Over

\* A step of a request that is not over, in which no row is written and no account goes.
LEMMA OngoingHistory ==
    ASSUME IInv, History, NEW r \in Requests, pc[r] \notin Over,
           \A o \in Requests : o # r =>
              /\ pc'[o] = pc[o] /\ reply'[o] = reply[o]
              /\ body'[o] = body[o] /\ user'[o] = user[o] /\ price'[o] = price[o],
           pc'[r] \notin Over => reply'[r] = "none",
           reply'[r] # "201",
           UNCHANGED <<orders, trades>>,
           \A u \in Users \ Unborn : u \in live' <=> u \in live
    PROVE  History'
<1>1. ~Filled(r) /\ ~Filled(r)'
  BY DEF History, Answered, Filled
<1>2. \A o \in Requests : o # r =>
        /\ Filled(o)' <=> Filled(o)
        /\ NewOrder(o)' = NewOrder(o) /\ NewTrade(o)' = NewTrade(o)
        /\ Market(o)' <=> Market(o)
  BY DEF Filled, NewOrder, NewTrade, Market
<1>3. \A o \in Requests : Filled(o) => user[o] \in Users \ Unborn
  BY DEF IInv, BornBeforeKnown, History, Answered
<1>4. Answered'
  BY <1>1, <1>2 DEF History, Answered, Filled
<1>5. RowsOfFilled'
  <2>1. ASSUME NEW o \in orders
        PROVE  Filled(o.id)' /\ o = NewOrder(o.id)' /\ o.account \in live'
    <3>1. o.id \in Requests /\ Filled(o.id) /\ o = NewOrder(o.id) /\ o.account \in live
      BY DEF IInv, TypeOK, History, RowsOfFilled
    <3>2. o.id # r /\ o.account = user[o.id]
      BY <1>1, <3>1, NewRows
    <3>3. QED
      BY <1>2, <1>3, <3>1, <3>2
  <2>2. ASSUME NEW t \in trades
        PROVE  Filled(t.order)' /\ t = NewTrade(t.order)' /\ t.account \in live'
    <3>1. t.order \in Requests /\ Filled(t.order) /\ t = NewTrade(t.order) /\ t.account \in live
      BY DEF IInv, TypeOK, History, RowsOfFilled
    <3>2. t.order # r /\ t.account = user[t.order]
      BY <1>1, <3>1, NewRows
    <3>3. QED
      BY <1>2, <1>3, <3>1, <3>2
  <2>3. QED
    BY <2>1, <2>2 DEF RowsOfFilled
<1>6. FilledHasRows'
  BY <1>1, <1>2, <1>3 DEF History, FilledHasRows
<1>7. QED
  BY <1>4, <1>5, <1>6 DEF History

\* The order's account is there (its debited row is), and both rows are written.
LEMMA CommitOrderHistory ==
    ASSUME IInv, History, NEW r \in Requests, CommitOrder(r)
    PROVE  History'
<1>1. /\ user[r] \in Users /\ price[r] \in Prices
      /\ Market(r) /\ body[r] \in Bodies /\ Acceptable(body[r])
      /\ ~Filled(r)
  BY DEF CommitOrder, IInv, Prepared, Pricing, OrderTx, History, Answered, Filled, Over
<1>2. user[r] \in live
  BY <1>1 DEF CommitOrder, IInv, DebitsCovered, DebitCovered, Debited, OrderTx, RowsHoldMoney
<1>3. /\ orders' = orders \cup {NewOrder(r)} /\ trades' = trades \cup {NewTrade(r)}
      /\ UNCHANGED <<live, body, user, price>>
      /\ reply' = [reply EXCEPT ![r] = "201"] /\ pc' = [pc EXCEPT ![r] = "replied"]
  BY DEF CommitOrder
<1>4. /\ Filled(r)'
      /\ \A o \in Requests : o # r => (Filled(o)' <=> Filled(o))
      /\ \A o \in Requests : /\ NewOrder(o)' = NewOrder(o) /\ NewTrade(o)' = NewTrade(o)
                             /\ Market(o)' <=> Market(o)
  BY <1>3 DEF Filled, NewOrder, NewTrade, Market, IInv, TypeOK
<1>5. Answered'
  <2>1. \A o \in Requests : pc'[o] \notin Over => reply'[o] = "none"
    BY <1>3 DEF History, Answered, Over, IInv, TypeOK
  <2>2. QED
    BY <1>1, <1>3, <1>4, <2>1 DEF History, Answered
<1>6. RowsOfFilled'
  <2>1. \A o \in orders : o.id \in Requests /\ Filled(o.id) /\ o = NewOrder(o.id)
    BY DEF IInv, TypeOK, History, RowsOfFilled
  <2>2. \A t \in trades : t.order \in Requests /\ Filled(t.order) /\ t = NewTrade(t.order)
    BY DEF IInv, TypeOK, History, RowsOfFilled
  <2>3. \A o \in orders' : Filled(o.id)' /\ o = NewOrder(o.id)' /\ o.account \in live'
    BY <1>1, <1>2, <1>3, <1>4, <2>1, NewRows DEF History, RowsOfFilled
  <2>4. \A t \in trades' : Filled(t.order)' /\ t = NewTrade(t.order)' /\ t.account \in live'
    BY <1>1, <1>2, <1>3, <1>4, <2>2, NewRows DEF History, RowsOfFilled
  <2>5. QED
    BY <2>3, <2>4 DEF RowsOfFilled
<1>7. FilledHasRows'
  BY <1>3, <1>4 DEF History, FilledHasRows
<1>8. QED
  BY <1>5, <1>6, <1>7 DEF History

\* The cascade takes the rows of the account that goes, and no others.
LEMMA CommitResetHistory ==
    ASSUME IInv, History, NEW r \in Requests, CommitReset(r)
    PROVE  History'
<1> DEFINE u == user[r]
           new == <<r, "reset">>
<1>1. pc[r] \notin Over /\ new \in Unborn /\ ~Filled(r)
  BY DEF CommitReset, Unborn, Over, History, Answered, Filled
<1>2. /\ orders' = {x \in orders : x.account # u} /\ trades' = {x \in trades : x.account # u}
      /\ live' = (live \ {u}) \cup {new}
      /\ UNCHANGED <<body, user, price>>
      /\ reply' = [reply EXCEPT ![r] = "204"] /\ pc' = [pc EXCEPT ![r] = "replied"]
  BY DEF CommitReset, Surviving
<1>3. \A o \in Requests : /\ Filled(o)' <=> Filled(o)
                          /\ NewOrder(o)' = NewOrder(o) /\ NewTrade(o)' = NewTrade(o)
                          /\ Market(o)' <=> Market(o)
  BY <1>1, <1>2 DEF Filled, NewOrder, NewTrade, Market, IInv, TypeOK
<1>4. Answered'
  <2>1. \A o \in Requests : pc'[o] \notin Over => reply'[o] = "none"
    BY <1>2 DEF History, Answered, Over, IInv, TypeOK
  <2>2. QED
    BY <1>2, <1>3, <2>1 DEF History, Answered
<1>5. RowsOfFilled'
  <2>1. \A o \in orders : o.id \in Requests
    BY DEF IInv, TypeOK
  <2>2. \A t \in trades : t.order \in Requests
    BY DEF IInv, TypeOK
  <2>3. QED
    BY <1>2, <1>3, <2>1, <2>2 DEF History, RowsOfFilled
<1>6. FilledHasRows'
  <2> SUFFICES ASSUME NEW o \in Requests, Filled(o), user[o] \in live'
               PROVE  NewOrder(o) \in orders' /\ NewTrade(o) \in trades'
    BY <1>2, <1>3 DEF FilledHasRows
  <2>1. user[o] # new
    BY <1>1 DEF IInv, BornBeforeKnown
  <2>2. user[o] # u /\ user[o] \in live
    BY <1>2, <2>1
  <2>3. NewOrder(o) \in orders /\ NewTrade(o) \in trades
    BY <2>2 DEF History, FilledHasRows
  <2>4. QED
    BY <1>2, <2>2, <2>3, NewRows
<1>7. QED
  BY <1>4, <1>5, <1>6 DEF History

\* The two kinds of step that commit nothing: a request ends without a commit, or a
\* request under way goes on.
FailedStep(r) ==
    \/ Refuse(r) \/ MiddlewareFails(r) \/ View(r)
    \/ LimitOrder(r) \/ RejectOrder(r) \/ PriceUnavailable(r)
    \/ DebitFindsNothing(r) \/ DebitConflicts(r) \/ CreditConflicts(r)
    \/ Abort(r) \/ DeadlockVictim(r)

OngoingStep(r) ==
    \/ Lookup(r) \/ AcceptOrder(r) \/ PriceArrives(r) \/ Begin(r)
    \/ StartReset(r) \/ NothingToDelete(r)
    \/ Debit(r) \/ Credit(r) \/ InsertOrder(r) \/ InsertTrade(r)
    \/ DeleteUser(r) \/ DeleteAccount(r) \/ DeleteBalance(r)

LEMMA StepKinds ==
    ASSUME [Next]_vars
    PROVE  \/ UNCHANGED vars
           \/ \E r \in Requests :
                 \/ FailedStep(r) \/ OngoingStep(r) \/ CommitOrder(r)
                 \/ Send(r) \/ Deliver(r) \/ Lose(r) \/ Register(r) \/ CommitReset(r)
BY DEF Next, Serve, OrderStep, ResetStep, FailedStep, OngoingStep

LEMMA FailedSteps ==
    ASSUME NEW r \in Requests, FailedStep(r)
    PROVE  pc[r] \notin Over /\ \E status \in Statuses \ {"201"} : Fail(r, status)
<1>1. CASE ~DeadlockVictim(r)
  BY <1>1 DEF FailedStep, Refuse, MiddlewareFails, View, LimitOrder, RejectOrder,
              PriceUnavailable, DebitFindsNothing, DebitConflicts, CreditConflicts, Abort,
              Statuses, OrderTx, ResetTx, Over
<1>2. CASE DeadlockVictim(r)
  <2>1. PICK cycle \in SUBSET Requests :
           /\ r \in cycle
           /\ \E waits \in Bijection(cycle, cycle) :
                 \A x \in cycle : waits[x] \in WaitsFor(x)
    BY <1>2 DEF DeadlockVictim
  <2>2. WaitsFor(r) # {}
    BY <2>1
  <2>3. Wanted(r) # {}
    BY <2>2 DEF WaitsFor
  <2>4. pc[r] \notin Over
    BY <2>3 DEF Wanted, Over
  <2>5. QED
    BY <1>2, <2>4 DEF DeadlockVictim, Statuses
<1>3. QED
  BY <1>1, <1>2

LEMMA OngoingSteps ==
    ASSUME NEW r \in Requests, OngoingStep(r)
    PROVE  /\ UNCHANGED <<jar, dbVars, body, user, setCookie, reply>>
           /\ price' = price \/ \E p \in Prices : price' = [price EXCEPT ![r] = p]
           /\ \E next \in InFlight : pc' = [pc EXCEPT ![r] = next]
           /\ pc[r] \in InFlight
BY DEF OngoingStep, Lookup, AcceptOrder, PriceArrives, Begin, StartReset, NothingToDelete,
       Debit, Credit, InsertOrder, InsertTrade, DeleteUser, DeleteAccount,
       DeleteBalance, LockAndGo, dbVars, browserVars, InFlight, OrderTx, ResetTx

LEMMA NextHistory == IInv /\ History /\ [Next]_vars => History'
<1> SUFFICES ASSUME IInv, History, [Next]_vars PROVE History'
  OBVIOUS
<1>1. ASSUME NEW r \in Requests, NEW status \in Statuses \ {"201"},
             Fail(r, status), pc[r] \notin Over
      PROVE  History'
  BY <1>1, OngoingHistory DEF Fail, Answer, IInv, TypeOK, dbVars, Over
<1>2. ASSUME NEW r \in Requests, FailedStep(r) PROVE History'
  BY <1>1, <1>2, FailedSteps
<1>3. ASSUME NEW r \in Requests, Send(r) PROVE History'
  <2>1. pc[r] \notin Over /\ pc'[r] \notin Over /\ reply'[r] # "201"
    BY <1>3 DEF Send, Over, IInv, TypeOK, History, Answered
  <2>2. QED
    BY <1>3, <2>1, OngoingHistory DEF Send, IInv, TypeOK, dbVars, History, Answered
<1>4. ASSUME NEW r \in Requests, Register(r) PROVE History'
  <2>1. pc[r] \notin Over /\ pc'[r] \notin Over /\ reply'[r] # "201" /\ <<r, "visit">> \in Unborn
    BY <1>4 DEF Register, Over, IInv, TypeOK, History, Answered, Unborn
  <2>2. \A v \in Users \ Unborn : v \in live' <=> v \in live
    BY <1>4, <2>1 DEF Register
  <2>3. QED
    BY <1>4, <2>1, <2>2, OngoingHistory DEF Register, IInv, TypeOK, History, Answered
<1>5. ASSUME NEW r \in Requests, Deliver(r) \/ Lose(r) PROVE History'
  <2>1. \A o \in Requests : pc'[o] \in Over <=> pc[o] \in Over
    BY <1>5 DEF Deliver, Lose, Over, IInv, TypeOK
  <2>2. UNCHANGED <<live, orders, trades, body, user, price, reply>>
    BY <1>5 DEF Deliver, Lose, dbVars
  <2>3. QED
    BY <2>1, <2>2 DEF History, Answered, RowsOfFilled, FilledHasRows, Filled, Market,
                      NewOrder, NewTrade
<1>6. ASSUME NEW r \in Requests, OngoingStep(r) PROVE History'
  <2>1. /\ pc[r] \notin Over /\ pc'[r] \notin Over
        /\ \A o \in Requests : o # r => pc'[o] = pc[o] /\ price'[o] = price[o]
    BY <1>6, OngoingSteps DEF IInv, TypeOK, InFlight, OrderTx, ResetTx, Over
  <2>2. QED
    BY <1>6, <2>1, OngoingSteps, OngoingHistory DEF History, Answered, dbVars
<1>7. CASE UNCHANGED vars
  BY <1>7 DEF vars, History, Answered, RowsOfFilled, FilledHasRows, Filled, Market,
              NewOrder, NewTrade
<1>8. ASSUME NEW r \in Requests, CommitOrder(r) \/ CommitReset(r) PROVE History'
  BY <1>8, CommitOrderHistory, CommitResetHistory
<1>9. QED
  BY <1>2, <1>3, <1>4, <1>5, <1>6, <1>7, <1>8, StepKinds

LEMMA HistoryInvariance == Spec => [](IInv /\ History)
<1>1. QED
  BY InitIInv, InitHistory, NextIInv, NextHistory, PTL DEF Spec

-----------------------------------------------------------------------------
\* Sums.  The library states induction over finite sets with operators as parameters; what
\* follows argues from a smallest set for which a claim fails.

\* A non-empty collection of finite sets has a smallest one.
LEMMA SmallestSet ==
    ASSUME NEW S, IsFiniteSet(S), NEW Some \in SUBSET (SUBSET S), Some # {}
    PROVE  \E T \in Some : \A U \in Some : U \subseteq T => U = T
  <1>1. FiniteSubsetsOf(S) = SUBSET S
    BY FS_FiniteSubsetsOfFinite
  <1>2. IsWellFoundedOn(StrictSubsetOrdering(S), SUBSET S)
    BY <1>1, FS_StrictSubsetOrderingWellFounded
  <1>3. \E T \in Some : \A U \in Some : <<U, T>> \notin StrictSubsetOrdering(S)
    BY <1>2, WFMin
  <1>. QED  BY <1>3 DEF StrictSubsetOrdering

\* The sum over T as the fold computes it: a function on the subsets of T that takes the
\* elements one by one, in the order of CHOOSE.
Picked(s) == CHOOSE x \in s : TRUE

IsSum(h, a, T) ==
    h = [s \in SUBSET T |-> IF s = {} THEN 0 ELSE Effect(a, Picked(s)) + h[s \ {Picked(s)}]]

SumOf(a, T) == CHOOSE h : IsSum(h, a, T)

LEMMA FoldIsSum ==
    ASSUME NEW a, NEW S
    PROVE  Moved(a, S) = SumOf(a, S)[S]
  BY DEF Moved, MapThenSumSet, MapThenFoldSet, SumOf, IsSum, Picked

\* Sums over different sets agree on what they have in common.
LEMMA SumsAgree ==
    ASSUME NEW a, NEW S, IsFiniteSet(S), NEW T \in SUBSET S, NEW U \in SUBSET S, NEW g, NEW h,
           IsSum(g, a, T), IsSum(h, a, U)
    PROVE  \A s \in (SUBSET T) \cap (SUBSET U) : g[s] = h[s]
  <1>. DEFINE Bad == {s \in (SUBSET T) \cap (SUBSET U) : g[s] # h[s]}
  <1>. SUFFICES ASSUME Bad # {} PROVE FALSE
    OBVIOUS
  <1>1. PICK s \in Bad : \A r \in Bad : r \subseteq s => r = s
    <2>1. Bad \in SUBSET (SUBSET S)
      OBVIOUS
    <2>. HIDE DEF Bad
    <2>. QED  BY <2>1, SmallestSet
  <1>2. \A r : r \in SUBSET T => g[r] = IF r = {} THEN 0 ELSE Effect(a, Picked(r)) + g[r \ {Picked(r)}]
    BY DEF IsSum
  <1>3. \A r : r \in SUBSET U => h[r] = IF r = {} THEN 0 ELSE Effect(a, Picked(r)) + h[r \ {Picked(r)}]
    BY DEF IsSum
  <1>4. s # {} /\ Picked(s) \in s
    BY <1>1, <1>2, <1>3 DEF Picked
  <1>5. g[s \ {Picked(s)}] = h[s \ {Picked(s)}]
    BY <1>1, <1>4
  <1>. QED  BY <1>1, <1>2, <1>3, <1>4, <1>5

\* There is such a function: on T itself it adds one element to the sum over the others.
LEMMA SumExists ==
    ASSUME NEW a, NEW S, IsFiniteSet(S)
    PROVE  \A T \in SUBSET S : IsSum(SumOf(a, T), a, T)
  <1>. DEFINE Bad == {T \in SUBSET S : ~ \E h : IsSum(h, a, T)}
  <1>1. Bad = {}
    <2>. SUFFICES ASSUME Bad # {} PROVE FALSE
      OBVIOUS
    <2>1. PICK T \in Bad : \A U \in Bad : U \subseteq T => U = T
      <3>1. Bad \in SUBSET (SUBSET S)
        OBVIOUS
      <3>. HIDE DEF Bad
      <3>. QED  BY <3>1, SmallestSet
    <2>2. \A U \in SUBSET T : U # T => IsSum(SumOf(a, U), a, U)
      BY <2>1 DEF SumOf
    <2>. DEFINE h == [s \in SUBSET T |->
                        IF s = T THEN IF T = {} THEN 0
                                      ELSE Effect(a, Picked(T)) + SumOf(a, T \ {Picked(T)})[T \ {Picked(T)}]
                        ELSE SumOf(a, s)[s]]
    <2>3. ASSUME NEW s \in SUBSET T
          PROVE  h[s] = IF s = {} THEN 0 ELSE Effect(a, Picked(s)) + h[s \ {Picked(s)}]
      <3>1. CASE s = {}
        <4>1. CASE T = {}
          BY <3>1, <4>1
        <4>2. CASE T # {}
          <5>1. SumOf(a, s)[s] = 0
            BY <2>2, <3>1, <4>2 DEF IsSum
          <5>. QED  BY <3>1, <4>2, <5>1
        <4>. QED  BY <4>1, <4>2
      <3>2. CASE s # {}
        <4>. DEFINE r == s \ {Picked(s)}
        <4>1. Picked(s) \in s
          BY <3>2 DEF Picked
        <4>2. r \in SUBSET T /\ r # T /\ r \in SUBSET s /\ r # s
          BY <4>1
        <4>3. h[r] = SumOf(a, r)[r]
          BY <4>2
        <4>4. CASE s = T
          BY <3>2, <4>3, <4>4
        <4>5. CASE s # T
          <5>1. IsSum(SumOf(a, s), a, s) /\ IsSum(SumOf(a, r), a, r)
            BY <2>2, <4>2, <4>5
          <5>2. SumOf(a, s)[s] = Effect(a, Picked(s)) + SumOf(a, s)[r]
            BY <3>2, <5>1 DEF IsSum
          <5>3. SumOf(a, s)[r] = SumOf(a, r)[r]
            <6>1. s \in SUBSET S /\ r \in SUBSET S /\ r \in (SUBSET s) \cap (SUBSET r)
              BY <2>1, <4>2
            <6>. HIDE DEF r
            <6>. QED  BY <5>1, <6>1, SumsAgree
          <5>4. h[s] = SumOf(a, s)[s]
            BY <4>5
          <5>. QED  BY <3>2, <4>3, <5>2, <5>3, <5>4
        <4>. QED  BY <4>4, <4>5
      <3>. QED  BY <3>1, <3>2
    <2>4. IsSum(h, a, T)
      <3>1. h = [s \in SUBSET T |-> h[s]]
        OBVIOUS
      <3>2. [s \in SUBSET T |-> h[s]] =
            [s \in SUBSET T |-> IF s = {} THEN 0 ELSE Effect(a, Picked(s)) + h[s \ {Picked(s)}]]
        <4>. HIDE DEF h
        <4>. QED  BY <2>3
      <3>. HIDE DEF h
      <3>. QED  BY <3>1, <3>2 DEF IsSum
    <2>. QED  BY <2>1, <2>4
  <1>. QED  BY <1>1 DEF SumOf
LEMMA SumEquation ==
    ASSUME NEW a, NEW S, IsFiniteSet(S)
    PROVE  \A T \in SUBSET S :
              SumOf(a, S)[T] = IF T = {} THEN 0
                               ELSE Effect(a, Picked(T)) + SumOf(a, S)[T \ {Picked(T)}]
  <1>. DEFINE h == SumOf(a, S)
  <1>1. IsSum(h, a, S)
    BY SumExists
  <1>. HIDE DEF h
  <1>2. \A T \in SUBSET S : h[T] = IF T = {} THEN 0 ELSE Effect(a, Picked(T)) + h[T \ {Picked(T)}]
    BY <1>1 DEF IsSum
  <1>. QED  BY <1>2 DEF h

LEMMA SumTypes ==
    ASSUME NEW a, NEW S, IsFiniteSet(S), \A t \in S : Effect(a, t) \in Int
    PROVE  \A T \in SUBSET S : SumOf(a, S)[T] \in Int
  <1>. DEFINE Bad == {T \in SUBSET S : SumOf(a, S)[T] \notin Int}
  <1>. SUFFICES ASSUME Bad # {} PROVE FALSE
    OBVIOUS
  <1>1. PICK T \in Bad : \A U \in Bad : U \subseteq T => U = T
    <2>1. Bad \in SUBSET (SUBSET S)
      OBVIOUS
    <2>. HIDE DEF Bad
    <2>. QED  BY <2>1, SmallestSet
  <1>2. SumOf(a, S)[T] = IF T = {} THEN 0 ELSE Effect(a, Picked(T)) + SumOf(a, S)[T \ {Picked(T)}]
    BY <1>1, SumEquation
  <1>3. T # {} /\ Picked(T) \in T
    BY <1>1, <1>2 DEF Picked
  <1>4. SumOf(a, S)[T \ {Picked(T)}] \in Int
    BY <1>1, <1>3
  <1>. QED  BY <1>1, <1>2, <1>3, <1>4

\* The order does not matter: any element may be taken first.
LEMMA SumWithout ==
    ASSUME NEW a, NEW S, IsFiniteSet(S), \A t \in S : Effect(a, t) \in Int
    PROVE  \A T \in SUBSET S : \A x \in T :
              SumOf(a, S)[T] = Effect(a, x) + SumOf(a, S)[T \ {x}]
  <1>. DEFINE Sum(T) == SumOf(a, S)[T]
              Bad == {T \in SUBSET S : \E x \in T : Sum(T) # Effect(a, x) + Sum(T \ {x})}
  <1>. SUFFICES ASSUME Bad # {} PROVE FALSE
    OBVIOUS
  <1>1. PICK T \in Bad : \A U \in Bad : U \subseteq T => U = T
    <2>1. Bad \in SUBSET (SUBSET S)
      OBVIOUS
    <2>. HIDE DEF Bad
    <2>. QED  BY <2>1, SmallestSet
  <1>2. PICK x \in T : Sum(T) # Effect(a, x) + Sum(T \ {x})
    BY <1>1
  <1>. DEFINE y == Picked(T)
  <1>3. y \in T
    BY <1>2 DEF Picked
  <1>4. \A U \in SUBSET S : U # {} => Sum(U) = Effect(a, Picked(U)) + Sum(U \ {Picked(U)})
    BY SumEquation
  <1>5. Sum(T) = Effect(a, y) + Sum(T \ {y})
    BY <1>1, <1>2, <1>4
  <1>6. x # y
    BY <1>2, <1>5
  <1>7. \A U \in SUBSET T : U # T => \A z \in U : Sum(U) = Effect(a, z) + Sum(U \ {z})
    <2>1. \A U \in SUBSET T : U # T => U \in SUBSET S /\ U \notin Bad
      <3>1. T \in SUBSET S
        OBVIOUS
      <3>. HIDE DEF Bad
      <3>. QED  BY <1>1, <3>1
    <2>. HIDE DEF Sum
    <2>. QED  BY <2>1
  <1>8. /\ Sum(T \ {y}) = Effect(a, x) + Sum((T \ {y}) \ {x})
        /\ Sum(T \ {x}) = Effect(a, y) + Sum((T \ {x}) \ {y})
    <2>1. T \ {y} \in SUBSET T /\ T \ {y} # T /\ x \in T \ {y}
      BY <1>2, <1>3, <1>6
    <2>2. T \ {x} \in SUBSET T /\ T \ {x} # T /\ y \in T \ {x}
      BY <1>2, <1>3, <1>6
    <2>. HIDE DEF Sum, y, Bad
    <2>. QED  BY <1>7, <2>1, <2>2
  <1>9. (T \ {y}) \ {x} = (T \ {x}) \ {y}
    OBVIOUS
  <1>10. /\ Effect(a, x) \in Int /\ Effect(a, y) \in Int
         /\ Sum((T \ {x}) \ {y}) \in Int
    BY <1>1, <1>2, <1>3, SumTypes
  <1>. HIDE DEF Sum, y
  <1>. QED  BY <1>2, <1>5, <1>8, <1>9, <1>10

LEMMA MovedNothing ==
    ASSUME NEW a
    PROVE  Moved(a, {}) = 0
  <1>1. IsFiniteSet({})
    BY FS_EmptySet
  <1>2. SumOf(a, {})[{}] = 0
    BY <1>1, SumEquation
  <1>. QED  BY <1>2, FoldIsSum

LEMMA MovedMore ==
    ASSUME NEW a, NEW S, IsFiniteSet(S), NEW x, x \notin S,
           \A t \in S \cup {x} : Effect(a, t) \in Int
    PROVE  /\ Moved(a, S \cup {x}) = Effect(a, x) + Moved(a, S)
           /\ Moved(a, S) \in Int
  <1>. DEFINE U == S \cup {x}
  <1>1. IsFiniteSet(U)
    BY FS_AddElement
  <1>2. S \in SUBSET U /\ x \in U /\ U \ {x} = S /\ U \in SUBSET U
    OBVIOUS
  <1>3. Moved(a, S) = SumOf(a, S)[S] /\ Moved(a, U) = SumOf(a, U)[U]
    BY FoldIsSum
  <1>. HIDE DEF U
  <1>4. SumOf(a, S)[S] = SumOf(a, U)[S]
    <2>1. IsSum(SumOf(a, S), a, S) /\ IsSum(SumOf(a, U), a, U)
      BY <1>1, <1>2, SumExists
    <2>. QED  BY <1>1, <1>2, <2>1, SumsAgree
  <1>5. SumOf(a, U)[U] = Effect(a, x) + SumOf(a, U)[S]
    <2>1. \A t \in U : Effect(a, t) \in Int
      BY DEF U
    <2>. QED  BY <1>1, <1>2, <2>1, SumWithout
  <1>6. SumOf(a, S)[S] \in Int
    BY SumTypes
  <1>. QED  BY <1>3, <1>4, <1>5, <1>6 DEF U

-----------------------------------------------------------------------------
\* Money is conserved

Balanced == IsFiniteSet(trades) /\ BalancesMatchTrades

LEMMA EffectType ==
    ASSUME TypeOK, NEW a \in Assets, NEW t \in trades
    PROVE  Effect(a, t) \in Int
  <1>1. t.quantity \in Nat /\ t.quote \in Nat
    BY DEF TypeOK
  <1>. QED  BY <1>1 DEF Effect

\* An account nobody knew of has no trades.
LEMMA NoTradesYet ==
    ASSUME IInv, History, NEW u \in Unborn
    PROVE  TradesOf(u) = {}
  <1>1. u \notin live
    BY DEF IInv, BornBeforeKnown
  <1>. QED  BY <1>1 DEF TradesOf, History, RowsOfFilled

\* The trade of a commit says what the commit moved.
LEMMA TradeSaysWhatMoved ==
    ASSUME IInv, NEW r \in Requests, CommitOrder(r), NEW a \in Assets
    PROVE  /\ Effect(a, NewTrade(r)) \in Int
           /\ free'[user[r]][a] = free[user[r]][a] + Effect(a, NewTrade(r))
  <1>. DEFINE u == user[r]
              b == body[r]
              q == Executed(b)
              cost == QuoteAmount(b, price[r])
              t == NewTrade(r)
  <1>1. /\ u \in Users /\ b.side \in Sides /\ b.pair \in Pairs
        /\ q \in Nat /\ cost \in Nat
    BY CommitMoves
  <1>2. /\ t.side = b.side /\ t.pair = b.pair /\ t.quantity = q /\ t.quote = cost
    BY DEF NewTrade
  <1>3. free[u][a] \in Int /\ Quote # b.pair
    BY <1>1, OrderFlowConstants DEF IInv, TypeOK
  <1>4. CASE b.side = "BUY"
    <2>1. free'[u][a] = IF a = Quote THEN free[u][a] - cost
                        ELSE IF a = b.pair THEN free[u][a] + q ELSE free[u][a]
      BY <1>1, <1>4, CommitMoves
         DEF Spend, Receive, SpendAsset, ReceiveAsset, SpendAmount, ReceiveAmount
    <2>2. Effect(a, t) = IF a = Quote THEN - cost ELSE IF a = b.pair THEN q ELSE 0
      BY <1>2, <1>3, <1>4 DEF Effect
    <2>. HIDE DEF q, cost
    <2>. QED  BY <1>1, <1>3, <2>1, <2>2
  <1>5. CASE b.side = "SELL"
    <2>1. free'[u][a] = IF a = Quote THEN free[u][a] + cost
                        ELSE IF a = b.pair THEN free[u][a] - q ELSE free[u][a]
      BY <1>1, <1>3, <1>5, CommitMoves
         DEF Spend, Receive, SpendAsset, ReceiveAsset, SpendAmount, ReceiveAmount
    <2>2. Effect(a, t) = IF a = Quote THEN cost ELSE IF a = b.pair THEN - q ELSE 0
      BY <1>2, <1>3, <1>5 DEF Effect
    <2>. HIDE DEF q, cost
    <2>. QED  BY <1>1, <1>3, <2>1, <2>2
  <1>. QED  BY <1>1, <1>4, <1>5 DEF Sides

LEMMA CommitOrderBalanced ==
    ASSUME IInv, History, Balanced, NEW r \in Requests, CommitOrder(r)
    PROVE  Balanced'
  <1>. DEFINE u == user[r]
              t == NewTrade(r)
  <1>1. live' = live /\ trades' = trades \cup {t} /\ t.account = u /\ t.order = r
    BY NewRows DEF CommitOrder
  <1>2. t \notin trades
    <2>1. ~Filled(r)
      BY DEF CommitOrder, History, Answered, Filled, Over
    <2>. QED  BY <1>1, <2>1 DEF History, RowsOfFilled
  <1>3. IsFiniteSet(trades')
    BY <1>1, FS_AddElement DEF Balanced
  <1>4. ASSUME NEW v \in live', NEW a \in Assets
        PROVE  free'[v][a] = Grant[a] + Moved(a, TradesOf(v)')
    <2>1. v \in Users /\ v \in live
      BY <1>1, <1>4 DEF IInv, TypeOK
    <2>2. free[v][a] = Grant[a] + Moved(a, TradesOf(v))
      BY <2>1 DEF Balanced, BalancesMatchTrades
    <2>3. CASE v # u
      <3>1. TradesOf(v)' = TradesOf(v)
        BY <1>1, <2>3 DEF TradesOf
      <3>2. free'[v][a] = free[v][a]
        BY <2>1, <2>3, CommitMoves
      <3>. QED  BY <2>2, <3>1, <3>2
    <2>4. CASE v = u
      <3>1. TradesOf(v)' = TradesOf(v) \cup {t} /\ t \notin TradesOf(v)
        BY <1>1, <1>2, <2>4 DEF TradesOf
      <3>2. IsFiniteSet(TradesOf(v))
        BY FS_Subset DEF Balanced, TradesOf
      <3>3. /\ Effect(a, t) \in Int
            /\ free'[v][a] = free[v][a] + Effect(a, t)
        BY <2>4, TradeSaysWhatMoved
      <3>4. \A x \in TradesOf(v) \cup {t} : Effect(a, x) \in Int
        BY <3>3, EffectType DEF TradesOf, IInv
      <3>. HIDE DEF t
      <3>5. /\ Moved(a, TradesOf(v) \cup {t}) = Effect(a, t) + Moved(a, TradesOf(v))
            /\ Moved(a, TradesOf(v)) \in Int
        BY <3>1, <3>2, <3>4, MovedMore
      <3>6. Grant[a] \in Int
        BY GrantType
      <3>. QED  BY <2>2, <3>1, <3>3, <3>5, <3>6
    <2>. QED  BY <2>3, <2>4
  <1>. QED  BY <1>3, <1>4 DEF Balanced, BalancesMatchTrades

LEMMA CommitResetBalanced ==
    ASSUME IInv, History, Balanced, NEW r \in Requests, CommitReset(r)
    PROVE  Balanced'
  <1>. DEFINE u == user[r]
              new == <<r, "reset">>
  <1>1. /\ live' = (live \ {u}) \cup {new}
        /\ free' = [free EXCEPT ![u] = Zero, ![new] = Grant]
        /\ trades' = {x \in trades : x.account # u}
    BY DEF CommitReset, Surviving
  <1>2. new \in Unborn /\ new \in Users
    BY DEF CommitReset, Unborn, Users
  <1>3. IsFiniteSet(trades')
    BY <1>1, FS_Subset DEF Balanced
  <1>4. ASSUME NEW v \in live', NEW a \in Assets
        PROVE  free'[v][a] = Grant[a] + Moved(a, TradesOf(v)')
    <2>1. CASE v = new
      <3>1. TradesOf(v)' = {}
        BY <1>1, <1>2, <2>1, NoTradesYet DEF TradesOf
      <3>2. free'[v] = Grant
        BY <1>1, <1>2, <2>1 DEF IInv, TypeOK
      <3>3. Grant[a] \in Int
        BY GrantType
      <3>. QED  BY <3>1, <3>2, <3>3, MovedNothing
    <2>2. CASE v # new
      <3>1. v \in live /\ v # u /\ v \in Users
        BY <1>1, <2>2 DEF IInv, TypeOK
      <3>2. TradesOf(v)' = TradesOf(v)
        BY <1>1, <3>1 DEF TradesOf
      <3>3. free'[v] = free[v]
        BY <1>1, <2>2, <3>1 DEF IInv, TypeOK
      <3>. QED  BY <3>1, <3>2, <3>3 DEF Balanced, BalancesMatchTrades
    <2>. QED  BY <2>1, <2>2
  <1>. QED  BY <1>3, <1>4 DEF Balanced, BalancesMatchTrades

LEMMA RegisterBalanced ==
    ASSUME IInv, History, Balanced, NEW r \in Requests, Register(r)
    PROVE  Balanced'
  <1>. DEFINE new == <<r, "visit">>
  <1>1. /\ live' = live \cup {new}
        /\ free' = [free EXCEPT ![new] = Grant]
        /\ trades' = trades
    BY DEF Register
  <1>2. new \in Unborn /\ new \in Users
    BY DEF Register, Unborn, Users
  <1>3. ASSUME NEW v \in live', NEW a \in Assets
        PROVE  free'[v][a] = Grant[a] + Moved(a, TradesOf(v)')
    <2>1. TradesOf(v)' = TradesOf(v)
      BY <1>1 DEF TradesOf
    <2>2. CASE v = new
      <3>1. TradesOf(v) = {}
        BY <1>2, <2>2, NoTradesYet
      <3>2. free'[v] = Grant
        BY <1>1, <1>2, <2>2 DEF IInv, TypeOK
      <3>3. Grant[a] \in Int
        BY GrantType
      <3>. QED  BY <2>1, <3>1, <3>2, <3>3, MovedNothing
    <2>3. CASE v # new
      <3>1. v \in live /\ free'[v] = free[v]
        BY <1>1, <1>2, <2>3 DEF IInv, TypeOK
      <3>. QED  BY <2>1, <3>1 DEF Balanced, BalancesMatchTrades
    <2>. QED  BY <2>2, <2>3
  <1>. QED  BY <1>1, <1>3 DEF Balanced, BalancesMatchTrades

LEMMA NextBalanced == IInv /\ History /\ Balanced /\ [Next]_vars => Balanced'
  <1>. SUFFICES ASSUME IInv, History, Balanced, [Next]_vars PROVE Balanced'
    OBVIOUS
  <1>1. ASSUME UNCHANGED <<live, free, trades>> PROVE Balanced'
    BY <1>1 DEF Balanced, BalancesMatchTrades, TradesOf
  <1>2. ASSUME NEW r \in Requests,
               FailedStep(r) \/ OngoingStep(r) \/ Send(r) \/ Deliver(r) \/ Lose(r)
        PROVE  UNCHANGED <<live, free, trades>>
    BY <1>2, FailedSteps, OngoingSteps DEF Fail, Send, Deliver, Lose, dbVars
  <1>3. CASE UNCHANGED vars
    BY <1>1, <1>3 DEF vars
  <1>. QED
    BY <1>1, <1>2, <1>3, StepKinds, CommitOrderBalanced, CommitResetBalanced, RegisterBalanced

LEMMA InitBalanced == Init => Balanced
  BY FS_EmptySet DEF Init, Balanced, BalancesMatchTrades

\* Money is neither created nor lost: the balances of every account are its grant and
\* what its trades moved, however many there are, whatever failed, raced or was reset.
THEOREM Conserved == Spec => []BalancesMatchTrades
  <1>1. Balanced => BalancesMatchTrades
    BY DEF Balanced
  <1>. QED
    BY <1>1, HistoryInvariance, InitBalanced, NextBalanced, PTL DEF Spec

-----------------------------------------------------------------------------
\* What is left behind

\* Rounding down to the lot.
LEMMA Rounded ==
    ASSUME NEW q \in Nat
    PROVE  RoundDown(q) % LotStep = 0 /\ RoundDown(q) <= q
<1>1. LotStep \in Nat \ {0}
  BY OrderFlowConstants
<1>2. q = LotStep * (q \div LotStep) + (q % LotStep) /\ q % LotStep \in 0..(LotStep - 1)
      /\ q \div LotStep \in Nat
  BY <1>1
<1>3. RoundDown(q) = LotStep * (q \div LotStep)
  <2>1. \A m, s \in Int : q = m + s => q - s = m
    OBVIOUS
  <2>2. LotStep * (q \div LotStep) \in Int /\ q % LotStep \in Int
    BY <1>1, <1>2
  <2>3. QED
    BY <1>2, <2>1, <2>2 DEF RoundDown
<1>4. (LotStep * (q \div LotStep)) % LotStep = 0
  BY <1>1, <1>2
<1>5. QED
  BY <1>1, <1>2, <1>3, <1>4 DEF RoundDown

\* Every order in the database is on an active pair, for the quantity its client asked
\* for rounded down to the lot, and not below the pair's minimum.
THEOREM WithinBounds == Spec => []ExecutedWithinBounds
<1>1. ASSUME IInv, History PROVE ExecutedWithinBounds
  <2> SUFFICES ASSUME NEW o \in orders
               PROVE  /\ o.pair \in ActivePairs
                      /\ o.quantity % LotStep = 0
                      /\ MinQuantity <= o.quantity /\ o.quantity <= body[o.id].quantity
    BY DEF ExecutedWithinBounds
  <2>1. o.id \in Requests /\ o = NewOrder(o.id) /\ Filled(o.id)
    BY <1>1 DEF IInv, TypeOK, History, RowsOfFilled
  <2>2. /\ o.pair = body[o.id].pair /\ o.quantity = Executed(body[o.id])
        /\ body[o.id] \in Bodies /\ body[o.id].kind = "market" /\ Acceptable(body[o.id])
    BY <1>1, <2>1 DEF NewOrder, History, Answered, Market
  <2>3. body[o.id].quantity \in Nat /\ Executed(body[o.id]) \in Nat
    BY <2>2, OrderAmounts, OrderFlowConstants DEF Bodies
  <2>4. QED
    BY <2>2, <2>3, Rounded, OrderFlowConstants DEF Acceptable, Executed
<1>2. QED
  BY <1>1, HistoryInvariance, PTL

\* An answer is true: 201 means one order with its one trade until a reset takes both,
\* anything else means neither, and a row's account exists.
THEOREM NothingByHalves == Spec => []AllOrNothing
<1>1. ASSUME IInv, History PROVE AllOrNothing
  <2> SUFFICES ASSUME NEW r \in Requests
               PROVE  /\ reply[r] = "201" /\ user[r] \in live => Cardinality(Ordered(r)) = 1
                      /\ reply[r] # "201" => Ordered(r) = {}
                      /\ Cardinality(Traded(r)) = Cardinality(Ordered(r))
                      /\ \A o \in Ordered(r), t \in Traded(r) :
                            /\ o.account = t.account /\ o.account \in live
                            /\ o.side = t.side /\ o.pair = t.pair /\ o.quantity = t.quantity
    BY DEF AllOrNothing
  <2>1. \A o \in Ordered(r) : o = NewOrder(r) /\ Filled(r) /\ user[r] \in live
    BY <1>1, NewRows DEF Ordered, History, RowsOfFilled
  <2>2. \A t \in Traded(r) : t = NewTrade(r) /\ Filled(r) /\ user[r] \in live
    BY <1>1, NewRows DEF Traded, History, RowsOfFilled
  <2>3. CASE Filled(r) /\ user[r] \in live
    <3>1. Ordered(r) = {NewOrder(r)} /\ Traded(r) = {NewTrade(r)}
      BY <1>1, <2>1, <2>2, <2>3, NewRows DEF Ordered, Traded, History, FilledHasRows
    <3>2. Cardinality(Ordered(r)) = 1 /\ Cardinality(Traded(r)) = 1
      BY <3>1, FS_Singleton
    <3>3. QED
      BY <2>3, <3>1, <3>2 DEF Filled, NewOrder, NewTrade
  <2>4. CASE ~(Filled(r) /\ user[r] \in live)
    <3>1. Ordered(r) = {} /\ Traded(r) = {}
      BY <2>1, <2>2, <2>4
    <3>2. QED
      BY <2>4, <3>1 DEF Filled
  <2>5. QED
    BY <2>3, <2>4
<1>2. QED
  BY <1>1, HistoryInvariance, PTL

-----------------------------------------------------------------------------
\* The cookie

\* A cookie that is on its way names an account that exists and that nothing but the
\* request it answers knows of: so nobody can reset that account before it arrives.
OwnCookie(r) ==
    pc[r] \notin {"done", "lost"} /\ setCookie[r] # NoUser =>
        /\ setCookie[r] \in live
        /\ jar # setCookie[r]
        /\ \A o \in Requests : o # r => user[o] # setCookie[r] /\ setCookie[o] # setCookie[r]

OwnCookies == \A r \in Requests : OwnCookie(r)

Session == OwnCookies /\ SessionKept

LEMMA InitSession == Init => Session
BY DEF Init, Session, OwnCookies, OwnCookie, SessionKept

\* A step that leaves the jar, the accounts and the cookies alone.
LEMMA QuietSession ==
    ASSUME IInv, Session, NEW r \in Requests,
           UNCHANGED <<jar, live, user, setCookie>>,
           \A o \in Requests : o # r => pc'[o] = pc[o],
           pc[r] \notin {"replied", "done", "lost"}
    PROVE  Session'
<1>1. OwnCookies'
  BY DEF Session, OwnCookies, OwnCookie
<1>2. SessionKept'
  BY DEF Session, SessionKept
<1>3. QED
  BY <1>1, <1>2 DEF Session

LEMMA SendSession ==
    ASSUME IInv, Session, NEW r \in Requests, Send(r)
    PROVE  Session'
<1>1. /\ UNCHANGED <<jar, live, setCookie>>
      /\ user' = [user EXCEPT ![r] = jar] /\ pc[r] = "idle"
      /\ pc' = [pc EXCEPT ![r] = "lookup"]
  BY DEF Send, browserVars, dbVars
<1>2. OwnCookies'
  BY <1>1 DEF Session, OwnCookies, OwnCookie, IInv, TypeOK
<1>3. SessionKept'
  BY <1>1 DEF Session, SessionKept, IInv, TypeOK
<1>4. QED
  BY <1>2, <1>3 DEF Session

\* The cookie that arrives is good; one that was waiting for another still is.
LEMMA DeliverSession ==
    ASSUME IInv, Session, NEW r \in Requests, Deliver(r)
    PROVE  Session'
<1>1. /\ UNCHANGED <<live, user, setCookie>> /\ pc[r] = "replied"
      /\ jar' = IF setCookie[r] = NoUser THEN jar ELSE setCookie[r]
      /\ pc' = [pc EXCEPT ![r] = "done"]
  BY DEF Deliver, dbVars
<1>2. NoUser \notin live
  BY OrderFlowConstants DEF IInv, TypeOK, Users
<1>3. OwnCookies'
  <2> SUFFICES ASSUME NEW o \in Requests, o # r PROVE OwnCookie(o)'
    BY <1>1 DEF OwnCookies, OwnCookie, IInv, TypeOK
  <2>1. OwnCookie(o)
    BY DEF Session, OwnCookies
  <2>2. QED
    BY <1>1, <2>1 DEF OwnCookie, IInv, TypeOK
<1>4. SessionKept'
  <2>1. CASE setCookie[r] = NoUser
    BY <1>1, <1>2, <2>1 DEF Session, SessionKept, IInv, TypeOK
  <2>2. CASE setCookie[r] # NoUser
    BY <1>1, <2>2 DEF Session, SessionKept, OwnCookies, OwnCookie
  <2>3. QED
    BY <2>1, <2>2
<1>5. QED
  BY <1>3, <1>4 DEF Session

LEMMA LoseSession ==
    ASSUME IInv, Session, NEW r \in Requests, Lose(r)
    PROVE  Session'
<1>1. /\ UNCHANGED <<jar, live, user, setCookie>>
      /\ pc' = [pc EXCEPT ![r] = "lost"]
  BY DEF Lose, browserVars, dbVars
<1>2. OwnCookies'
  BY <1>1 DEF Session, OwnCookies, OwnCookie, IInv, TypeOK
<1>3. SessionKept'
  BY <1>1 DEF SessionKept, IInv, TypeOK
<1>4. QED
  BY <1>2, <1>3 DEF Session

LEMMA RegisterSession ==
    ASSUME IInv, Session, NEW r \in Requests, Register(r)
    PROVE  Session'
<1> DEFINE new == <<r, "visit">>
<1>1. /\ UNCHANGED jar /\ pc[r] = "register"
      /\ live' = live \cup {new}
      /\ user' = [user EXCEPT ![r] = new] /\ setCookie' = [setCookie EXCEPT ![r] = new]
      /\ pc' = [pc EXCEPT ![r] = "handle"]
  BY DEF Register, IssueCookie, browserVars
<1>2. /\ new # NoUser /\ jar # new
      /\ \A o \in Requests : user[o] # new /\ setCookie[o] # new
  <2>1. new \in Unborn
    BY <1>1 DEF Unborn
  <2>2. new # NoUser
    BY OrderFlowConstants
  <2>3. QED
    BY <2>1, <2>2 DEF IInv, BornBeforeKnown
<1>3. OwnCookies'
  <2>1. OwnCookie(r)'
    BY <1>1, <1>2 DEF OwnCookie, IInv, TypeOK
  <2>2. ASSUME NEW o \in Requests, o # r PROVE OwnCookie(o)'
    <3>1. OwnCookie(o)
      BY DEF Session, OwnCookies
    <3>2. pc'[o] = pc[o] /\ setCookie'[o] = setCookie[o]
      BY <1>1, <2>2 DEF IInv, TypeOK
    <3>3. \A x \in Requests : x # o => /\ user'[x] = user[x] \/ user'[x] = new
                                       /\ setCookie'[x] = setCookie[x] \/ setCookie'[x] = new
      BY <1>1 DEF IInv, TypeOK
    <3>4. QED
      BY <1>1, <1>2, <3>1, <3>2, <3>3 DEF OwnCookie
  <2>3. QED
    BY <2>1, <2>2 DEF OwnCookies
<1>4. SessionKept'
  BY <1>1 DEF Session, SessionKept, IInv, TypeOK
<1>5. QED
  BY <1>3, <1>4 DEF Session

\* If it was the browser's account that went, this request brings the next one.
LEMMA CommitResetSession ==
    ASSUME IInv, Session, NEW r \in Requests, CommitReset(r)
    PROVE  Session'
<1> DEFINE new == <<r, "reset">>
<1>1. /\ UNCHANGED <<jar, user>> /\ pc[r] = "deleteBalances"
      /\ live' = (live \ {user[r]}) \cup {new}
      /\ setCookie' = [setCookie EXCEPT ![r] = new]
      /\ pc' = [pc EXCEPT ![r] = "replied"]
  BY DEF CommitReset, IssueCookie, browserVars
<1>2. /\ new # NoUser /\ jar # new
      /\ \A o \in Requests : user[o] # new /\ setCookie[o] # new
  <2>1. new \in Unborn
    BY <1>1 DEF Unborn
  <2>2. new # NoUser
    BY OrderFlowConstants
  <2>3. QED
    BY <2>1, <2>2 DEF IInv, BornBeforeKnown
<1>3. OwnCookies'
  <2>1. OwnCookie(r)'
    BY <1>1, <1>2 DEF OwnCookie, IInv, TypeOK
  <2>2. ASSUME NEW o \in Requests, o # r PROVE OwnCookie(o)'
    <3>1. OwnCookie(o)
      BY DEF Session, OwnCookies
    <3>2. pc'[o] = pc[o] /\ setCookie'[o] = setCookie[o]
      BY <1>1, <2>2 DEF IInv, TypeOK
    <3>3. \A x \in Requests : setCookie'[x] = setCookie[x] \/ setCookie'[x] = new
      BY <1>1 DEF IInv, TypeOK
    <3>4. QED
      BY <1>1, <1>2, <2>2, <3>1, <3>2, <3>3 DEF OwnCookie
  <2>3. QED
    BY <2>1, <2>2 DEF OwnCookies
<1>4. SessionKept'
  <2> SUFFICES ASSUME \A o \in Requests : pc'[o] # "lost", jar # NoUser, jar \notin live'
               PROVE  \E o \in Requests : /\ pc'[o] = "replied" /\ user[o] = jar
                                          /\ setCookie'[o] \in live'
    BY <1>1 DEF SessionKept
  <2>1. CASE jar = user[r]
    BY <1>1, <2>1 DEF IInv, TypeOK
  <2>2. CASE jar # user[r]
    <3>1. PICK o \in Requests : /\ pc[o] = "replied" /\ user[o] = jar
                                /\ setCookie[o] \in live
      BY <1>1, <2>2 DEF Session, SessionKept, IInv, TypeOK
    <3>2. o # r /\ setCookie[o] # NoUser
      BY <1>1, <3>1, OrderFlowConstants DEF IInv, TypeOK, Users
    <3>3. setCookie[o] # user[r]
      BY <3>1, <3>2 DEF Session, OwnCookies, OwnCookie
    <3>4. QED
      BY <1>1, <3>1, <3>2, <3>3 DEF IInv, TypeOK
  <2>3. QED
    BY <2>1, <2>2
<1>5. QED
  BY <1>3, <1>4 DEF Session

LEMMA NextSession == IInv /\ Session /\ [Next]_vars => Session'
<1> SUFFICES ASSUME IInv, Session, [Next]_vars PROVE Session'
  OBVIOUS
<1>1. ASSUME NEW r \in Requests, NEW status, Fail(r, status), pc[r] \notin Over
      PROVE  Session'
  BY <1>1, QuietSession DEF Fail, Answer, IInv, TypeOK, browserVars, dbVars, Over
<1>2. ASSUME NEW r \in Requests, FailedStep(r) PROVE Session'
  BY <1>1, <1>2, FailedSteps
<1>3. ASSUME NEW r \in Requests, CommitOrder(r) PROVE Session'
  BY <1>3, QuietSession DEF CommitOrder, IInv, TypeOK, browserVars
<1>4. ASSUME NEW r \in Requests, OngoingStep(r) PROVE Session'
  <2>1. /\ pc[r] \notin Over
        /\ \A o \in Requests : o # r => pc'[o] = pc[o]
        /\ UNCHANGED <<jar, live, user, setCookie>>
    BY <1>4, OngoingSteps DEF IInv, TypeOK, InFlight, OrderTx, ResetTx, Over, dbVars
  <2>2. QED
    BY <2>1, QuietSession DEF Over
<1>5. CASE UNCHANGED vars
  BY <1>5 DEF vars, Session, OwnCookies, OwnCookie, SessionKept
<1>6. ASSUME NEW r \in Requests,
             Send(r) \/ Deliver(r) \/ Lose(r) \/ Register(r) \/ CommitReset(r)
      PROVE  Session'
  BY <1>6, SendSession, DeliverSession, LoseSession, RegisterSession, CommitResetSession
<1>7. QED
  BY <1>2, <1>3, <1>4, <1>5, <1>6, StepKinds

\* While no answer has been lost, the browser's cookie names an account that exists or
\* one whose successor is on its way, whatever it sends and resets concurrently.
THEOREM CookieKept == Spec => []SessionKept
<1>1. Session => SessionKept
  BY DEF Session
<1>2. QED
  BY <1>1, InitIInv, InitSession, NextIInv, NextSession, PTL DEF Spec

-----------------------------------------------------------------------------
\* The abstract specification

LEMMA RefinedInit == Init => LedgerSpec!Init
BY DEF Init, LedgerSpec!Init, LedgerSpec!Zero, Zero, LedgerSpec!Assets, Assets

LEMMA SameGrant ==
    /\ LedgerSpec!Zero = Zero
    /\ LedgerSpec!Grant = Grant
BY DEF LedgerSpec!Zero, Zero, LedgerSpec!Grant, Grant, LedgerSpec!Assets, Assets

\* A commit of an order is a purchase or a sale, at the balances of this moment.
LEMMA RefinedOrder ==
    ASSUME IInv, NEW r \in Requests, CommitOrder(r)
    PROVE  LedgerSpec!Next
<1> DEFINE u == user[r]
           b == body[r]
           q == Executed(b)
           p == price[r]
<1>1. /\ u \in Users /\ p \in Prices
      /\ Market(r) /\ b \in Bodies /\ Acceptable(b)
  BY DEF CommitOrder, IInv, Prepared, Pricing, OrderTx
<1>2. b.side \in Sides /\ b.pair \in Pairs /\ q \in {RoundDown(n) : n \in Quantities}
  BY <1>1 DEF Market, Bodies, Executed
<1>3. /\ Spend(r) \in rows[u] /\ free[u][Spend(r)] >= SpendAmount(b, p)
  BY DEF CommitOrder, IInv, DebitsCovered, DebitCovered, Debited, OrderTx
<1>4. u \in live
  BY <1>1, <1>3 DEF IInv, RowsHoldMoney
<1>5. /\ UNCHANGED live
      /\ trades' = trades \cup {NewTrade(r)}
      /\ free' = [free EXCEPT ![u][Spend(r)]   = @ - SpendAmount(b, p),
                              ![u][Receive(r)] = @ + ReceiveAmount(b, p)]
  BY DEF CommitOrder
<1>6. CASE b.side = "BUY"
  <2>1. /\ Spend(r) = Quote /\ Receive(r) = b.pair
        /\ SpendAmount(b, p) = q * p /\ ReceiveAmount(b, p) = q
    BY <1>6 DEF Spend, Receive, SpendAsset, ReceiveAsset, SpendAmount, ReceiveAmount, QuoteAmount
  <2>2. LedgerSpec!Buy(u, r, b.pair, q, p)
    BY <1>3, <1>4, <1>5, <1>6, <2>1 DEF LedgerSpec!Buy, NewTrade, QuoteAmount
  <2>3. QED
    BY <1>1, <1>2, <2>2 DEF LedgerSpec!Next
<1>7. CASE b.side = "SELL"
  <2>1. /\ Spend(r) = b.pair /\ Receive(r) = Quote
        /\ SpendAmount(b, p) = q /\ ReceiveAmount(b, p) = q * p
    BY <1>7 DEF Spend, Receive, SpendAsset, ReceiveAsset, SpendAmount, ReceiveAmount, QuoteAmount
  <2>2. LedgerSpec!Sell(u, r, b.pair, q, p)
    BY <1>3, <1>4, <1>5, <1>7, <2>1 DEF LedgerSpec!Sell, NewTrade, QuoteAmount
  <2>3. QED
    BY <1>1, <1>2, <2>2 DEF LedgerSpec!Next
<1>8. QED
  BY <1>2, <1>6, <1>7 DEF Sides

\* Opening an account, and replacing one by another that nobody knew of.
LEMMA RefinedAccount ==
    ASSUME IInv, NEW r \in Requests, Register(r) \/ CommitReset(r)
    PROVE  LedgerSpec!Next
<1>1. CASE Register(r)
  <2>1. <<r, "visit">> \in Unborn
    BY <1>1 DEF Register, Unborn
  <2>2. <<r, "visit">> \in Users /\ <<r, "visit">> \notin live
    BY <2>1 DEF IInv, BornBeforeKnown, Users
  <2>3. LedgerSpec!Open(<<r, "visit">>)
    BY <1>1, <2>2, SameGrant DEF Register, LedgerSpec!Open
  <2>4. QED
    BY <2>2, <2>3 DEF LedgerSpec!Next
<1>2. CASE CommitReset(r)
  <2>1. <<r, "reset">> \in Unborn /\ user[r] \in Users
    BY <1>2 DEF CommitReset, Unborn, IInv, Prepared, ResetTx
  <2>2. <<r, "reset">> \in Users /\ <<r, "reset">> \notin live /\ user[r] # <<r, "reset">>
    BY <2>1 DEF IInv, BornBeforeKnown, Users
  <2>3. LedgerSpec!Reset(user[r], <<r, "reset">>)
    BY <1>2, <2>2, SameGrant DEF CommitReset, Surviving, LedgerSpec!Reset
  <2>4. QED
    BY <2>1, <2>2, <2>3 DEF LedgerSpec!Next
<1>3. QED
  BY <1>1, <1>2

\* Orders and resets, interleaved statement by statement with others that fail, wait and
\* deadlock, look like the atomic steps of Ledger.
THEOREM Refinement == Spec => ImplementsLedger
<1>1. IInv /\ [Next]_vars => [LedgerSpec!Next]_(LedgerSpec!vars)
  <2> SUFFICES ASSUME IInv, [Next]_vars PROVE [LedgerSpec!Next]_(LedgerSpec!vars)
    OBVIOUS
  <2>1. ASSUME NEW r \in Requests,
               FailedStep(r) \/ OngoingStep(r) \/ Send(r) \/ Deliver(r) \/ Lose(r)
        PROVE  UNCHANGED LedgerSpec!vars
    BY <2>1, FailedSteps, OngoingSteps DEF Fail, Send, Deliver, Lose, dbVars, LedgerSpec!vars
  <2>2. CASE UNCHANGED vars
    BY <2>2 DEF vars, LedgerSpec!vars
  <2>3. QED
    BY <2>1, <2>2, StepKinds, RefinedOrder, RefinedAccount
<1>2. QED
  BY <1>1, InitIInv, NextIInv, RefinedInit, PTL DEF Spec, ImplementsLedger, LedgerSpec!Spec

==============================================================================
