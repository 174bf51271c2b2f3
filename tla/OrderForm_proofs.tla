--------------------------- MODULE OrderForm_proofs ---------------------------
(***************************************************************************)
(* The arithmetic of the order form for any prices, lots and balances: the *)
(* rounding never asks for more than there is, and the server never finds  *)
(* less than the form had checked unless something moved.                  *)
(***************************************************************************)
EXTENDS OrderForm, SequenceTheorems, TLAPS

-----------------------------------------------------------------------------
\* Arithmetic

LEMMA Monotonic ==
    ASSUME NEW a \in Nat, NEW b \in Nat, NEW c \in Nat, NEW d \in Nat, a <= b, c <= d
    PROVE  a * c <= b * d
  <1>1. a * c <= b * c
    OBVIOUS
  <1>2. b * c <= b * d
    OBVIOUS
  <1>3. a * c \in Nat /\ b * c \in Nat /\ b * d \in Nat
    OBVIOUS
  <1>. QED  BY <1>1, <1>2, <1>3

LEMMA Floor ==
    ASSUME NEW n \in Nat, NEW m \in Nat \ {0}
    PROVE  /\ n \div m \in Nat
           /\ (n \div m) * m <= n
           /\ n < (n \div m) * m + m
  OBVIOUS

\* Whole lots are an integer, and for a share n / d the largest one not above it.
LEMMA LotsType ==
    ASSUME NEW n \in Int, NEW d \in Nat \ {0}, NEW lot \in Nat \ {0}
    PROVE  Lots(n, d, lot) \in Int
  <1>1. d * lot \in Nat \ {0}
    OBVIOUS
  <1>2. CASE n >= 0
    <2>1. n \div (d * lot) \in Nat
      BY <1>1, <1>2, Floor
    <2>. QED  BY <1>2, <2>1 DEF Lots
  <1>3. CASE ~(n >= 0)
    <2>1. (-n) \in Nat
      BY <1>3
    <2>2. (-n) \div (d * lot) \in Nat
      BY <1>1, <2>1, Floor
    <2>. QED  BY <1>3, <2>2 DEF Lots
  <1>. QED  BY <1>2, <1>3

LEMMA Regrouped ==
    ASSUME NEW k \in Nat, NEW d \in Nat, NEW lot \in Nat
    PROVE  /\ (k * lot) * d = k * (d * lot)
           /\ (k * lot + lot) * d = k * (d * lot) + d * lot
  OBVIOUS

LEMMA LotsExact ==
    ASSUME NEW n \in Nat, NEW d \in Nat \ {0}, NEW lot \in Nat \ {0}
    PROVE  /\ Lots(n, d, lot) \in Nat
           /\ Lots(n, d, lot) * d <= n
           /\ n < (Lots(n, d, lot) + lot) * d
  <1>. DEFINE m == d * lot
              k == n \div m
  <1>1. m \in Nat \ {0}
    OBVIOUS
  <1>2. k \in Nat /\ k * m <= n /\ n < k * m + m
    BY <1>1, Floor
  <1>3. Lots(n, d, lot) = k * lot
    BY DEF Lots
  <1>4. (k * lot) * d = k * m /\ (k * lot + lot) * d = k * m + m
    BY <1>2, Regrouped
  <1>5. k * lot \in Nat
    BY <1>2
  <1>6. Lots(n, d, lot) * d = k * m /\ (Lots(n, d, lot) + lot) * d = k * m + m
    BY <1>3, <1>4
  <1>. HIDE DEF m, k
  <1>7. Lots(n, d, lot) \in Nat
    BY <1>3, <1>5
  <1>8. Lots(n, d, lot) * d <= n
    BY <1>2, <1>6
  <1>9. n < (Lots(n, d, lot) + lot) * d
    BY <1>2, <1>6
  <1>. QED  BY <1>7, <1>8, <1>9

-----------------------------------------------------------------------------
\* The values a step writes

\* Orders as the invariant wants them.
GoodOrders ==
    {o \in Orders : /\ o.entered = o.symbol
                    /\ o.quantity > 0
                    /\ Spend(o.side, o.quantity, o.price) <= o.available}

\* The invariant without its sequence of orders.
FormInv ==
    /\ symbol \in Symbols
    /\ form \in Forms
    /\ entered \in Symbols
    /\ tickers \in [Symbols -> Nat]
    /\ pairs \in BOOLEAN
    /\ cached \in Balances
    /\ page \in Pages
    /\ real \in Balances
    /\ trades \in 0..MaxTrades
    /\ form.quantity # 0 => entered = symbol

LEMMA Reformulated == IInv <=> FormInv /\ orders \in Seq(GoodOrders)
  <1>1. ASSUME IInv PROVE FormInv /\ orders \in Seq(GoodOrders)
    <2>1. FormInv /\ orders \in Seq(Orders)
      BY <1>1 DEF IInv, TypeOK, EnteredForIt, FormInv
    <2>2. \A i \in DOMAIN orders : orders[i] \in GoodOrders
      BY <1>1, <2>1 DEF IInv, EnteredForIt, SentWithinSight, GoodOrders
    <2>3. Len(orders) \in Nat /\ orders \in [1..Len(orders) -> GoodOrders]
      BY <2>1, <2>2
    <2>. QED  BY <2>1, <2>3, SeqDef
  <1>2. ASSUME FormInv, orders \in Seq(GoodOrders) PROVE IInv
    <2>1. GoodOrders \subseteq Orders
      BY DEF GoodOrders
    <2>2. orders \in Seq(Orders)
      BY <1>2, <2>1, SeqMonotonic
    <2>3. \A i \in DOMAIN orders : orders[i] \in GoodOrders
      BY <1>2
    <2>4. TypeOK
      BY <1>2, <2>2 DEF FormInv, TypeOK
    <2>5. EnteredForIt /\ SentWithinSight
      BY <1>2, <2>3 DEF FormInv, EnteredForIt, SentWithinSight, GoodOrders
    <2>. QED  BY <2>4, <2>5 DEF IInv
  <1>. QED  BY <1>1, <1>2

LEMMA ReformulatedNext ==
    ASSUME FormInv', orders' \in Seq(GoodOrders)
    PROVE  IInv'
  <1>1. GoodOrders \subseteq Orders
    BY DEF GoodOrders
  <1>2. orders' \in Seq(Orders)
    BY <1>1, SeqMonotonic
  <1>3. \A i \in DOMAIN orders' : orders'[i] \in GoodOrders
    OBVIOUS
  <1>4. TypeOK'
    BY <1>2 DEF FormInv, TypeOK
  <1>5. EnteredForIt' /\ SentWithinSight'
    BY <1>3 DEF FormInv, EnteredForIt, SentWithinSight, GoodOrders
  <1>. QED  BY <1>4, <1>5 DEF IInv

LEMMA ViewType ==
    ASSUME FormInv, NEW s \in Symbols, NEW os
    PROVE  View(s, os) \in Pages
  BY OrderFormConstants DEF FormInv, View, Pages

LEMMA TradedType ==
    ASSUME NEW b \in Balances, NEW s \in Symbols, NEW side \in Sides,
           NEW quantity \in Int, NEW price \in Nat
    PROVE  Traded(b, s, side, quantity, price) \in Balances
  <1>. DEFINE sign == IF side = "BUY" THEN 1 ELSE -1
              gain == [a \in {Quote, s} |-> IF a = s THEN sign * quantity
                                            ELSE -(sign * quantity * price)]
  <1>1. gain \in [{Quote, s} -> Int]
    <2>1. sign \in Int
      OBVIOUS
    <2>2. sign * quantity \in Int
      BY <2>1
    <2>3. sign * quantity * price \in Int
      BY <2>2
    <2>. HIDE DEF sign
    <2>. QED  BY <2>2, <2>3
  <1>2. Traded(b, s, side, quantity, price) =
            [a \in Assets |-> IF a \in DOMAIN gain THEN b[a] + gain[a] ELSE b[a]]
    BY DEF Traded
  <1>. HIDE DEF gain
  <1>. QED  BY <1>1, <1>2 DEF Balances

LEMMA EnteredTypes ==
    ASSUME FormInv
    PROVE  /\ Available \in Int
           /\ EffectivePrice \in Nat
           /\ Divisor \in Nat \ {0}
           /\ page.lot \in Nat \ {0}
           /\ page.price \in Nat
  <1>1. form \in Forms /\ page \in Pages
    BY DEF FormInv
  <1>2. EffectivePrice \in Nat /\ page.lot \in Nat \ {0} /\ page.price \in Nat
    BY <1>1 DEF EffectivePrice, Forms, Pages
  <1>3. Available \in Int
    <2>1. SpendAsset(form.side) \in Assets
      BY DEF SpendAsset, Assets, FormInv
    <2>2. page.free[SpendAsset(form.side)] \in Int
      BY <1>1, <2>1 DEF Pages, Balances
    <2>. QED  BY <2>2 DEF Available
  <1>4. Divisor \in Nat \ {0}
    BY <1>2 DEF Divisor
  <1>. QED  BY <1>2, <1>3, <1>4

LEMMA ShareType ==
    ASSUME OrderFormConstants, FormInv, NEW percent \in Percents
    PROVE  Share(percent) \in Int
  <1>1. percent \in 0..100
    BY DEF OrderFormConstants
  <1>2. Available * percent \in Int
    BY <1>1, EnteredTypes
  <1>. QED  BY <1>2, EnteredTypes, LotsType DEF Share

\* Leaving an order out, or marking orders, keeps them good.
LEMMA WithoutType ==
    ASSUME orders \in Seq(GoodOrders), NEW i \in DOMAIN orders
    PROVE  Without(i) \in Seq(GoodOrders)
  <1>1. Len(orders) - 1 \in Nat
    OBVIOUS
  <1>2. Without(i) \in [1..Len(orders) - 1 -> GoodOrders]
    BY DEF Without
  <1>. QED  BY <1>1, <1>2, SeqDef

LEMMA UnfollowedType ==
    ASSUME orders \in Seq(GoodOrders)
    PROVE  Unfollowed(orders) \in Seq(GoodOrders)
  <1>1. \A o \in GoodOrders : [o EXCEPT !.followed = FALSE] \in GoodOrders
    BY DEF GoodOrders, Orders
  <1>2. Len(orders) \in Nat /\ DOMAIN orders = 1..Len(orders)
    OBVIOUS
  <1>3. Unfollowed(orders) \in [1..Len(orders) -> GoodOrders]
    BY <1>1, <1>2 DEF Unfollowed
  <1>. QED  BY <1>2, <1>3, SeqDef

LEMMA JudgedType ==
    ASSUME orders \in Seq(GoodOrders), NEW i \in DOMAIN orders, NEW stage \in Stages
    PROVE  [orders EXCEPT ![i].stage = stage] \in Seq(GoodOrders)
  <1>1. orders[i] \in GoodOrders
    OBVIOUS
  <1>2. [orders[i] EXCEPT !.stage = stage] \in GoodOrders
    BY <1>1 DEF GoodOrders, Orders
  <1>. QED  BY <1>2

-----------------------------------------------------------------------------
\* The steps

LEMMA ChangeKeeps ==
    ASSUME FormInv, orders \in Seq(GoodOrders), NEW new \in Forms, Change(new),
           entered' \in Symbols, new.quantity # 0 => entered' = symbol
    PROVE  FormInv' /\ orders' \in Seq(GoodOrders)
  <1>1. View(symbol, orders) \in Pages
    BY ViewType DEF FormInv
  <1>. QED  BY <1>1 DEF Change, FormInv, cacheVars

LEMMA EnterKeeps ==
    ASSUME FormInv, orders \in Seq(GoodOrders), NEW quantity \in Int, Enter(quantity)
    PROVE  FormInv' /\ orders' \in Seq(GoodOrders)
  <1>1. [form EXCEPT !.quantity = quantity] \in Forms
    BY DEF FormInv, Forms
  <1>. QED  BY <1>1, ChangeKeeps DEF Enter, FormInv

LEMMA UserKeeps ==
    ASSUME OrderFormConstants, FormInv, orders \in Seq(GoodOrders), User
    PROVE  FormInv' /\ orders' \in Seq(GoodOrders)
  <1>1. ASSUME NEW side \in Sides, SelectSide(side)
        PROVE  FormInv' /\ orders' \in Seq(GoodOrders)
    <2>1. [form EXCEPT !.side = side] \in Forms
      BY DEF FormInv, Forms
    <2>. QED  BY <1>1, <2>1, ChangeKeeps DEF SelectSide, FormInv, Forms
  <1>2. ASSUME NEW type \in Types, SelectType(type)
        PROVE  FormInv' /\ orders' \in Seq(GoodOrders)
    <2>1. [form EXCEPT !.type = type] \in Forms
      BY DEF FormInv, Forms
    <2>. QED  BY <1>2, <2>1, ChangeKeeps DEF SelectType, FormInv, Forms
  <1>3. ASSUME NEW price \in Prices[symbol], TypePrice(price)
        PROVE  FormInv' /\ orders' \in Seq(GoodOrders)
    <2>1. price \in Nat
      BY DEF OrderFormConstants, FormInv
    <2>2. [form EXCEPT !.price = price] \in Forms
      BY <2>1 DEF FormInv, Forms
    <2>. QED  BY <1>3, <2>2, ChangeKeeps DEF TypePrice, FormInv, Forms
  <1>4. ASSUME NEW quantity \in Quantities, TypeQuantity(quantity)
        PROVE  FormInv' /\ orders' \in Seq(GoodOrders)
    <2>1. quantity \in Int
      BY DEF OrderFormConstants
    <2>. QED  BY <1>4, <2>1, EnterKeeps DEF TypeQuantity
  <1>5. ASSUME NEW percent \in Percents, ApplyPercent(percent)
        PROVE  FormInv' /\ orders' \in Seq(GoodOrders)
    BY <1>5, ShareType, EnterKeeps DEF ApplyPercent
  <1>6. ASSUME NEW total \in Totals, HandleTotal(total)
        PROVE  FormInv' /\ orders' \in Seq(GoodOrders)
    <2>1. total \in Int
      BY DEF OrderFormConstants
    <2>2. ASSUME EffectivePrice > 0
          PROVE  Lots(total, EffectivePrice, page.lot) \in Int
      <3>1. EffectivePrice \in Nat \ {0} /\ page.lot \in Nat \ {0}
        BY <2>2, EnteredTypes
      <3>. QED  BY <2>1, <3>1, LotsType
    <2>. QED  BY <1>6, <2>2, EnterKeeps DEF HandleTotal
  <1>7. ASSUME NEW s \in Symbols, SelectSymbol(s)
        PROVE  FormInv' /\ orders' \in Seq(GoodOrders)
    <2>1. Cleared(s) \in Forms /\ Cleared(s).quantity = 0
      BY DEF Cleared, FormInv, Forms
    <2>2. View(s, orders) \in Pages
      BY ViewType
    <2>. QED  BY <1>7, <2>1, <2>2 DEF SelectSymbol, FormInv, cacheVars
  <1>8. ASSUME Submit
        PROVE  FormInv' /\ orders' \in Seq(GoodOrders)
    <2>. DEFINE o == [symbol |-> symbol, side |-> form.side, quantity |-> form.quantity,
                      entered |-> entered, price |-> page.price, available |-> Available,
                      before |-> cached, stage |-> "sent", followed |-> TRUE]
    <2>1. /\ form.quantity > 0
          /\ form.type = "MARKET"
          /\ ~TooMuch
      BY <1>8, EnteredTypes DEF Submit, Disabled, FormInv, Forms, Types
    <2>2. entered = symbol
      BY <2>1 DEF FormInv
    <2>3. Spend(form.side, form.quantity, page.price) <= Available
      <3>1. EffectivePrice = page.price
        BY <2>1 DEF EffectivePrice
      <3>2. Spend(form.side, form.quantity, page.price) \in Int
        BY EnteredTypes DEF Spend, FormInv, Forms
      <3>. QED  BY <2>1, <3>1, <3>2, EnteredTypes DEF TooMuch, Used
    <2>4. o \in GoodOrders
      <3>1. o \in Orders
        BY EnteredTypes DEF Orders, Stages, FormInv, Forms
      <3>. QED  BY <2>1, <2>2, <2>3, <3>1 DEF GoodOrders
    <2>5. orders' \in Seq(GoodOrders)
      <3>. HIDE DEF o
      <3>1. orders' = Append(Unfollowed(orders), o)
        BY <1>8 DEF Submit, o
      <3>. QED  BY <2>4, <3>1, UnfollowedType
    <2>6. cached' \in Balances
      <3>1. form.side \in Sides /\ form.quantity \in Int /\ tickers[symbol] \in Nat
        BY DEF FormInv, Forms
      <3>. QED  BY <1>8, <3>1, TradedType DEF Submit, FormInv
    <2>7. trades' \in 0..MaxTrades
      BY <1>8 DEF Submit, FormInv, OrderFormConstants
    <2>. QED  BY <1>8, <2>5, <2>6, <2>7 DEF Submit, FormInv
  <1>. QED  BY <1>1, <1>2, <1>3, <1>4, <1>5, <1>6, <1>7, <1>8 DEF User

LEMMA JudgeKeeps ==
    ASSUME FormInv, orders \in Seq(GoodOrders), NEW i \in DOMAIN orders, NEW stage \in Stages,
           Judge(i, stage), real' \in Balances
    PROVE  FormInv' /\ orders' \in Seq(GoodOrders)
  <1>1. orders' \in Seq(GoodOrders)
    BY JudgedType DEF Judge
  <1>. QED  BY <1>1 DEF Judge, FormInv, cacheVars

LEMMA ServerKeeps ==
    ASSUME OrderFormConstants, FormInv, orders \in Seq(GoodOrders), Server
    PROVE  FormInv' /\ orders' \in Seq(GoodOrders)
  <1>1. \A i \in DOMAIN orders : orders[i] \in Orders
    BY DEF GoodOrders
  <1>2. ASSUME NEW i \in DOMAIN orders, NEW price \in Prices[orders[i].symbol],
               ServerExecutes(i, price)
        PROVE  FormInv' /\ orders' \in Seq(GoodOrders)
    <2>1. /\ orders[i].symbol \in Symbols /\ orders[i].side \in Sides
          /\ orders[i].quantity \in Int
      BY <1>1 DEF Orders
    <2>2. price \in Nat /\ Lot[orders[i].symbol] \in Nat \ {0}
      BY <2>1 DEF OrderFormConstants
    <2>3. Executed(orders[i]) \in Int
      <3>1. 1 \in Nat \ {0}
        OBVIOUS
      <3>2. Lots(orders[i].quantity, 1, Lot[orders[i].symbol]) \in Int
        BY <2>1, <2>2, <3>1, LotsType
      <3>. QED  BY <3>2 DEF Executed
    <2>4. Traded(real, orders[i].symbol, orders[i].side, Executed(orders[i]), price) \in Balances
      BY <2>1, <2>2, <2>3, TradedType DEF FormInv
    <2>. QED  BY <1>2, <2>4, JudgeKeeps DEF ServerExecutes, Stages
  <1>3. ASSUME NEW i \in DOMAIN orders, NEW price \in Prices[orders[i].symbol],
               ServerFindsNoFunds(i, price)
        PROVE  FormInv' /\ orders' \in Seq(GoodOrders)
    BY <1>3, JudgeKeeps DEF ServerFindsNoFunds, Stages, FormInv
  <1>4. ASSUME NEW i \in DOMAIN orders, ServerRefuses(i)
        PROVE  FormInv' /\ orders' \in Seq(GoodOrders)
    BY <1>4, JudgeKeeps DEF ServerRefuses, Stages, FormInv
  <1>5. ASSUME NEW s \in Symbols, NEW side \in Sides, NEW price \in Prices[s],
               OtherTab(s, side, price)
        PROVE  FormInv' /\ orders' \in Seq(GoodOrders)
    <2>1. Lot[s] \in Int /\ price \in Nat
      BY DEF OrderFormConstants
    <2>2. real' \in Balances
      BY <1>5, <2>1, TradedType DEF OtherTab, FormInv
    <2>3. trades' \in 0..MaxTrades
      BY <1>5 DEF OtherTab, FormInv, OrderFormConstants
    <2>. QED  BY <1>5, <2>2, <2>3 DEF OtherTab, FormInv, cacheVars
  <1>. QED  BY <1>2, <1>3, <1>4, <1>5 DEF Server

LEMMA BrowserKeeps ==
    ASSUME OrderFormConstants, FormInv, orders \in Seq(GoodOrders), Browser
    PROVE  FormInv' /\ orders' \in Seq(GoodOrders)
  <1>1. CASE TickersLoad
    <2>1. UNION {Prices[s] : s \in Symbols} \subseteq Nat
      BY DEF OrderFormConstants
    <2>2. tickers' \in [Symbols -> Nat]
      BY <1>1, <2>1 DEF TickersLoad
    <2>. QED  BY <1>1, <2>2 DEF TickersLoad, FormInv
  <1>2. ASSUME NEW s \in Symbols, NEW price \in Prices[s], TickerMoves(s, price)
        PROVE  FormInv' /\ orders' \in Seq(GoodOrders)
    <2>1. price \in Nat
      BY DEF OrderFormConstants
    <2>2. tickers' \in [Symbols -> Nat]
      BY <1>2, <2>1 DEF TickerMoves, FormInv
    <2>. QED  BY <1>2, <2>2 DEF TickerMoves, FormInv
  <1>3. CASE PairsLoad
    BY <1>3 DEF PairsLoad, FormInv
  <1>4. CASE BalancesLoad
    BY <1>4 DEF BalancesLoad, FormInv
  <1>5. CASE Render
    <2>1. View(symbol, orders) \in Pages
      BY ViewType DEF FormInv
    <2>. QED  BY <1>5, <2>1 DEF Render, FormInv, cacheVars
  <1>6. \A i \in DOMAIN orders : orders[i] \in Orders
    BY DEF GoodOrders
  <1>7. ASSUME NEW i \in DOMAIN orders, Success(i)
        PROVE  FormInv' /\ orders' \in Seq(GoodOrders)
    <2>1. orders' \in Seq(GoodOrders)
      BY <1>7, WithoutType DEF Success
    <2>2. Emptied(orders[i]) \in Forms /\ Emptied(orders[i]).quantity = 0
      BY <1>6 DEF Emptied, Forms, Orders, Types
    <2>3. View(symbol, Without(i)) \in Pages
      BY ViewType DEF FormInv
    <2>4. /\ form' \in Forms /\ page' \in Pages
          /\ form'.quantity # 0 => entered' = symbol'
      BY <1>7, <2>2, <2>3 DEF Success, FormInv
    <2>. QED  BY <1>7, <2>1, <2>4 DEF Success, FormInv, cacheVars
  <1>8. ASSUME NEW i \in DOMAIN orders, Failure(i)
        PROVE  FormInv' /\ orders' \in Seq(GoodOrders)
    <2>1. orders' \in Seq(GoodOrders)
      BY <1>8, WithoutType DEF Failure
    <2>2. cached' \in Balances
      BY <1>6, <1>8 DEF Failure, Orders
    <2>. QED  BY <1>8, <2>1, <2>2 DEF Failure, FormInv
  <1>. QED  BY <1>1, <1>2, <1>3, <1>4, <1>5, <1>7, <1>8 DEF Browser

-----------------------------------------------------------------------------
\* The theorems

\* Whatever is typed, switched, answered and refetched in whatever order, a quantity is
\* only sent for the pair it was entered for, and within what its user was looking at.
THEOREM Invariance == Spec => []IInv
  <1>. USE OrderFormConstants
  <1>1. Init => IInv
    <2>. SUFFICES ASSUME Init PROVE IInv
      OBVIOUS
    <2>1. Nothing \in Balances
      BY DEF Nothing, Balances
    <2>2. real \in Balances
      BY DEF Init, Balances
    <2>3. form \in Forms /\ form.quantity = 0
      BY DEF Init, Forms, Sides, Types
    <2>4. page \in Pages
      BY <2>1 DEF Init, Pages
    <2>5. tickers \in [Symbols -> Nat] /\ trades \in 0..MaxTrades
      BY DEF Init
    <2>6. FormInv
      BY <2>1, <2>2, <2>3, <2>4, <2>5 DEF Init, FormInv
    <2>7. orders \in Seq(GoodOrders)
      BY DEF Init
    <2>. QED  BY <2>6, <2>7, Reformulated
  <1>2. IInv /\ [Next]_vars => IInv'
    <2>. SUFFICES ASSUME IInv, [Next]_vars PROVE IInv'
      OBVIOUS
    <2>1. FormInv /\ orders \in Seq(GoodOrders)
      BY Reformulated
    <2>2. FormInv' /\ orders' \in Seq(GoodOrders)
      <3>1. CASE Next
        BY <2>1, <3>1, UserKeeps, ServerKeeps, BrowserKeeps DEF Next
      <3>2. CASE UNCHANGED vars
        BY <2>1, <3>2 DEF vars, cacheVars, FormInv
      <3>. QED  BY <3>1, <3>2
    <2>. QED  BY <2>2, ReformulatedNext
  <1>. QED  BY <1>1, <1>2, PTL DEF Spec

LEMMA Hundredths ==
    ASSUME NEW q \in Nat, NEW p \in Nat
    PROVE  100 * (q * p) = q * (100 * p)
  OBVIOUS

LEMMA ShareExact ==
    ASSUME OrderFormConstants, FormInv, NEW percent \in Percents, Available >= 0,
           form.side = "SELL" \/ EffectivePrice > 0
    PROVE  /\ 100 * Spend(form.side, Share(percent), EffectivePrice) <= Available * percent
           /\ Available * percent < 100 * Spend(form.side, Share(percent) + page.lot, EffectivePrice)
  <1>. DEFINE n == Available * percent
              q == Share(percent)
              p == EffectivePrice
              lot == page.lot
              d == Divisor
  <1>1. n \in Nat
    <2>1. percent \in Nat
      BY DEF OrderFormConstants
    <2>. QED  BY <2>1, EnteredTypes
  <1>2. p \in Nat /\ lot \in Nat \ {0} /\ d \in Nat \ {0}
    BY EnteredTypes
  <1>3. q = Lots(n, d, lot)
    BY DEF Share
  <1>4. CASE form.side = "BUY"
    <2>1. d = 100 * p
      BY <1>4 DEF Divisor
    <2>2. /\ Spend(form.side, q, p) = q * p
          /\ Spend(form.side, q + lot, p) = (q + lot) * p
      BY <1>4 DEF Spend
    <2>. HIDE DEF n, q, p, lot, d
    <2>3. q \in Nat /\ q * d <= n /\ n < (q + lot) * d
      BY <1>1, <1>2, <1>3, LotsExact
    <2>4. 100 * (q * p) = q * d /\ 100 * ((q + lot) * p) = (q + lot) * d
      <3>1. q + lot \in Nat
        BY <1>2, <2>3
      <3>. QED  BY <1>2, <2>1, <2>3, <3>1, Hundredths
    <2>5. 100 * Spend(form.side, q, p) <= n /\ n < 100 * Spend(form.side, q + lot, p)
      BY <2>2, <2>3, <2>4
    <2>. QED  BY <2>5 DEF n, q, p, lot
  <1>5. CASE form.side # "BUY"
    <2>1. d = 100
      BY <1>5 DEF Divisor
    <2>2. Spend(form.side, q, p) = q /\ Spend(form.side, q + lot, p) = q + lot
      BY <1>5 DEF Spend
    <2>. HIDE DEF n, q, p, lot, d
    <2>3. q \in Nat /\ q * d <= n /\ n < (q + lot) * d
      BY <1>1, <1>2, <1>3, LotsExact
    <2>4. 100 * Spend(form.side, q, p) <= n /\ n < 100 * Spend(form.side, q + lot, p)
      BY <1>2, <2>1, <2>2, <2>3
    <2>. QED  BY <2>4 DEF n, q, p, lot
  <1>. QED  BY <1>4, <1>5

\* The slider and its stops fill in exactly the share asked for, at any price, lot and
\* balance: never more than the share, and less than one lot below it.
THEOREM PercentIsExact == Spec => PercentExact
  <1>. USE OrderFormConstants
  <1>1. IInv /\ [Next]_vars =>
            [\A percent \in Percents :
                ApplyPercent(percent) /\ Available >= 0
                    /\ (form.side = "SELL" \/ EffectivePrice > 0) =>
                    /\ 100 * Spend(form.side, form'.quantity, EffectivePrice)
                           <= Available * percent
                    /\ Available * percent <
                           100 * Spend(form.side, form'.quantity + page.lot, EffectivePrice)]_vars
    <2>. SUFFICES ASSUME IInv, NEW percent \in Percents, ApplyPercent(percent),
                         Available >= 0, form.side = "SELL" \/ EffectivePrice > 0
                  PROVE  /\ 100 * Spend(form.side, form'.quantity, EffectivePrice)
                                <= Available * percent
                         /\ Available * percent <
                                100 * Spend(form.side, form'.quantity + page.lot, EffectivePrice)
      OBVIOUS
    <2>1. FormInv
      BY Reformulated
    <2>2. form'.quantity = Share(percent)
      BY <2>1 DEF ApplyPercent, Enter, Change, FormInv, Forms
    <2>. QED  BY <2>1, <2>2, ShareExact
  <1>. QED  BY <1>1, Invariance, PTL DEF Spec, PercentExact

\* The server's own rounding never makes an order of this form unaffordable.
THEOREM NoFundsIsExplained == Spec => NoFundsExplained
  <1>. USE OrderFormConstants
  <1>1. IInv /\ [Next]_vars =>
            [\A i \in DOMAIN orders, price \in UNION {Prices[s] : s \in Symbols} :
                ServerFindsNoFunds(i, price) =>
                    price > orders[i].price \/ Free(orders[i]) < orders[i].available]_vars
    <2>. SUFFICES ASSUME IInv, NEW i \in DOMAIN orders,
                         NEW price \in UNION {Prices[s] : s \in Symbols},
                         ServerFindsNoFunds(i, price),
                         ~(price > orders[i].price), ~(Free(orders[i]) < orders[i].available)
                  PROVE  FALSE
      OBVIOUS
    <2>. DEFINE o == orders[i]
    <2>1. o \in GoodOrders
      BY Reformulated
    <2>2. /\ o.symbol \in Symbols /\ o.side \in Sides /\ o.quantity \in Nat
          /\ o.price \in Nat /\ o.available \in Int
          /\ Spend(o.side, o.quantity, o.price) <= o.available
      BY <2>1 DEF GoodOrders, Orders
    <2>3. price \in Nat /\ price <= o.price
      BY <2>2 DEF OrderFormConstants
    <2>4. Executed(o) \in Nat /\ Executed(o) <= o.quantity
      <3>1. Lot[o.symbol] \in Nat \ {0} /\ 1 \in Nat \ {0}
        BY <2>2 DEF OrderFormConstants
      <3>2. /\ Lots(o.quantity, 1, Lot[o.symbol]) \in Nat
            /\ Lots(o.quantity, 1, Lot[o.symbol]) * 1 <= o.quantity
        BY <2>2, <3>1, LotsExact
      <3>. QED  BY <2>2, <3>2 DEF Executed
    <2>5. Free(o) \in Int
      BY <2>2, Reformulated DEF Free, FormInv, Balances, Assets
    <2>6. Free(o) < Spent(o, price)
      BY DEF ServerFindsNoFunds
    <2>7. /\ Spent(o, price) \in Int /\ Spend(o.side, o.quantity, o.price) \in Int
          /\ Spent(o, price) <= Spend(o.side, o.quantity, o.price)
      <3>1. Executed(o) * price <= o.quantity * o.price
        BY <2>2, <2>3, <2>4, Monotonic
      <3>. QED  BY <2>2, <2>3, <2>4, <3>1 DEF Spent, Spend
    <2>8. Free(o) >= o.available
      BY <2>2, <2>5
    <2>. HIDE DEF o
    <2>. QED  BY <2>2, <2>5, <2>6, <2>7, <2>8
  <1>. QED  BY <1>1, Invariance, PTL DEF Spec, NoFundsExplained

=============================================================================
