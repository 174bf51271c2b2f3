------------------------------ MODULE OrderForm ------------------------------
(***************************************************************************)
(* The order form: what the user enters, what the form computes from the   *)
(* cached price and balances, the order it sends, the guess it shows while *)
(* the order is under way, and what the server makes of the order.         *)
(*                                                                         *)
(* Amounts are integers: of base asset in its smallest unit, prices and    *)
(* quote amounts such that quantity * price is a quote amount.  The base   *)
(* asset of a symbol is named by the symbol.  A field that holds no number *)
(* is 0, and so are a missing price and balances that are not loaded yet.  *)
(***************************************************************************)
EXTENDS Integers, Sequences

CONSTANTS
    Symbols, Quote,     \* the pairs and the asset they are priced in
    Lot,                \* 10^-quantityPrecision of each pair
    DefaultLot,         \* 10^-6, the form's until the pairs are loaded
    MinQuantity,        \* the pair's minimum
    Start,              \* STARTING_USDT
    Prices,             \* of each pair: what a ticker, a user or the server may say
    Quantities, Totals, \* what the user types
    Percents,           \* the slider and its stops
    MaxTrades           \* bound: orders, of this form and of another tab

ASSUME OrderFormConstants ==
    /\ Quote \notin Symbols
    /\ Lot \in [Symbols -> Nat \ {0}]
    /\ DefaultLot \in Nat \ {0}
    /\ MinQuantity \in [Symbols -> Nat]
    /\ Start \in Nat
    /\ Prices \in [Symbols -> SUBSET (Nat \ {0})]
    /\ Quantities \subseteq Nat
    /\ Totals \subseteq Nat
    /\ Percents \subseteq 0..100
    /\ MaxTrades \in Nat

VARIABLES
    symbol,     \* the market store's symbol
    form,       \* the values of the form
    entered,    \* history: the symbol the quantity was entered for
    tickers,    \* the cached last price of each pair, 0 without a ticker
    pairs,      \* the pairs are loaded
    cached,     \* the cached free balances
    page,       \* what the last render saw: handlers and the button use it
    orders,     \* orders under way, oldest first
    real,       \* the free balances on the server
    trades      \* orders sent so far

cacheVars == <<tickers, pairs, cached>>
vars == <<symbol, form, entered, cacheVars, page, orders, real, trades>>

Assets   == Symbols \cup {Quote}
Balances == [Assets -> Int]
Sides    == {"BUY", "SELL"}
Types    == {"MARKET", "LIMIT"}
Stages   == {"sent", "executed", "refused"}

Forms  == [side : Sides, type : Types, quantity : Int, price : Nat]
Pages  == [price : Nat, free : Balances, lot : Nat \ {0}, busy : BOOLEAN]
Orders == [symbol : Symbols, side : Sides, quantity : Int, entered : Symbols,
           price : Nat, available : Int, before : Balances,
           stage : Stages, followed : BOOLEAN]

TypeOK ==
    /\ symbol \in Symbols
    /\ form \in Forms
    /\ entered \in Symbols
    /\ tickers \in [Symbols -> Nat]
    /\ pairs \in BOOLEAN
    /\ cached \in Balances
    /\ page \in Pages
    /\ orders \in Seq(Orders)
    /\ real \in Balances
    /\ trades \in 0..MaxTrades

Nothing == [a \in Assets |-> 0]

Init ==
    /\ symbol \in Symbols
    /\ form = [side |-> "BUY", type |-> "MARKET", quantity |-> 0, price |-> 0]
    /\ entered = symbol
    /\ tickers = [s \in Symbols |-> 0]
    /\ pairs = FALSE
    /\ cached = Nothing
    /\ page = [price |-> 0, free |-> Nothing, lot |-> DefaultLot, busy |-> FALSE]
    /\ orders = <<>>
    /\ real = [a \in Assets |-> IF a = Quote THEN Start ELSE 0]
    /\ trades = 0

-----------------------------------------------------------------------------
\* Derived values

\* What a render shows.
View(s, os) ==
    [price |-> tickers[s],
     free  |-> cached,
     lot   |-> IF pairs THEN Lot[s] ELSE DefaultLot,
     busy  |-> \E i \in DOMAIN os : os[i].followed]

EffectivePrice == IF form.type = "MARKET" THEN page.price ELSE form.price

SpendAsset(side) == IF side = "BUY" THEN Quote ELSE symbol

\* Without a ticker the base asset is not known.
Available ==
    IF form.side = "SELL" /\ page.price = 0 THEN 0 ELSE page.free[SpendAsset(form.side)]

\* usedDecimal
Spend(side, quantity, price) == IF side = "BUY" THEN quantity * price ELSE quantity
Used    == Spend(form.side, form.quantity, EffectivePrice)
TooMuch == Used > Available

Disabled == page.busy \/ form.quantity <= 0 \/ TooMuch \/ page.price = 0 \/ form.type = "LIMIT"

\* Mutant: n / d in whole lots, to the nearest lot.
LotsNearest(n, d, lot) == ((2 * n + d * lot) \div (2 * d * lot)) * lot

\* n / d in whole lots, towards zero (ROUND_DOWN)
Lots(n, d, lot) ==
    (IF n >= 0 THEN n \div (d * lot) ELSE -((-n) \div (d * lot))) * lot

\* The divisor of a share: hundredths of the price when buying, of one when selling.
Divisor == 100 * (IF form.side = "BUY" /\ EffectivePrice > 0 THEN EffectivePrice ELSE 1)

\* The quantity a percentage of the balance comes to.
Share(percent) == Lots(Available * percent, Divisor, page.lot)

\* The guess, and the trade itself: what one side gives the other side gets.
Traded(b, s, side, quantity, price) ==
    LET sign == IF side = "BUY" THEN 1 ELSE -1
        gain == [a \in {Quote, s} |-> IF a = s THEN sign * quantity ELSE -(sign * quantity * price)]
    IN  [a \in Assets |-> IF a \in DOMAIN gain THEN b[a] + gain[a] ELSE b[a]]

-----------------------------------------------------------------------------
\* The caches and the renders

\* Tickers come over REST, then one message at a time.
TickersLoad ==
    /\ \A s \in Symbols : tickers[s] = 0
    /\ \E first \in [Symbols -> UNION {Prices[s] : s \in Symbols}] :
          /\ \A s \in Symbols : first[s] \in Prices[s]
          /\ tickers' = first
    /\ UNCHANGED <<symbol, form, entered, pairs, cached, page, orders, real, trades>>

TickerMoves(s, price) ==
    /\ tickers[s] # 0
    /\ tickers' = [tickers EXCEPT ![s] = price]
    /\ UNCHANGED <<symbol, form, entered, pairs, cached, page, orders, real, trades>>

PairsLoad ==
    /\ ~pairs
    /\ pairs' = TRUE
    /\ UNCHANGED <<symbol, form, entered, tickers, cached, page, orders, real, trades>>

BalancesLoad ==
    /\ cached' = real
    /\ UNCHANGED <<symbol, form, entered, tickers, pairs, page, orders, real, trades>>

Render ==
    /\ page' = View(symbol, orders)
    /\ UNCHANGED <<symbol, form, entered, cacheVars, orders, real, trades>>

-----------------------------------------------------------------------------
\* The user

\* A change of the form is rendered before the next event.
Change(new) ==
    /\ form' = new
    /\ page' = View(symbol, orders)
    /\ UNCHANGED <<symbol, cacheVars, orders, real, trades>>

SelectSide(side) == Change([form EXCEPT !.side = side]) /\ UNCHANGED entered
SelectType(type) == Change([form EXCEPT !.type = type]) /\ UNCHANGED entered

TypePrice(price) ==
    /\ form.type = "LIMIT"
    /\ Change([form EXCEPT !.price = price])
    /\ UNCHANGED entered

Enter(quantity) ==
    /\ Change([form EXCEPT !.quantity = quantity])
    /\ entered' = symbol

TypeQuantity(quantity) == Enter(quantity)

\* The slider and its stops; the label of the balance is applyPercent(100).
ApplyPercent(percent) == Enter(Share(percent))

HandleTotal(total) ==
    Enter(IF EffectivePrice > 0 THEN Lots(total, EffectivePrice, page.lot) ELSE 0)

\* Mutant: the quantity stays too.
Repriced(s) == [form EXCEPT !.price = tickers[s]]

\* The effect of a new symbol: side and type stay.
Cleared(s) ==
    [side |-> form.side, type |-> form.type, quantity |-> 0, price |-> tickers[s]]

SelectSymbol(s) ==
    /\ s # symbol
    /\ symbol' = s
    /\ form' = Cleared(s)
    /\ page' = View(s, orders)
    /\ UNCHANGED <<entered, cacheVars, orders, real, trades>>

\* One observer follows the latest order only.
Unfollowed(os) == [i \in DOMAIN os |-> [os[i] EXCEPT !.followed = FALSE]]

\* The button of the last render: a second click may come before the next.  Fetches of
\* the balances are cancelled and the guess, at the cached price, is shown at once.
Submit ==
    /\ ~Disabled
    /\ trades < MaxTrades
    /\ trades' = trades + 1
    /\ orders' = Append(Unfollowed(orders),
           [symbol |-> symbol, side |-> form.side, quantity |-> form.quantity,
            entered |-> entered, price |-> page.price, available |-> Available,
            before |-> cached, stage |-> "sent", followed |-> TRUE])
    /\ cached' = Traded(cached, symbol, form.side, form.quantity, tickers[symbol])
    /\ UNCHANGED <<symbol, form, entered, tickers, pairs, page, real>>

-----------------------------------------------------------------------------
\* The server

\* Mutant: rounded half up.
ExecutedNearest(o) == LotsNearest(o.quantity, 1, Lot[o.symbol])

Executed(o)     == Lots(o.quantity, 1, Lot[o.symbol])
Spent(o, price) == Spend(o.side, Executed(o), price)
Free(o)         == real[IF o.side = "BUY" THEN Quote ELSE o.symbol]

Acceptable(o) == Executed(o) > 0 /\ Executed(o) >= MinQuantity[o.symbol]

Judge(i, stage) ==
    /\ orders[i].stage = "sent"
    /\ orders' = [orders EXCEPT ![i].stage = stage]
    /\ UNCHANGED <<symbol, form, entered, cacheVars, page, trades>>

ServerExecutes(i, price) ==
    LET o == orders[i] IN
    /\ Acceptable(o)
    /\ Free(o) >= Spent(o, price)
    /\ Judge(i, "executed")
    /\ real' = Traded(real, o.symbol, o.side, Executed(o), price)

ServerFindsNoFunds(i, price) ==
    /\ Acceptable(orders[i])
    /\ Free(orders[i]) < Spent(orders[i], price)
    /\ Judge(i, "refused")
    /\ UNCHANGED real

\* Too small a quantity, no price, an aborted transaction, the throttler; lost requests.
ServerRefuses(i) == Judge(i, "refused") /\ UNCHANGED real

\* The account trades in another tab of the browser.
OtherTab(s, side, price) ==
    /\ trades < MaxTrades
    /\ trades' = trades + 1
    /\ real[IF side = "BUY" THEN Quote ELSE s] >= Spend(side, Lot[s], price)
    /\ real' = Traded(real, s, side, Lot[s], price)
    /\ UNCHANGED <<symbol, form, entered, cacheVars, page, orders>>

-----------------------------------------------------------------------------
\* The answer

Without(i) == [j \in 1..Len(orders) - 1 |-> IF j < i THEN orders[j] ELSE orders[j + 1]]

\* onSuccess of the call runs for the followed order only, in the closure of its submit.
Emptied(o) == [side |-> o.side, type |-> "MARKET", quantity |-> 0, price |-> o.price]

Success(i) ==
    /\ orders[i].stage = "executed"
    /\ orders' = Without(i)
    /\ IF orders[i].followed
       THEN /\ form' = Emptied(orders[i])
            /\ page' = View(symbol, Without(i))
       ELSE UNCHANGED <<form, page>>
    /\ UNCHANGED <<symbol, entered, cacheVars, real, trades>>

\* Refused, or executed and the answer lost: the snapshot is put back.
Failure(i) ==
    /\ orders[i].stage # "sent"
    /\ orders' = Without(i)
    /\ cached' = orders[i].before
    /\ UNCHANGED <<symbol, form, entered, tickers, pairs, page, real, trades>>

User ==
    \/ \E side \in Sides : SelectSide(side)
    \/ \E type \in Types : SelectType(type)
    \/ \E price \in Prices[symbol] : TypePrice(price)
    \/ \E quantity \in Quantities : TypeQuantity(quantity)
    \/ \E percent \in Percents : ApplyPercent(percent)
    \/ \E total \in Totals : HandleTotal(total)
    \/ \E s \in Symbols : SelectSymbol(s)
    \/ Submit

Server ==
    \/ \E i \in DOMAIN orders : \E price \in Prices[orders[i].symbol] :
          ServerExecutes(i, price) \/ ServerFindsNoFunds(i, price)
    \/ \E i \in DOMAIN orders : ServerRefuses(i)
    \/ \E s \in Symbols, side \in Sides : \E price \in Prices[s] : OtherTab(s, side, price)

Browser ==
    \/ TickersLoad
    \/ \E s \in Symbols : \E price \in Prices[s] : TickerMoves(s, price)
    \/ PairsLoad \/ BalancesLoad \/ Render
    \/ \E i \in DOMAIN orders : Success(i) \/ Failure(i)

Next == User \/ Server \/ Browser

Spec == Init /\ [][Next]_vars

-----------------------------------------------------------------------------
\* Properties

\* A quantity entered for one pair is never sent, or left in the form, for another,
\* whatever answers, switches and changes of side come in between (order-form.tsx, the
\* reset effect and onSuccess).
EnteredForIt ==
    /\ form.quantity # 0 => entered = symbol
    /\ \A i \in DOMAIN orders : orders[i].entered = orders[i].symbol

\* Every order under way fitted the price and the balance its user was looking at.
SentWithinSight ==
    \A i \in DOMAIN orders :
        LET o == orders[i] IN
        /\ o.quantity > 0
        /\ Spend(o.side, o.quantity, o.price) <= o.available

IInv == TypeOK /\ EnteredForIt /\ SentWithinSight

\* A percentage of a balance is filled in exactly: it never asks for more than that share
\* of what is shown, and one lot more would be too much (applyPercent, toFixedDown).
PercentExact ==
    [][\A percent \in Percents :
          ApplyPercent(percent) /\ Available >= 0 /\ (form.side = "SELL" \/ EffectivePrice > 0) =>
              /\ 100 * Spend(form.side, form'.quantity, EffectivePrice) <= Available * percent
              /\ Available * percent <
                     100 * Spend(form.side, form'.quantity + page.lot, EffectivePrice)]_vars

\* The server turns an order away for want of funds only if the price rose, or the
\* balance shrank, against what the form had checked: its own rounding and the server's
\* never make the difference (order-form.tsx tooMuch, orders.service.ts debit).
NoFundsExplained ==
    [][\A i \in DOMAIN orders, price \in UNION {Prices[s] : s \in Symbols} :
          ServerFindsNoFunds(i, price) =>
              price > orders[i].price \/ Free(orders[i]) < orders[i].available]_vars

=============================================================================
