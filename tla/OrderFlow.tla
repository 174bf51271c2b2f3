------------------------------ MODULE OrderFlow ------------------------------
(***************************************************************************)
(* The REST side of the exchange: one browser with one cookie jar, several *)
(* requests in flight at once, AnonymousUserMiddleware, OrdersController / *)
(* OrdersService.placeMarketOrder, AccountsController / AccountsService    *)
(* .reset, and the PostgreSQL database they share.                         *)
(*                                                                         *)
(* Every await of the code is a place where another request may run, so    *)
(* each request is a process with a program counter and each SQL statement *)
(* of a transaction is a step of its own.  A transaction's writes stay     *)
(* invisible until it commits; its row locks do not.  An order runs        *)
(* SERIALIZABLE: it reads the snapshot taken at its first statement and is *)
(* aborted when a row it wants to write has changed since.  A reset runs   *)
(* with Prisma's default, READ COMMITTED: it waits for a locked row and    *)
(* then goes on.  Whatever else makes a transaction fail (a read/write     *)
(* conflict found by SSI, Prisma's transaction timeout, a lost             *)
(* connection) is Abort, which may strike at any statement.                *)
(***************************************************************************)
EXTENDS Integers, FiniteSets, FiniteSetsExt, Functions

CONSTANTS
    Requests,       \* HTTP requests; the bound of the model: each is sent once
    Kinds,          \* the kinds of request the browser sends
    Pairs,          \* trading pairs, each named by its base asset
    ActivePairs,    \* those with isActive = true
    Quote,          \* "USDT"
    Quantities,     \* quantities a client may ask for
    LotStep,        \* 10^-quantityPrecision, in the model's units
    MinQuantity,    \* minQuantity of every pair
    Prices,         \* prices Binance may answer
    Start,          \* STARTING_USDT
    NoUser          \* "no cookie"

ASSUME OrderFlowConstants ==
    /\ Kinds \subseteq {"view", "reset", "market", "limit"}
    /\ Quote \notin Pairs
    /\ ActivePairs \subseteq Pairs
    /\ Quantities \subseteq Nat
    /\ LotStep \in Nat \ {0}
    /\ MinQuantity \in Nat \ {0}
    /\ Prices \subseteq Nat \ {0}
    /\ Start \in Nat
    /\ NoUser \notin Requests \X {"visit", "reset"}
    /\ {"user", "account", "account_key"} \cap (Pairs \cup {Quote}) = {}

Assets == Pairs \cup {Quote}

\* A user id is a fresh UUID, so it is named by the transaction that created it:
\* the middleware on behalf of a request, or the reset a request asked for.
Users == Requests \X {"visit", "reset"}

Sides == {"BUY", "SELL"}
NoOrder == [kind |-> "none"]
Bodies == [kind : Kinds \ {"market"}]
          \cup [kind : Kinds \cap {"market"}, side : Sides, pair : Pairs,
                quantity : Quantities]

Zero  == [a \in Assets |-> 0]
Grant == [Zero EXCEPT ![Quote] = Start]

VARIABLES
    \* the browser
    jar,        \* the account_id cookie, shared by all tabs
    \* committed database state
    live,       \* users that exist, each with its SPOT account
    rows,       \* rows[u]: assets for which account u has a Balance row
    free,       \* free[u][a]: Balance.free, 0 where there is no row
    orders,     \* Order rows
    trades,     \* Trade rows
    \* each request
    pc,         \* where it stands
    body,       \* what it asks for
    user,       \* first the cookie it carries, then req.user
    setCookie,  \* the Set-Cookie its response will carry, or NoUser
    price,      \* the price its order was given
    snap,       \* its transaction's snapshot of the account's balances
    missed,     \* rows of the account other transactions changed since
    locks,      \* row locks its transaction holds, on rows of user[r]
    reply       \* HTTP status

browserVars == <<jar>>
dbVars      == <<live, rows, free, orders, trades>>
txVars      == <<snap, missed, locks>>
vars == <<jar, live, rows, free, orders, trades,
          pc, body, user, setCookie, price, snap, missed, locks, reply>>

OrderTx == {"debit", "credit", "insertOrder", "insertTrade", "commitOrder"}
ResetTx == {"deleteUser", "deleteAccount", "deleteBalances"}
InFlight == {"lookup", "register", "handle", "pricing", "begin"} \cup OrderTx \cup ResetTx

Statuses == {"200", "201", "204", "400", "429", "500", "501", "503"}

RowLocks == {"user", "account", "account_key"} \cup Assets

TypeOK ==
    /\ jar \in Users \cup {NoUser}
    /\ live \subseteq Users
    /\ rows \in [Users -> SUBSET Assets]
    /\ free \in [Users -> [Assets -> Int]]
    /\ orders \subseteq [id : Requests, account : Users, side : Sides, pair : Pairs,
                         quantity : Nat, status : {"FILLED"}]
    /\ trades \subseteq [order : Requests, account : Users, side : Sides, pair : Pairs,
                         quantity : Nat, quote : Nat]
    /\ pc \in [Requests -> {"idle", "replied", "done", "lost"} \cup InFlight]
    /\ body \in [Requests -> Bodies \cup {NoOrder}]
    /\ user \in [Requests -> Users \cup {NoUser}]
    /\ setCookie \in [Requests -> Users \cup {NoUser}]
    /\ price \in [Requests -> Prices \cup {0}]
    /\ snap \in [Requests -> [Assets -> Int]]
    /\ missed \in [Requests -> SUBSET Assets]
    /\ locks \in [Requests -> SUBSET RowLocks]
    /\ reply \in [Requests -> {"none"} \cup Statuses]

Init ==
    /\ jar = NoUser
    /\ live = {}
    /\ rows = [u \in Users |-> {}]
    /\ free = [u \in Users |-> Zero]
    /\ orders = {}
    /\ trades = {}
    /\ pc = [r \in Requests |-> "idle"]
    /\ body = [r \in Requests |-> NoOrder]
    /\ user = [r \in Requests |-> NoUser]
    /\ setCookie = [r \in Requests |-> NoUser]
    /\ price = [r \in Requests |-> 0]
    /\ snap = [r \in Requests |-> Zero]
    /\ missed = [r \in Requests |-> {}]
    /\ locks = [r \in Requests |-> {}]
    /\ reply = [r \in Requests |-> "none"]

-----------------------------------------------------------------------------
\* The browser

\* A tab sends a request with whatever the jar holds at that moment.
Send(r) ==
    /\ pc[r] = "idle"
    /\ \E b \in Bodies : body' = [body EXCEPT ![r] = b]
    /\ user' = [user EXCEPT ![r] = jar]
    /\ pc' = [pc EXCEPT ![r] = "lookup"]
    /\ UNCHANGED <<browserVars, dbVars, txVars, setCookie, price, reply>>

\* The response arrives; responses of parallel requests arrive in any order.
Deliver(r) ==
    /\ pc[r] = "replied"
    /\ jar' = IF setCookie[r] = NoUser THEN jar ELSE setCookie[r]
    /\ pc' = [pc EXCEPT ![r] = "done"]
    /\ UNCHANGED <<dbVars, txVars, body, user, setCookie, price, reply>>

\* The tab is closed or the network drops the response.
Lose(r) ==
    /\ pc[r] = "replied"
    /\ pc' = [pc EXCEPT ![r] = "lost"]
    /\ UNCHANGED <<browserVars, dbVars, txVars, body, user, setCookie, price, reply>>

-----------------------------------------------------------------------------
\* AnonymousUserMiddleware.use

Lookup(r) ==
    /\ pc[r] = "lookup"
    /\ pc' = [pc EXCEPT ![r] = IF user[r] \in live THEN "handle" ELSE "register"]
    /\ UNCHANGED <<browserVars, dbVars, txVars, body, user, setCookie, price, reply>>

\* res.cookie(account_id, ...); the mutant issues one only to a browser without any.
IssueCookieOnce(r, id) == setCookie' = [setCookie EXCEPT ![r] = IF user[r] = NoUser THEN id ELSE @]
IssueCookie(r, id) == setCookie' = [setCookie EXCEPT ![r] = id]

\* createAnonymousUser: all its rows are new, so nothing can block it and it is
\* visible only when it commits.
Register(r) ==
    LET new == <<r, "visit">> IN
    /\ pc[r] = "register"
    /\ live' = live \cup {new}
    /\ rows' = [rows EXCEPT ![new] = {Quote}]
    /\ free' = [free EXCEPT ![new] = Grant]
    /\ user' = [user EXCEPT ![r] = new]
    /\ IssueCookie(r, new)
    /\ pc' = [pc EXCEPT ![r] = "handle"]
    /\ UNCHANGED <<browserVars, orders, trades, txVars, body, price, reply>>

-----------------------------------------------------------------------------
\* Ending a request.  A failed transaction rolls back and gives up its locks.

\* Mutant: the failed transaction is never rolled back.
AnswerKeepsLocks(r, status) ==
    /\ reply' = [reply EXCEPT ![r] = status]
    /\ pc' = [pc EXCEPT ![r] = "replied"]
    /\ missed' = [missed EXCEPT ![r] = {}]
    /\ snap' = [snap EXCEPT ![r] = Zero]
    /\ UNCHANGED locks

Answer(r, status) ==
    /\ reply' = [reply EXCEPT ![r] = status]
    /\ pc' = [pc EXCEPT ![r] = "replied"]
    /\ locks' = [locks EXCEPT ![r] = {}]
    /\ missed' = [missed EXCEPT ![r] = {}]
    /\ snap' = [snap EXCEPT ![r] = Zero]

Fail(r, status) ==
    /\ Answer(r, status)
    /\ UNCHANGED <<browserVars, dbVars, body, user, setCookie, price>>

\* ThrottlerGuard refuses the request, or the database fails outside the
\* transactions modelled below (pair lookup, list queries).
Refuse(r) ==
    /\ pc[r] = "handle"
    /\ \E status \in {"429", "500"} : Fail(r, status)

\* The middleware's own transaction or lookup fails: no user, no cookie.
MiddlewareFails(r) ==
    /\ pc[r] \in {"lookup", "register"}
    /\ Fail(r, "500")

\* The list endpoints (balances, orders, trades) only read.
View(r) ==
    /\ pc[r] = "handle"
    /\ body[r].kind = "view"
    /\ Fail(r, "200")

-----------------------------------------------------------------------------
\* Row locks.  A foreign-key check takes a shared key lock on the account row,
\* which only conflicts with deleting that row.

Conflict(held, wanted) ==
    \/ held = wanted /\ held # "account_key"
    \/ {held, wanted} = {"account", "account_key"}

Blockers(r, wanted) ==
    {o \in Requests \ {r} :
        user[o] = user[r] /\ \E held \in locks[o] : Conflict(held, wanted)}

Grantable(r, wanted) == \A l \in wanted : Blockers(r, l) = {}

\* Mutant: a transaction does not notice what others committed after its snapshot.
MissingNothing(u, changed, r) == [o \in Requests |-> IF o = r THEN {} ELSE missed[o]]

\* Every open order transaction on account u with a snapshot misses changed rows.
Missing(u, changed, r) ==
    [o \in Requests |-> IF o # r /\ pc[o] \in OrderTx /\ user[o] = u
                        THEN missed[o] \cup changed
                        ELSE IF o = r THEN {} ELSE missed[o]]

-----------------------------------------------------------------------------
\* OrdersController.create and OrdersService.placeMarketOrder

Market(r) == body[r].kind = "market"

\* requestedQuantity.toDecimalPlaces(quantityPrecision, ROUND_DOWN)
RoundUp(q)   == q + LotStep - (q % LotStep)     \* mutant
RoundDown(q) == q - (q % LotStep)
Executed(b)  == RoundDown(b.quantity)

\* quantity.mul(price); an order spends one asset of its pair and receives the other.
\* Two mutants: the quote amount of the quantity before rounding, a purchase credited
\* with the quantity before rounding.
QuoteAmountGross(b, p)   == b.quantity * p
ReceiveAmountGross(b, p) == IF b.side = "BUY" THEN b.quantity ELSE Executed(b) * p

QuoteAmount(b, p)   == Executed(b) * p
SpendAsset(b)       == IF b.side = "BUY" THEN Quote ELSE b.pair
ReceiveAsset(b)     == IF b.side = "BUY" THEN b.pair ELSE Quote
SpendAmount(b, p)   == IF b.side = "BUY" THEN QuoteAmount(b, p) ELSE Executed(b)
ReceiveAmount(b, p) == IF b.side = "BUY" THEN Executed(b) ELSE QuoteAmount(b, p)

Spend(r)   == SpendAsset(body[r])
Receive(r) == ReceiveAsset(body[r])

Acceptable(b) == b.pair \in ActivePairs /\ Executed(b) >= MinQuantity

LimitOrder(r) ==
    /\ pc[r] = "handle"
    /\ body[r].kind = "limit"
    /\ Fail(r, "501")

RejectOrder(r) ==
    /\ pc[r] = "handle" /\ Market(r)
    /\ ~Acceptable(body[r])
    /\ Fail(r, "400")

AcceptOrder(r) ==
    /\ pc[r] = "handle" /\ Market(r)
    /\ Acceptable(body[r])
    /\ pc' = [pc EXCEPT ![r] = "pricing"]
    /\ UNCHANGED <<browserVars, dbVars, txVars, body, user, setCookie, price, reply>>

\* BinancePriceService answers with some price, or fails.
PriceArrives(r) ==
    /\ pc[r] = "pricing"
    /\ \E p \in Prices : price' = [price EXCEPT ![r] = p]
    /\ pc' = [pc EXCEPT ![r] = "begin"]
    /\ UNCHANGED <<browserVars, dbVars, txVars, body, user, setCookie, reply>>

PriceUnavailable(r) ==
    /\ pc[r] = "pricing"
    /\ Fail(r, "503")

\* The first statement takes the transaction's snapshot ...
Begin(r) ==
    /\ pc[r] = "begin"
    /\ snap' = [snap EXCEPT ![r] = free[user[r]]]
    /\ pc' = [pc EXCEPT ![r] = "debit"]
    /\ UNCHANGED <<browserVars, dbVars, body, user, setCookie, price, missed, locks, reply>>

Unchecked(r) == TRUE    \* mutant: the debit without free >= spend
Covered(r) == snap[r][Spend(r)] >= SpendAmount(body[r], price[r])

\* ... under which no row may match: debit.count = 0, the transaction rolls back.
DebitFindsNothing(r) ==
    /\ pc[r] = "debit"
    /\ ~Covered(r)
    /\ Fail(r, "400")

\* A matching row somebody changed since: first updater wins.
DebitConflicts(r) ==
    /\ pc[r] = "debit"
    /\ Covered(r) /\ Spend(r) \in missed[r]
    /\ Fail(r, "500")

LockAndGo(r, wanted, next) ==
    /\ Grantable(r, wanted)
    /\ locks' = [locks EXCEPT ![r] = @ \cup wanted]
    /\ pc' = [pc EXCEPT ![r] = next]
    /\ UNCHANGED <<browserVars, dbVars, body, user, setCookie, price, snap, missed, reply>>

Debit(r) ==
    /\ pc[r] = "debit"
    /\ Covered(r) /\ Spend(r) \notin missed[r]
    /\ LockAndGo(r, {Spend(r)}, "credit")

\* balance.upsert: an existing row is updated; a new one is inserted, which also
\* checks its foreign key to the account.
CreditConflicts(r) ==
    /\ pc[r] = "credit"
    /\ Receive(r) \in missed[r]
    /\ Fail(r, "500")

CreditLocks(r) == {Receive(r)} \cup
                  (IF Receive(r) \in rows[user[r]] THEN {} ELSE {"account_key"})

Credit(r) ==
    /\ pc[r] = "credit"
    /\ Receive(r) \notin missed[r]
    /\ LockAndGo(r, CreditLocks(r), "insertOrder")

\* order.create and trade.create check their foreign key to the account.
InsertOrder(r) ==
    /\ pc[r] = "insertOrder"
    /\ LockAndGo(r, {"account_key"}, "insertTrade")

InsertTrade(r) ==
    /\ pc[r] = "insertTrade"
    /\ LockAndGo(r, {"account_key"}, "commitOrder")

NewOrder(r) ==
    [id |-> r, account |-> user[r], side |-> body[r].side, pair |-> body[r].pair,
     quantity |-> Executed(body[r]), status |-> "FILLED"]

NewTrade(r) ==
    [order |-> r, account |-> user[r], side |-> body[r].side, pair |-> body[r].pair,
     quantity |-> Executed(body[r]), quote |-> QuoteAmount(body[r], price[r])]

\* Everything the transaction wrote becomes visible at once.
CommitOrder(r) ==
    LET u == user[r]
        b == body[r]
    IN
    /\ pc[r] = "commitOrder"
    /\ free' = [free EXCEPT ![u][Spend(r)]   = @ - SpendAmount(b, price[r]),
                            ![u][Receive(r)] = @ + ReceiveAmount(b, price[r])]
    /\ rows' = [rows EXCEPT ![u] = @ \cup {Receive(r)}]
    /\ orders' = orders \cup {NewOrder(r)}
    /\ trades' = trades \cup {NewTrade(r)}
    /\ missed' = Missing(u, {Spend(r), Receive(r)}, r)
    /\ locks' = [locks EXCEPT ![r] = {}]
    /\ snap' = [snap EXCEPT ![r] = Zero]
    /\ reply' = [reply EXCEPT ![r] = "201"]
    /\ pc' = [pc EXCEPT ![r] = "replied"]
    /\ UNCHANGED <<browserVars, live, body, user, setCookie, price>>

-----------------------------------------------------------------------------
\* AccountsController.reset and AccountsService.reset

StartReset(r) ==
    /\ pc[r] = "handle"
    /\ body[r].kind = "reset"
    /\ pc' = [pc EXCEPT ![r] = "deleteUser"]
    /\ UNCHANGED <<browserVars, dbVars, txVars, body, user, setCookie, price, reply>>

\* deleteMany: no row is no error.
NothingToDelete(r) ==
    /\ pc[r] = "deleteUser"
    /\ user[r] \notin live
    /\ pc' = [pc EXCEPT ![r] = "deleteBalances"]
    /\ UNCHANGED <<browserVars, dbVars, txVars, body, user, setCookie, price, reply>>

DeleteUser(r) ==
    /\ pc[r] = "deleteUser"
    /\ user[r] \in live
    /\ LockAndGo(r, {"user"}, "deleteAccount")

\* onDelete: Cascade reaches the account row, then the rows that refer to it.
DeleteAccount(r) ==
    /\ pc[r] = "deleteAccount"
    /\ LockAndGo(r, {"account"}, "deleteBalances")

DeleteBalance(r) ==
    /\ pc[r] = "deleteBalances"
    /\ \E a \in rows[user[r]] \ locks[r] : LockAndGo(r, {a}, "deleteBalances")

\* onDelete: Cascade on orders and trades; the mutant leaves them behind.
Orphaned(set, u)  == set
Surviving(set, u) == {x \in set : x.account # u}

\* The new user, account and grant are inserted and the transaction commits.
CommitReset(r) ==
    LET u == user[r]
        new == <<r, "reset">>
    IN
    /\ pc[r] = "deleteBalances"
    /\ rows[u] \subseteq locks[r]
    /\ live' = (live \ {u}) \cup {new}
    /\ rows' = [rows EXCEPT ![u] = {}, ![new] = {Quote}]
    /\ free' = [free EXCEPT ![u] = Zero, ![new] = Grant]
    /\ orders' = Surviving(orders, u)
    /\ trades' = Surviving(trades, u)
    /\ missed' = Missing(u, Assets, r)
    /\ locks' = [locks EXCEPT ![r] = {}]
    /\ IssueCookie(r, new)
    /\ reply' = [reply EXCEPT ![r] = "204"]
    /\ pc' = [pc EXCEPT ![r] = "replied"]
    /\ UNCHANGED <<browserVars, body, user, price, snap>>

-----------------------------------------------------------------------------
\* Failing transactions

\* A serialization failure, a timeout of the interactive transaction, a lost
\* connection: any statement, or opening the transaction, may fail.
Abort(r) ==
    /\ pc[r] \in {"begin"} \cup OrderTx \cup ResetTx
    /\ Fail(r, "500")

\* The locks the pending statement of r asks for.
Wanted(r) ==
    CASE pc[r] = "debit" /\ Covered(r)  -> {Spend(r)} \ missed[r]
      [] pc[r] = "credit"               -> CreditLocks(r)
      [] pc[r] = "insertOrder"          -> {"account_key"}
      [] pc[r] = "deleteUser" /\ user[r] \in live -> {"user"}
      [] pc[r] = "deleteAccount"        -> {"account"}
      [] pc[r] = "deleteBalances"       -> rows[user[r]] \ locks[r]
      [] OTHER                          -> {}

WaitsFor(r) == UNION {Blockers(r, l) : l \in Wanted(r)}

\* PostgreSQL picks some member of a cycle of waiting transactions.
DeadlockVictim(r) ==
    /\ \E cycle \in SUBSET Requests :
          /\ r \in cycle
          /\ \E waits \in Bijection(cycle, cycle) :
                \A x \in cycle : waits[x] \in WaitsFor(x)
    /\ Fail(r, "500")

-----------------------------------------------------------------------------
OrderStep(r) ==
    \/ LimitOrder(r) \/ RejectOrder(r) \/ AcceptOrder(r)
    \/ PriceArrives(r) \/ PriceUnavailable(r)
    \/ Begin(r) \/ DebitFindsNothing(r) \/ DebitConflicts(r) \/ Debit(r)
    \/ CreditConflicts(r) \/ Credit(r) \/ InsertOrder(r) \/ InsertTrade(r)
    \/ CommitOrder(r)

ResetStep(r) ==
    \/ StartReset(r) \/ NothingToDelete(r) \/ DeleteUser(r)
    \/ DeleteAccount(r) \/ DeleteBalance(r) \/ CommitReset(r)

\* What the server does unless something goes wrong.
Serve(r) ==
    \/ Lookup(r) \/ Register(r) \/ View(r)
    \/ OrderStep(r) \/ ResetStep(r)
    \/ DeadlockVictim(r)

Next ==
    \E r \in Requests :
        \/ Send(r) \/ Deliver(r) \/ Lose(r)
        \/ Serve(r)
        \/ Refuse(r) \/ MiddlewareFails(r) \/ Abort(r)

Spec == Init /\ [][Next]_vars

\* Node runs every continuation that is ready, the price request ends (in a price
\* or in an error), PostgreSQL grants a lock that is free and breaks a deadlock.
Fairness == \A r \in Requests : WF_vars(Serve(r))

FairSpec == Spec /\ Fairness

-----------------------------------------------------------------------------
\* Properties

\* No interleaving of orders overdraws a balance: the conditional debit
\* (free >= spend) decides on a snapshot, the balance it decrements is current.
Solvent == \A u \in Users, a \in Assets : free[u][a] >= 0

\* The inductive strengthening of Solvent, in parts.
Pricing == {"pricing", "begin"} \cup OrderTx
Debited(r) == pc[r] \in OrderTx \ {"debit"}

\* A request past the middleware has a user, an order past validation is one.
Prepared ==
    \A r \in Requests :
        /\ pc[r] \in {"handle"} \cup Pricing \cup ResetTx => user[r] \in Users
        /\ pc[r] \in Pricing => Market(r) /\ body[r] \in Bodies /\ Acceptable(body[r])
        /\ pc[r] \in {"begin"} \cup OrderTx => price[r] \in Prices

\* A UUID is known to nobody before the transaction that creates it.
Unborn == {<<r, "visit">> : r \in {x \in Requests : pc[x] \in {"idle", "lookup", "register"}}}
          \cup {<<r, "reset">> : r \in {x \in Requests : pc[x] \notin {"replied", "done", "lost"}}}

BornBeforeKnown ==
    /\ jar \notin Unborn
    /\ \A r \in Requests : user[r] \notin Unborn /\ setCookie[r] \notin Unborn
    /\ \A u \in Unborn : u \notin live /\ rows[u] = {}

\* Money lies in rows, and rows lie in accounts that exist.
RowsHoldMoney ==
    \A u \in Users :
        /\ u \notin live => rows[u] = {}
        /\ \A a \in Assets : a \notin rows[u] => free[u][a] = 0

\* What a transaction has not missed it sees as it is now.
SnapshotFresh ==
    \A r \in Requests : pc[r] \in OrderTx =>
        \A a \in Assets \ missed[r] : snap[r][a] = free[user[r]][a]

\* Only transactions hold locks, and a balance row is locked by one at a time.
RowsExclusive ==
    /\ \A r \in Requests : pc[r] \notin OrderTx \cup ResetTx => locks[r] = {}
    /\ \A r, o \in Requests : \A a \in Assets :
          r # o /\ user[r] = user[o] => ~(a \in locks[r] /\ a \in locks[o])

\* A transaction that has debited still holds the row, which still covers the
\* amount; one that has credited holds that row too.
DebitCovered(r) ==
    /\ Debited(r) =>
          /\ Spend(r) \in locks[r]
          /\ Spend(r) \in rows[user[r]]
          /\ free[user[r]][Spend(r)] >= SpendAmount(body[r], price[r])
    /\ Debited(r) /\ pc[r] # "credit" => Receive(r) \in locks[r]

DebitsCovered == \A r \in Requests : DebitCovered(r)

IInv ==
    /\ TypeOK
    /\ Solvent
    /\ Prepared
    /\ BornBeforeKnown
    /\ RowsHoldMoney
    /\ SnapshotFresh
    /\ RowsExclusive
    /\ DebitsCovered

\* Money is neither created nor lost: the balances of an account that exists are
\* its grant plus what its trades moved, whatever failed, raced or was reset.
Effect(a, t) ==
    CASE a = Quote /\ t.side = "BUY"   -> - t.quote
      [] a = Quote /\ t.side = "SELL"  -> t.quote
      [] a = t.pair /\ t.side = "BUY"  -> t.quantity
      [] a = t.pair /\ t.side = "SELL" -> - t.quantity
      [] OTHER -> 0

TradesOf(u) == {t \in trades : t.account = u}

Moved(a, set) == MapThenSumSet(LAMBDA t : Effect(a, t), set)

BalancesMatchTrades ==
    \A u \in live, a \in Assets : free[u][a] = Grant[a] + Moved(a, TradesOf(u))

\* All or nothing: an order answered 201 exists with its one trade unless its
\* account has been reset since, an order answered otherwise left nothing behind,
\* and no row outlives its account (Moved counts only what this allows).
Ordered(r) == {o \in orders : o.id = r}
Traded(r)  == {t \in trades : t.order = r}

AllOrNothing ==
    \A r \in Requests :
        /\ reply[r] = "201" /\ user[r] \in live => Cardinality(Ordered(r)) = 1
        /\ reply[r] # "201" => Ordered(r) = {}
        /\ Cardinality(Traded(r)) = Cardinality(Ordered(r))
        /\ \A o \in Ordered(r), t \in Traded(r) :
              /\ o.account = t.account /\ o.account \in live
              /\ o.side = t.side /\ o.pair = t.pair /\ o.quantity = t.quantity

\* The executed quantity is what the client asked for rounded down to the lot,
\* never more than asked and never below the pair's minimum, on an active pair.
ExecutedWithinBounds ==
    \A o \in orders :
        /\ o.pair \in ActivePairs
        /\ o.quantity % LotStep = 0
        /\ MinQuantity <= o.quantity /\ o.quantity <= body[o.id].quantity

\* The browser does not lose its account by itself: while no response has been
\* lost, the cookie names an existing user or one being reset right now, whose
\* successor is on its way.
SessionKept ==
    (\A r \in Requests : pc[r] # "lost") /\ jar # NoUser =>
        \/ jar \in live
        \/ \E r \in Requests : /\ pc[r] = "replied" /\ user[r] = jar
                               /\ setCookie[r] \in live

\* Orders and resets, interleaved statement by statement, look like the atomic
\* steps of Ledger.
LedgerSpec == INSTANCE Ledger WITH
    Accounts <- Users, OrderIds <- Requests, Amounts <- {RoundDown(q) : q \in Quantities}

ImplementsLedger == LedgerSpec!Spec

\* Every request is answered: no lost lock, no undetected deadlock between a BUY
\* and a SELL (which lock the two balances in opposite order) or between an order
\* and a reset, no branch that forgets to answer.
EveryRequestAnswered ==
    \A r \in Requests : pc[r] = "lookup" ~> reply[r] # "none"
=============================================================================
