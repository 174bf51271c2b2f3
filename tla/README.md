# A verification of exchange_demo

`exchange_demo` is a paper-trading exchange: a NestJS API over PostgreSQL that
gives every visitor an anonymous account with USDT and executes market orders at
Binance's current price, a WebSocket gateway that fans Binance's live streams out
to browsers, and a Next.js client.  This directory holds TLA+ modules translated
from that code, TLC configurations that check them on small instances, and TLAPS
proofs of the theorems that matter most.  Paths below are relative to `src/`.

## 1. Inventory

### API: the REST side

| Component | State it keeps | Operations | What makes it correct |
|---|---|---|---|
| `auth/anonymous-user.middleware.ts`, `auth/cookie.ts` | the `account_id` cookie; `User`, `Account`, `Balance` rows | look up the cookie's user, or create user + account + grant in one transaction and set the cookie | a browser does not lose its account by itself; a grant is given once per account |
| `orders/orders.service.ts`, `orders.controller.ts` | `Balance`, `Order`, `Trade` rows | `placeMarketOrder` (validate, price, one SERIALIZABLE transaction: debit, credit, order, trade), LIMIT refused, list | no overdraft, all or nothing, conservation of money, rounding within bounds |
| `accounts/accounts.service.ts`, `accounts.controller.ts` | the same rows; the cookie | `reset`: delete the user (cascade), create a new one, set the cookie | an account and its history go together; the successor reaches the browser |
| `balances/`, `trades/`, `trading-pairs/`, `klines/`, `health/` | none of their own | reads; the balances are valued, and the tickers listed, through the price service | a valuation gets through all its prices, whatever fails |
| `binance/binance-price.service.ts` | caches with a TTL: price 1 s, ticker and all tickers 5 s; candles are not cached | `getCurrentPrice`, `getTicker24h`, `getKlines`, `getAllTickers24h` | a price is no older than its TTL and one slow request; every call ends |
| `common/filters/all-exceptions.filter.ts` | - | turns exceptions into statuses | every failure is answered |

Requests run concurrently: every `await` is a place where another request may run,
every SQL statement may wait for a row lock of another transaction, fail with a
serialization conflict, be chosen as a deadlock victim or lose its connection.

### API: the live side

| Component | State | Operations | What makes it correct |
|---|---|---|---|
| `binance/binance-stream.service.ts` | callbacks per stream, one socket, reconnect timer, attempt counter, rate-limit flag, last status told | `subscribe`, `unsubscribe`, `onStatusChange`, socket events, reconnect, shutdown | what Binance sends is what is demanded; exactly one reconnect chain; the status told is true; it never gives up |
| `exchange/exchange.gateway.ts`, `exchange/channels.ts` | client sockets, their channels with one callback each, connections per address, the heartbeat timer | connect, disconnect, subscribe, unsubscribe, ping, status broadcast, heartbeat, shutdown | counts and callbacks neither leak nor go missing, limits hold, every client knows the truth about the feed, living clients stay and dead ones go |

These run in one JavaScript thread: a handler is indivisible, and what is hard is the
order of the events - a socket that is `CLOSING` but has not fired `'close'`, control
messages in flight, clients that come and go around an upstream loss, late pongs.

### Browser

| Component | State | What makes it correct |
|---|---|---|
| `shared/ws/client.ts` | desired channels, socket, backoff, ping loop | after any sequence of losses the server has the desired channels |
| `entities/kline`, `widgets/candle-chart` | query cache, the bars of the chart, the first time drawn | candles in order and none missing; the chart shows the candles of what is selected |
| `entities/ticker` | query cache, a subscription renewed at every message | the tickers listed are the tickers sent |
| `widgets/status-footer` connection indicator | - | says what the server last said |
| `widgets/order-form` | form values, the last render, the mutation under way | a quantity stays with its pair; a percentage is exact; what is sent fits what is shown |
| `features/create-order`, `features/reset-account` | query cache | optimistic balances converge to the server's |
| `shared/api/client.ts` | - | every request ends |
| other widgets | view state | - |

`packages/shared` validates single messages; `prisma/seed.ts`, `main.ts` and
`app.module.ts` are executed once.

How they interact: the browser calls the REST side with a shared cookie jar and reads
its query cache; `OrdersService` calls `BinancePriceService`; the gateway calls
`BinanceStreamService.subscribe/unsubscribe` synchronously and is called back with
payloads and status changes; the browser's socket client talks to the gateway.

`PROJECT.json` lists the components with their status and, under `hazards`, the places
where this code is hard to test, each with the properties that watch it.

## 2. Plan

In order of importance; all of it is done, except for what "left" names.

1. **OrderFlow** (with **Ledger**, its abstract specification): money.
2. **UpstreamStream**: the one connection to Binance.
3. **Gateway**, which extends UpstreamStream: the fan-out, composed with the service it calls.
4. **Heartbeat**: the gateway's heartbeat in time.
5. **WsClient**: the browser's socket client and hooks against the gateway's side of a session.
6. **BalanceCache**: optimistic update, rollback and invalidation of concurrent orders and a
   reset against the server.
7. **PriceCache**: TTL caches with concurrent misses, late answers and timeouts; every cached
   price against the time Binance quoted it.
8. **KlineChart**: history and live updates of the candles, and the chart drawn from them.
9. **OrderForm**: what the user enters, what is sent, and what the server makes of it.
10. Theorems: every invariant and every action property the runs check.  Left to TLC:
    liveness.

## 3. Modules

### Ledger

What the REST side promises about money: `Open` an account with its grant, `Buy`, `Sell`,
`Reset`, each in one step that moves two balances and adds one trade, or replaces an account
and its history.  OrderFlow implements it: the run `orderflow` checks that, and
`Refinement` proves it.

### OrderFlow

One browser with one cookie jar and several requests in flight; each request is a process.

| Code | Model |
|---|---|
| `req.cookies.account_id`, `req.user` | `user[r]`: first the cookie the request carries, then the user |
| `Set-Cookie` | `setCookie[r]`, put in `jar` by `Deliver` - in any order, or never (`Lose`) |
| UUIDs | the transaction that creates the user names it: `<<r, "visit">>`, `<<r, "reset">>` |
| `AnonymousUserMiddleware.use` | `Lookup`, `Register`, `MiddlewareFails` |
| throttler, list endpoints, LIMIT | `Refuse`, `View`, `LimitOrder` |
| pair and quantity checks, rounding | `RejectOrder`, `AcceptOrder`, `RoundDown`, `Acceptable` |
| `getCurrentPrice` | `PriceArrives`, `PriceUnavailable` |
| `$transaction`: `updateMany`, `upsert`, two `create`s | `Begin`, `Debit` / `DebitFindsNothing` / `DebitConflicts`, `Credit` / `CreditConflicts`, `InsertOrder`, `InsertTrade`, `CommitOrder` |
| `AccountsService.reset` and the schema's cascades | `StartReset`, `DeleteUser` / `NothingToDelete`, `DeleteAccount`, `DeleteBalance` (one per row), `CommitReset` |
| anything else that ends a transaction | `Abort`, `DeadlockVictim` |

PostgreSQL is modelled by what the code relies on. An order's transaction reads the
snapshot of its first statement (`snap`), and `missed` names the rows of its account that
others committed since: touching one of those is a serialization failure (first updater
wins). Row locks (`locks`) are held to the end of the transaction, and a statement waits while
another transaction holds a conflicting one; foreign keys take a shared lock on the account
row that only conflicts with its deletion. Cycles of waiting transactions lose a member. The
read/write conflicts SSI detects beyond that, timeouts and lost connections are `Abort`,
possible at any statement. A commit whose acknowledgement is lost is not modelled: in the
model a request answered 500 has not committed.

Balances are integers, in units of which `LotStep` make 10^-quantityPrecision; the 18 decimals
of the database and the 20 digits of decimal.js are not modelled. `BalancesMatchTrades` is
about exact arithmetic.

`IInv` is the inductive strengthening of `Solvent`; see Proofs.  `Moved` is the sum of what an
account's trades did to one of its balances.

### UpstreamStream

`subscribers`, `ws`, `reconnectTimer`, `reconnectAttempt`, `rateLimited`,
`upstreamConnected` and `destroyed` are the fields of the class; `ws` also tells
`readyState`. Each method and event handler is one action, `wire` holds the control messages
Binance has not obeyed yet and `upstream` what it sends. A loop of the gateway over several
channels is one call with a set of pairs, and its announcements, which are about different
streams, one message. The timer's delay is kept in half seconds; the two ends stand for the
random half. Binance obeys every message; refusals, which the code ignores, are not modelled.

### Gateway

Extends UpstreamStream - whose constant `Callbacks` it takes to be the pairs of a client and a
channel - with `sock` (the client sockets), `clients`, `channels`,
`ipConnections` and `told` (the last `upstream_status` a socket was sent). `ClientSubscribes`
takes any list of raw channel strings the schema lets through (`MaxPerMessage`), up to the limit; `Disconnect` is the
`'close'` event of any socket, refused ones included; `UpstreamOpens` and `UpstreamCloses`
run the status listener inside the service's handler, as the code does. Payloads change no
state and are left out. Channels are keyed by the raw string, so two spellings of one channel
are two callbacks on one stream: the runs have such a pair.

### Heartbeat

A client joins at any phase of the timer; its pongs, its
messages and its silence are separate. `age` is `Date.now() - lastSeen`.

### WsClient

`ExchangeWebSocketClient` with the store it writes, the two hooks that use it, and the
gateway's side of the session, joined by two FIFO wires that end with the connection.
`socket` is `readyState`, plus `"upgraded"` for a handshake that is done while `onopen` has
not fired: that is what the browser sees of a session the gateway refuses.  `Loss` is the
browser noticing that the connection is gone; the server may not have, and keeps the session
and its slot (`lingering`) until the heartbeat ends it.  `Exchange` is what React does when an
effect runs again: cleanup, then effect.  `changed` says that the tickers array was replaced
and the effect has not run yet; every ticker message and every refetch does that.  The
gateway's limit per client is `Added`; which of the wanted channels fit is left open.  Two
components that want the same channel do not occur: each hook is mounted once.
`aggregateStatus`, `serverWsStatus` and `marketFeedStatus` are the indicator's three readings of
the store, and `FeedTruthInFlight` is stated of them: whatever the footer claims of the feed is
what the server last said, unless a newer message is on its way.

### BalanceCache

The query `['balances', 'list']`, the orders the user has in flight and the resets, against the
accounts on the server.  A balance map is described by what went into it (`account`, `known`,
`guessed`) instead of amounts, so that "the right balances" is one record.

* Query: `Ask`, `Idle`, `Invalidate`, `Land` and `FetchFails` are TanStack Query 5 as the code
  configures it: `cancelQueries` drops a fetch, `invalidateQueries` drops and repeats it unless
  there are no data yet, when it joins it.  `retry: 1` is kept as a choice: any try may be the
  last, also a later one than the code allows.
* Orders: `Mutate`, `Succeed` and `FailOrder` are the callbacks of `useCreateOrder`; an executed
  order fails too when its answer is lost.
* Resets: each member of `Resets` is a dialog.  The button is disabled while the dialog's own
  reset is pending, but the backdrop dismisses the dialog all the same (`reset-modal.tsx:16`), the
  form below does not look at resets, and a dialog opened again has a mutation of its own.  So
  orders are placed and further resets sent while a reset is pending (`Mutate` and `SendReset` have no
  guard against it), with the snapshot, the guess and the cookie of an account that may be gone.
* Cookies: a request carries the account the cookie named when it was sent.  If that account is
  gone by the time the middleware looks it up, the request is served for a fresh one (`Account`, `Admit`),
  which the browser learns of when the head of the answer arrives (`Deliver`), some time before the
  answer is handled; with a lost answer it never does.  An account opened for another request of
  the page is `StrayCookie`.  A visitor without a cookie is one whose account is gone.

An order that executes after the browser saw it fail is left to OrderFlow, and so is what happens
between two statements of an order or a reset: here each is one step of the server, and an order
whose account goes in between is refused.

### PriceCache

Several requests of the API (`Callers`) ask for a plan of prices each: an order for one price, a
valuation of balances for one per asset with an `await` in the loop, the list of tickers for
all at once, the candles for something that is never cached (`Ttl` 0).  Time is a clock that
stops for continuations (`Settled`): what is ready runs before the next event.  A price is its
age, in the cache and in the answer under way, so "how old is what this order was charged" is a
number.  `Miss`, `Quote`, `Headers` and `Body` are the moments of a request: sent, read by
Binance, headers here (which clears the abort timer, `requestJson`), body here.  `TimesOut` is the
abort timer before the headers; after them nothing of the code limits the wait, and
`BodyTimeout` is the limit `fetch` itself keeps for the next piece of a body (undici's 300 s).  The
body comes in one piece here: one that trickles forever is not modelled.  A failure ends an
order; a valuation (`Tolerant`) takes 0 and asks for the next price.

### KlineChart

The market is a clock and a candle is the tick it shows; a closed candle is final when it shows
the last tick of its time.  `cache` is the query of each symbol and interval, written by `Land`
(a REST answer, which replaces everything) and by `OnMessage` (`useKlineStream`: replace the last or
append, `Trimmed` to `MAX_CANDLES`).  `drawn` holds the bars of the series as the chart library
keeps them; `Draw` and `SelectType` are the two effects of `KlineChartView`, and `due` is a render
whose effect has not run, so that several messages may fall between two draws.  Where `update()`
throws, or `setData` is given candles out of order, the chart is `broken` and stays so until
another page is opened.  The reference the code keeps is the first candle's `openTime` alone
(`kline-chart-view.tsx:246`); `FirstTime` carries the chart as well, because the first candles of
two intervals do not have the same time: the intervals offered are 3 times apart or more, and
the caches hold 200 to 500 candles without gaps.  That they never do is an assumption of the
model, not a result.  `calm` is a history variable: the answer that filled the cache missed
nothing and overtook nothing, the connection held since, and the chart was not left.  What a
refetch does when it joins or repeats a fetch, and when a query is stale, is a choice (`Ask`,
`Refetch`).  `IInv` says why the properties hold, part by part.  The price series stands for the volume series as well.

### OrderForm

The form's values, the last render (`page`) that handlers and the button use, the caches it
renders, the orders under way and the account on the server.  A change of the form is rendered
before the next event, as React does for discrete events; a change of a cache or an answer is
rendered some time later (`Render`), so a second click can come before the button is disabled.
`SelectSymbol` includes the effect that resets the form.  `Submit` is `mutate` with `onMutate`: the
guess is at the price in the cache, which may be newer than the one on screen.  Only the latest
mutation of the observer runs `onSuccess` of the call (`Unfollowed`), and it runs with the
values and the price of its own render (`Emptied`).  The server is the path of one order: round
down, minimum, price of its own, conditional debit; and `OtherTab` trades on the same account.
Amounts are integers in units that make `quantity * price` exact; `Lots` is
`toDecimalPlaces(precision, ROUND_DOWN)`, towards zero.  decimal.js rounds quotients to 20
digits before that, which is not modelled.  The balances' fetch and its answer are one step
here (BalanceCache has them apart), and so a guess may be overwritten at any moment.

## 4. Runs

| Run | Shows | Bounds, and why they are enough |
|---|---|---|
| `orderflow` | `Solvent`, `IInv`, `BalancesMatchTrades`, `AllOrNothing`, `SessionKept`, and that OrderFlow implements Ledger | Three requests are a visit that buys followed by any two concurrent requests, or three racing first visits. One pair, one quantity that rounds down (3 to 2), two prices, a grant that covers one order at the high price or up to three at the low one, so orders do compete for the money |
| `orderflow_live` | `ExecutedWithinBounds`, `EveryRequestAnswered` | From a reachable state in which the account already bought, two concurrent requests of any kind over two active pairs that share USDT and an inactive one. BUY and SELL lock the balances in opposite orders and do deadlock. With a lot of 2 and a minimum of 3, a quantity of 3 falls below the minimum by rounding only, and 5 is rounded to 4 and executed |
| `upstream` | `StreamInv`, `DemandMirrored`, `KeepsTrying`, `DemandServed` | Two streams, two callbacks: a first and a second subscriber of each. At most 4 control messages in flight. The attempt counter saturates at 5, past which the delay is constant |
| `gateway` | `GatewayInv`, `FanoutExact`, `ToldTheTruth`, `IpCountExact`, `SlotGivenBack`, `ChannelServed` | Two sockets of one address with a limit of one, so one of them is refused, and a third of another address; two spellings of one channel and an unknown one, of which a client may hold one and a message name two. One stream and one control message in flight: the theorems of section 5 cover the safety properties for any number of either |
| `heartbeat` | `IInv`, `LivingNeverTerminated`, `DeadGoneInTime` | Ticks of 5 s, so that 30 s and 65 s are exact. Answers within 55 s: the bound is the timeout minus what a tick hides; a client that joins just after a tick of the timer is first pinged 30 s later. Clients share nothing but the timer, so one is enough |
| `wsclient` | `ClientInv`, `SubscriptionsInFlight`, `FeedTruthInFlight`, `Recovers`, `ChannelsServed` | Two chart channels and two tickers: a chart that moves, one that closes, and a list that is dropped and retaken. A limit of three channels. Two sessions per address, so a browser that lost two is refused until one of them ends. Two messages on a wire before the user or the feed adds another. Attempts saturate at 5, past the cap |
| `balancecache` | `IInv`, `ShownIsTrue`, `Converges` | Two orders, of which each may fail, succeed or lose its answer, and two dialogs that may reset at the same time, again and again until three accounts were opened: every overlap of two rollbacks, their snapshots and the refetches; an order placed while a reset is pending, that is executed on the old account, on the next or on one of its own. The theorems cover any number of each |
| `balancecache_reset` | violation of `ResetRefetches` | - |
| `pricecache` | `IInv`, `PriceAgeBounded`, `CallsEnd` | Three callers at once: an order for the price of BTC, a valuation of BTC and then ETH, and a chart. Two of them miss the same entry together and answer in either order; time to live 2 ticks, timeouts of 1 tick, so that an answer can be as late as an entry is long-lived |
| `klinechart` | `IInv`, `ExactUnlessRaced`, `DrawnFromCache`, `BreaksOnlyAfterRace`, `ChartTurns` | Two intervals, two updates per candle, two candles of history and three kept, so that four ticks of the market already open two candles and trim one; two updates on their way |
| `klinechart_order` | violation of `CandlesAscending` | - |
| `orderform` | `IInv`, `PercentExact`, `NoFundsExplained` | Two pairs, one with a lot coarser than the form's default and a price that moves; a balance of 5 at prices 2 and 3, so nothing divides evenly; shares of a half and the whole; two orders, of this form or of another tab, so two may be under way together or one be overtaken |

Where requests, orders or ticks are finite in number the system stops, and those runs do not
check deadlock; the others do. The symmetry sets permute requests or sockets that the module
treats alike, and are not used in runs with liveness properties.

Every property of a passing run has a mutant: an operator in the module, marked as such,
that changes one definition as a plausible bug would; with it in place the run fails.

### Fairness

`OrderFlow`: weak fairness of `Serve(r)`, what the server does for a request unless
something goes wrong: Node runs every continuation that is ready, the price request ends one
way or the other, PostgreSQL grants a free lock and breaks a deadlock. Nothing is assumed of
the browser or of failures. `UpstreamStream`: timers fire, a handshake ends, a closing
socket closes, Binance obeys what it received. `Gateway`: in addition a closing client socket
fires `'close'`. `Heartbeat`: the clock runs, the timer fires, a terminated socket closes.
`WsClient`: the browser's events and timers run, React runs the effect of new data, the server
answers a handshake, reads its wire and ends forgotten sessions (the heartbeat); what losses,
the user and the feed do is free, and `Recovers` and `ChannelsServed` promise
something only from where losses stop. `BalanceCache`: while anything is under way, the server answers some of
it, it fails, or the browser handles it (one weak fairness for all: what is under way is finite and each such
step brings it nearer its end); nothing of the user or of other requests' cookies.
`Converges` promises something from where the user and the failures stop. `PriceCache`: Node runs what is ready (weak fairness of the continuations), and
time goes on however busy the callers are (strong fairness of the clock, which continuations
keep interrupting); nothing at all of Binance. `KlineChart`: the API answers or fails, the browser
handles answers and messages and renders; nothing of the user, the market or the connection.
`OrderForm` has no liveness property.

### Divergences found

By a run:

* `balancecache_reset`: a reset that succeeds before the first balances have arrived shows the
  deleted account's until something else fetches: `invalidateQueries()`
  (`use-reset-account.ts:9`), said to fetch everything again (`docs/frontend-state.md:58`),
  joins the fetch that was answered before the reset.
* `klinechart_order`: candles are documented as ascending (`docs/market-data.md:53`), but an
  update sent before a REST answer and handled after it is appended behind a newer candle
  (`use-kline-stream.ts:28,53`); the chart it is drawn on throws.

By reading, while modelling:

* A reset grants 10000 USDT (`auth/cookie.ts:7`), the dialog announces 50,000
  (`reset-modal.tsx:25-26`).
* Symbols are documented as case-insensitive (`docs/realtime.md:17`), but channels are keyed by
  the raw string (`exchange.gateway.ts:240`): two spellings are two subscriptions, both
  delivered, both counted. The `gateway` run has the two spellings.
* `docs/realtime.md:29` ties survival to pongs; any valid message will do
  (`exchange.gateway.ts:198`), as `Heartbeat.Message` does.
* The 5 s of `REQUEST_TIMEOUT_MS` end with the headers (`binance-price.service.ts:203`): the body of
  a price is waited for as long as `fetch` waits, and an order with it.
* The values the user typed while an order was under way are reset by its answer
  (`order-form.tsx:114`), the side flips back to that of the order.

## 5. Proofs

One module per component holds its theorems, except that those of the stream service are with
the gateway's, which extend them; `PROJECT.json` lists the ones to know. Every invariant and
action property of the runs is proved. The theorems hold for every
value of the constants that satisfies the assumption named in the module (`OrderFlowConstants`,
`UpstreamConstants`, ...), which TLC also evaluates in the runs.  Mostly these say what the
constants are; those that are more than that are given below.  In `UpstreamConstants` and
`WsClientConstants` the attempt counters saturate at no more than 5, where the delays are at
their cap already, and powers of two are computed by cases.

**OrderFlow_proofs**, for any set of requests, pairs, prices and quantities (amounts are
naturals; prices, the lot and the minimum are positive; names are distinct).

* `Invariance`, `TypeCorrect`, `NeverOverdrawn`.  `Solvent` alone is not inductive:
  `CommitOrder` subtracts an amount the transaction compared with a snapshot several steps
  ago. `DebitsCovered` says that the current balance still covers it and the row is locked; it
  is preserved by the commits of others because a row is locked by one transaction at a time
  (`RowsExclusive`), and by a reset because the reset has locked every row of the account, of
  which the debited one is one (`RowsHoldMoney`). It is established by `Debit`, for which the
  snapshot must still be the truth (`SnapshotFresh`) and the amount positive (`Prepared`,
  `OrderAmounts`; without a minimum above zero an order of nothing could debit a row that does
  not exist). `BornBeforeKnown` keeps a new identity from touching an account someone already
  uses.
* `WithinBounds`, `NothingByHalves`, from `History`: a row of the database is the one its
  request would write, that request has committed and its account still exists, and a request
  that committed keeps both its rows until its account goes.
* `CookieKept`, from `OwnCookies`: a cookie on its way names an account that exists and that
  no other request knows of, so nobody can reset it before it arrives.
* `Conserved`: no money is made or lost. Balances are the grant plus a sum over the account's
  trades, and such a sum is a recursive function on sets, so its equations have to be
  proved: a smallest set on which the fold has no value, or two, leads to a smaller one
  (`SumExists`, `SumEquation`), and then adding one trade adds what it moved (`MovedMore`). A commit
  adds one trade that says what the commit moved (`TradeSaysWhatMoved`); a reset removes
  the history with the balances; an account nobody knew of has no trades (`NoTradesYet`).
* `Refinement`: `CommitOrder` is Ledger's `Buy` or `Sell`, `Register` its `Open`,
  `CommitReset` its `Reset`, and every other step changes nothing Ledger sees. The proof
  leans on the invariant: a step of Ledger tests the balances of now, the transaction tested
  those of its snapshot.

**Gateway_proofs**, first about the service alone, for any streams, callbacks and length of the
wire: `StreamInvariance`
(`StreamInv`: one socket or one timer, a status that follows the socket, a delay between floor and cap) and `Mirrored`: of the
control messages about a stream the last one decides, and it is the one the present demand
called for. The lemmas are stated of the actions, for any set of pairs, so that they hold of the service with the
gateway on top of it.

Then about the gateway, for any finite set of clients and channels, any addresses, limits and
spellings: every handler of the gateway is a step of the service or leaves it
alone. `GatewayInvariance`, `Fanout`, `Counted` and `Told` follow handler by handler.
`ServedFromEndToEnd` puts `Fanout` and `Mirrored` together: on an open connection, once the wire is
obeyed, Binance sends exactly the streams of the channels clients hold. No run checks
`EndToEnd`; its two halves are checked by `gateway` and `upstream`.

**Heartbeat_proofs**, for any period, timeout and round trip.  The one assumption of
substance is in `HeartbeatConstants`: a round trip that lasts `k` full periods leaves room
for one more before the timeout. With the 30 s and 65 s of the code that is a round trip of
less than two periods. `LivingKept` rests on
`Heard`: a living client was heard since the timer last fired, or still owes the answer of a
ping recent enough; `DeadDropped` on `Watched`, which bounds a registered client's age by the
timeout and the phase of the timer.

**PriceCache_proofs**, for any callers, plans, times to live and timeouts, 0 included:
`PricesRecent`, from `AgesAccounted`: a request is within its timeouts, and a price in the
cache was quoted no earlier than one request, as slow as they allow, before it was stored.

**OrderForm_proofs**, for all pairs, lots, prices, balances and quantities. `PercentIsExact`
is arithmetic of `\div` (`Floor`, `LotsExact`, `ShareExact`). `NoFundsIsExplained` uses
`SentWithinSight`: an order carries what was shown when it was sent, and rounding down on the server
cannot make it dearer.

**WsClient_proofs**, for any set of charts and of finitely many tickers. `WsClientConstants`
has the condition the code does not enforce: all tickers and one chart fit in the gateway's
limit. `FeedIsTrue` says of each wire what its last status message says. `Subscribed` follows what the
session holds after each prefix of the messages under way (`LeadsTo`), because the limit is
applied message by message: there is never more than one chart in it, so `Added` always takes
all that is asked (`AddsAll`), and after the last message the session holds what the hooks want.

**BalanceCache_proofs**, for any orders, any number of resets pending at once and any number of
accounts: `Invariance` and `Shown`. The invariant, which the run checks too, says that the cache may
be wrong about an account that exists only while an order is in flight - a guess, a rollback to a
snapshot from before another order, an answer read too early - because the end of every order
fetches again (`AtRest`), and that no map is of an account yet to be opened (`OfThePast`): so an
account opened by a reset, or for a request with a dead cookie, makes no map wrong
(`AccountsGrow`, `FreshStays`), and one that is deleted only takes maps out of question.  An order may
execute on another account than its snapshot was of; it is in flight then.

**KlineChart_proofs**, for any charts, number of candles asked for and kept, updates per candle,
and any length of the wire. `Exact` needs `CalmIsComplete`: while nothing raced, the updates on the
wire for the chart shown are exactly the ticks after the last candle; the wire is in order
(`WireInOrder`), so the next message is the next tick, which replaces the last candle or opens the
one behind it (`NextTick`, `MergedStaysContiguous`), and trimming takes from the front. `BreaksLate` needs
`BarsNotAhead`, which only an answer could disturb: what was drawn from updates newer than the
answer has left the wire, and all that is still on it is newer (`SeenBefore`), so such an answer
lacks an update that will not come and the state is not calm. `Drawn` needs `FirstIsDrawn`: the reference
(`firstOpenTimeRef`) is the first bar's time, so bars that begin and end with the candles, in
order, are candles, because these are contiguous (`BarsAreCandles`). That neighbours in order make
a sequence in order is shown by the least counterexample (`LeastCounterexample`).

Only model-checked: liveness (`EveryRequestAnswered`, `KeepsTrying`, `DemandServed`,
`SlotGivenBack`, `ChannelServed`, `Recovers`, `ChannelsServed`, `Converges`, `CallsEnd`, `ChartTurns`), which
rests on fairness and ENABLED.

## 6. Not modelled

* What has no state of its own or is executed once: the formatting of answers, the health
  endpoint, the error filter and the request logger, start-up, configuration and the seed; the
  browser's HTTP client, which is one `fetch`; the widgets that only show what they are given
  and keep view state, and the components of `shared/ui`.
* The validation of single messages by `packages/shared`: the modules start from messages
  that passed it, and count its limits where they decide something (`MaxPerMessage`, the
  minimum).
* Decimals: amounts are integers. The 20 significant digits of decimal.js and the 18 places
  of the database are the hazards of numbers that remain.
* Commits whose acknowledgement is lost, and an API process that restarts. Nothing but the
  database outlives the process; its shutdown is in UpstreamStream and Gateway.
* Refusals of control messages by Binance, which the service does not look at
  (`binance-stream.service.ts:193`): the stream is then taken for subscribed until the next
  reconnect.
* Two tabs of one browser as two React trees: they share the cookie jar (OrderFlow) and the
  account (`OtherTab` of OrderForm), not a query cache.
