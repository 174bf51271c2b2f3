----------------------------- MODULE PriceCache -----------------------------
(***************************************************************************)
(* BinancePriceService: the caches with a time to live, the requests to    *)
(* Binance behind them and their timeout, used by several callers at once: *)
(* an order, a valuation of balances, the list of tickers, the candles.    *)
(*                                                                         *)
(* A key is a cache entry (price of a symbol, 24h ticker of a symbol, all  *)
(* tickers) or a request that is never cached (candles).  A price is its   *)
(* age: the time since Binance quoted it.                                  *)
(***************************************************************************)
EXTENDS Integers, Sequences

CONSTANTS
    Callers,        \* requests of the API that ask for prices
    Keys,           \* cache entries
    Ttl,            \* time to live of each entry, 0 for what is not cached
    Plan,           \* the keys each caller asks for, in turn
    Tolerant,       \* the callers that go on without a price
    Timeout,        \* REQUEST_TIMEOUT_MS
    BodyTimeout,    \* how long fetch itself waits for a body, which comes in one piece here
    None

ASSUME PriceCacheConstants ==
    /\ Ttl \in [Keys -> Nat]
    /\ Plan \in [Callers -> Seq(Keys)]
    /\ \A c \in Callers : Plan[c] # <<>>
    /\ Tolerant \subseteq Callers
    /\ Timeout \in Nat
    /\ BodyTimeout \in Nat
    /\ None \notin [age : Nat, quoted : Nat]
    /\ None \notin [key : Keys, quoted : Nat]

VARIABLES
    cache,      \* per key: age of the entry and of the price in it
    stage,      \* how far a caller's request to Binance is
    step,       \* which price of its plan a caller is at
    waited,     \* how long it has waited: for the headers, then for the body
    quoted,     \* age of the price in the answer under way
    given       \* the last price each caller was given, as old as it was then

vars == <<cache, stage, step, waited, quoted, given>>

InFlight == {"sent", "quoted", "body"}

TypeOK ==
    /\ cache \in [Keys -> [age : Nat, quoted : Nat] \cup {None}]
    /\ stage \in [Callers -> {"idle", "asks"} \cup InFlight]
    /\ step \in [Callers -> Nat]
    /\ \A c \in Callers : step[c] \in DOMAIN Plan[c]
    /\ waited \in [Callers -> Nat]
    /\ quoted \in [Callers -> Nat]
    /\ given \in [Callers -> [key : Keys, quoted : Nat] \cup {None}]

Init ==
    /\ cache = [k \in Keys |-> None]
    /\ stage = [c \in Callers |-> "idle"]
    /\ step = [c \in Callers |-> 1]
    /\ waited = [c \in Callers |-> 0]
    /\ quoted = [c \in Callers |-> 0]
    /\ given = [c \in Callers |-> None]

Key(c) == Plan[c][step[c]]

\* Mutant: an entry is still served when its time is up.
FreshInclusive(k) == cache[k] # None /\ cache[k].age <= Ttl[k]
Fresh(k) == cache[k] # None /\ cache[k].age < Ttl[k]

-----------------------------------------------------------------------------
\* What a caller does with an answer or a failure

\* for ... of with an await in it: the next price is asked for when this one is there.
Proceed(c) ==
    IF step[c] < Len(Plan[c])
    THEN /\ step' = [step EXCEPT ![c] = @ + 1]
         /\ stage' = [stage EXCEPT ![c] = "asks"]
    ELSE /\ step' = [step EXCEPT ![c] = 1]
         /\ stage' = [stage EXCEPT ![c] = "idle"]

\* The request is over; its clocks are not looked at again.
Settle(c) ==
    /\ waited' = [waited EXCEPT ![c] = 0]
    /\ quoted' = [quoted EXCEPT ![c] = 0]

Return(c, age) ==
    /\ given' = [given EXCEPT ![c] = [key |-> Key(c), quoted |-> age]]
    /\ Proceed(c)
    /\ Settle(c)

\* Mutant: a valuation that fails asks again instead of taking 0.
FailAndAskAgain(c) ==
    /\ stage' = [stage EXCEPT ![c] = IF c \in Tolerant THEN "asks" ELSE "idle"]
    /\ step' = [step EXCEPT ![c] = IF c \in Tolerant THEN @ ELSE 1]
    /\ Settle(c)
    /\ UNCHANGED <<cache, given>>

\* A 503 (or the 400 of the candles) ends the request; a valuation takes 0 and goes on.
Fail(c) ==
    /\ IF c \in Tolerant THEN Proceed(c)
       ELSE /\ step' = [step EXCEPT ![c] = 1]
            /\ stage' = [stage EXCEPT ![c] = "idle"]
    /\ Settle(c)
    /\ UNCHANGED <<cache, given>>

-----------------------------------------------------------------------------
\* The service

Call(c) ==
    /\ stage[c] = "idle"
    /\ stage' = [stage EXCEPT ![c] = "asks"]
    /\ given' = [given EXCEPT ![c] = None]
    /\ UNCHANGED <<cache, step, waited, quoted>>

\* Mutant: every use of an entry renews it.
HitRenews(c) ==
    /\ stage[c] = "asks"
    /\ Fresh(Key(c))
    /\ Return(c, cache[Key(c)].quoted)
    /\ cache' = [cache EXCEPT ![Key(c)].age = 0]

\* The first lines of getCurrentPrice, getTicker24h and getAllTickers24h.
Hit(c) ==
    /\ stage[c] = "asks"
    /\ Fresh(Key(c))
    /\ Return(c, cache[Key(c)].quoted)
    /\ UNCHANGED cache

\* requestJson: fetch, with the abort timer running.  Nothing looks whether another
\* caller already asks for the same key.
Miss(c) ==
    /\ stage[c] = "asks"
    /\ ~Fresh(Key(c))
    /\ stage' = [stage EXCEPT ![c] = "sent"]
    /\ UNCHANGED <<cache, step, waited, quoted, given>>

\* Binance reads its price.
Quote(c) ==
    /\ stage[c] = "sent"
    /\ stage' = [stage EXCEPT ![c] = "quoted"]
    /\ UNCHANGED <<cache, step, waited, quoted, given>>

\* fetch resolves with the headers, and the timer is cleared.
Headers(c) ==
    /\ stage[c] = "quoted"
    /\ stage' = [stage EXCEPT ![c] = "body"]
    /\ waited' = [waited EXCEPT ![c] = 0]
    /\ UNCHANGED <<cache, step, quoted, given>>

\* The timer aborts the fetch, or fetch gives up on the body.
TimesOut(c) ==
    /\ \/ stage[c] \in {"sent", "quoted"} /\ waited[c] = Timeout
       \/ stage[c] = "body" /\ waited[c] = BodyTimeout
    /\ Fail(c)

\* No connection, a status that is not 2xx, or one of 400 for the candles.
Refused(c) ==
    /\ stage[c] \in {"sent", "quoted"}
    /\ Fail(c)

\* The body breaks off, is no JSON, or is not what was asked for.
Malformed(c) ==
    /\ stage[c] = "body"
    /\ Fail(c)

\* cache.set with the time of now, whatever is there by then; candles are not cached.
Stored(k, age) ==
    IF Ttl[k] = 0 THEN cache ELSE [cache EXCEPT ![k] = [age |-> 0, quoted |-> age]]

Body(c) ==
    /\ stage[c] = "body"
    /\ cache' = Stored(Key(c), quoted[c])
    /\ Return(c, quoted[c])

\* Timers run when they are due.  An entry past its time is as good as none.
Tick ==
    /\ \A c \in Callers :
          /\ stage[c] \in {"sent", "quoted"} => waited[c] < Timeout
          /\ stage[c] = "body" => waited[c] < BodyTimeout
    /\ cache' = [k \in Keys |->
          IF cache[k] = None \/ cache[k].age > Ttl[k] THEN None
          ELSE [age |-> cache[k].age + 1, quoted |-> cache[k].quoted + 1]]
    /\ waited' = [c \in Callers |->
          IF stage[c] \in InFlight THEN waited[c] + 1 ELSE waited[c]]
    /\ quoted' = [c \in Callers |->
          IF stage[c] \in {"quoted", "body"} THEN quoted[c] + 1 ELSE quoted[c]]
    /\ UNCHANGED <<stage, step, given>>

\* Continuations run before the next event.
Settled == \A c \in Callers : stage[c] # "asks"

Service(c) == Hit(c) \/ Miss(c)
Clock      == Settled /\ (Tick \/ \E c \in Callers : TimesOut(c))
Binance(c) == Quote(c) \/ Headers(c) \/ Refused(c) \/ Malformed(c) \/ Body(c)

Next ==
    \/ Clock
    \/ \E c \in Callers : Service(c) \/ (Settled /\ (Call(c) \/ Binance(c)))

Spec == Init /\ [][Next]_vars

\* Node runs what is ready, and time goes on however busy the callers are; nothing is
\* assumed of Binance.
FairSpec == Spec /\ WF_vars(\E c \in Callers : Service(c)) /\ SF_vars(Clock)

-----------------------------------------------------------------------------
\* Properties

Transit == Timeout + BodyTimeout

\* A price handed to an order, a valuation or a list was quoted by Binance at most one
\* time to live and one slow request ago, whatever overlapped: concurrent misses, late
\* answers that overwrite newer ones, entries replaced while a request was under way.
PriceAgeBounded ==
    \A c \in Callers : given[c] # None =>
        \/ given[c].quoted <= Transit
        \/ given[c].quoted < Ttl[given[c].key] + Transit

\* Requests under way are as old as their timers say, entries as old as their answers.
AgesAccounted ==
    /\ \A c \in Callers :
          /\ stage[c] \notin InFlight => waited[c] = 0 /\ quoted[c] = 0
          /\ stage[c] \in {"sent", "quoted"} => waited[c] <= Timeout
          /\ stage[c] = "sent" => quoted[c] = 0
          /\ stage[c] = "quoted" => quoted[c] <= waited[c]
          /\ stage[c] = "body" => waited[c] <= BodyTimeout /\ quoted[c] <= Timeout + waited[c]
    /\ \A k \in Keys : cache[k] # None => cache[k].quoted <= cache[k].age + Transit

\* What keeps PriceAgeBounded true from step to step: an order's price is as old as the
\* entry it came from, which is as old as the request that filled it.
IInv == TypeOK /\ AgesAccounted /\ PriceAgeBounded

\* A caller gets its prices or an error however silent Binance is, and a valuation of
\* several assets gets to the last of them whichever fail (valueInUsdt takes 0).
CallsEnd ==
    /\ \A c \in Callers  : stage[c] # "idle" ~> stage[c] = "idle"
    /\ \A c \in Tolerant : stage[c] # "idle" ~> step[c] = Len(Plan[c])
=============================================================================
