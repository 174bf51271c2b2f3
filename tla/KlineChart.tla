----------------------------- MODULE KlineChart -----------------------------
(***************************************************************************)
(* The candles of the trading page: history over REST and updates over the *)
(* socket, both written into one query of the browser's cache, and the     *)
(* chart that is drawn from it by differences.                             *)
(*                                                                         *)
(* The market is a clock: candle t is open while the clock is in           *)
(* [t * Steps, t * Steps + Steps), and every tick of it is one update.     *)
(* A candle is what it showed at a time of the clock.                      *)
(***************************************************************************)
EXTENDS Integers, Sequences, Functions

CONSTANTS
    Charts,         \* the symbol-interval pairs the user looks at
    Steps,          \* updates per candle
    Limit,          \* candles asked for (200)
    MaxCandles,     \* MAX_CANDLES
    MaxClock,       \* bound: the market stops
    MaxWire,        \* bound: updates on their way
    None

ASSUME KlineChartConstants ==
    /\ Steps \in Nat \ {0}
    /\ Limit \in Nat \ {0}
    /\ MaxCandles \in Nat /\ MaxCandles > Limit
    /\ MaxClock \in Nat
    /\ MaxWire \in Nat
    /\ None \notin [chart : Charts, time : Int]

VARIABLES
    clock,      \* the market
    link,       \* the session delivers what the chart subscribed to
    wire,       \* updates on their way to the browser, in order
    cache,      \* queryKeys.klines.list(symbol, interval): candles, <<>> for no data
    fetch,      \* the query's request: its stage, retries left, what it read when
    shown,      \* the symbol and interval chosen
    drawn,      \* the bars of the price series
    first,      \* firstOpenTimeRef; charts of different intervals begin at different times,
                \*   which the chart in the record stands for
    due,        \* new candles were rendered and the effect has not run
    broken,     \* the series threw, or was given candles out of order
    calm        \* history: nothing raced since the candles were fetched

marketVars == <<clock, link>>
chartVars  == <<shown, drawn, first, due, broken>>
vars == <<marketVars, wire, cache, fetch, chartVars, calm>>

Last(seq) == seq[Len(seq)]

OpenTime(at) == at \div Steps
Final(t)     == t * Steps + Steps - 1

\* What Binance knows at a time of the clock: closed candles are final, the last is not.
Snapshot(at) ==
    [i \in 1..Limit |-> IF i = Limit THEN at ELSE Final(OpenTime(at) - Limit + i)]

Times(candles) == [i \in DOMAIN candles |-> OpenTime(candles[i])]

Ascending(candles) ==
    \A i \in 1..Len(candles) - 1 : OpenTime(candles[i]) < OpenTime(candles[i + 1])

Stages == {"none", "asked", "answered"}

TypeOK ==
    /\ clock \in 0..MaxClock
    /\ link \in BOOLEAN
    /\ wire \in Seq([chart : Charts, at : Nat])
    /\ cache \in [Charts -> Seq(Int)]
    /\ \A ch \in Charts : Len(cache[ch]) <= MaxCandles
    /\ fetch \in [stage : Stages, left : 0..1, at : 0..MaxClock]
    /\ shown \in Charts
    /\ drawn \in [chart : Charts, bars : Seq(Int)]
    /\ first \in [chart : Charts, time : Int] \cup {None}
    /\ due \in BOOLEAN /\ broken \in BOOLEAN /\ calm \in BOOLEAN

NoFetch == [stage |-> "none", left |-> 0, at |-> 0]
Asked   == [stage |-> "asked", left |-> 1, at |-> 0]

\* createChart: no series has data yet.
Created(ch) == [chart |-> ch, bars |-> <<>>]

\* The page opens: the hook subscribes, the query asks, the chart is empty.
Init ==
    /\ clock = 0
    /\ link = TRUE
    /\ wire = <<>>
    /\ cache = [ch \in Charts |-> <<>>]
    /\ fetch = Asked
    /\ shown \in Charts
    /\ drawn = Created(shown)
    /\ first = None
    /\ due = FALSE
    /\ broken = FALSE
    /\ calm = FALSE

-----------------------------------------------------------------------------
\* The market and the session

\* An event of Binance as the gateway sends it on.
Update(at) == [chart |-> shown, at |-> at]

Tick ==
    /\ clock < MaxClock
    /\ Len(wire) < MaxWire
    /\ clock' = clock + 1
    /\ wire' = IF link THEN Append(wire, Update(clock + 1)) ELSE wire
    /\ UNCHANGED <<link, cache, fetch, chartVars, calm>>

\* What was on its way is gone, and nothing asks for it again.
Loss ==
    /\ link
    /\ link' = FALSE
    /\ wire' = <<>>
    /\ calm' = FALSE
    /\ UNCHANGED <<clock, cache, fetch, chartVars>>

\* The client subscribes again by itself.
Reconnect ==
    /\ ~link
    /\ link' = TRUE
    /\ UNCHANGED <<clock, wire, cache, fetch, chartVars, calm>>

-----------------------------------------------------------------------------
\* The query

\* GET /klines reads Binance now; the answer arrives later.
Answer ==
    /\ fetch.stage = "asked"
    /\ fetch' = [fetch EXCEPT !.stage = "answered", !.at = clock]
    /\ UNCHANGED <<marketVars, wire, cache, chartVars, calm>>

\* The times of the updates that will be merged into the candles shown.
OnTheWay == {wire[i].at : i \in {j \in DOMAIN wire : wire[j].chart = shown}}

\* Everything the market did since the answer was read is still on its way, and nothing older.
Undisturbed == link /\ OnTheWay = fetch.at + 1 .. clock

\* The answer replaces whatever the stream made of the candles meanwhile.
Land ==
    /\ fetch.stage = "answered"
    /\ cache' = [cache EXCEPT ![shown] = Snapshot(fetch.at)]
    /\ fetch' = NoFetch
    /\ due' = TRUE
    /\ calm' = Undisturbed
    /\ UNCHANGED <<marketVars, wire, shown, drawn, first, broken>>

\* retry: 1, then the query is in error and keeps what it has.
FetchFails ==
    /\ fetch.stage # "none"
    /\ fetch' = IF fetch.left > 0 THEN [Asked EXCEPT !.left = 0] ELSE NoFetch
    /\ UNCHANGED <<marketVars, wire, cache, chartVars, calm>>

\* A reset invalidates every query, the browser coming online refetches stale ones: a
\* fetch under way is dropped and repeated, or joined while there are no data.
Refetch ==
    /\ fetch.stage = "none" \/ cache[shown] # <<>>
    /\ fetch' = Asked
    /\ UNCHANGED <<marketVars, wire, cache, chartVars, calm>>

-----------------------------------------------------------------------------
\* useKlineStream

\* Mutants: one candle too many is kept; the newest are dropped instead of the oldest.
TrimmedLate(old)  == IF Len(old) > MaxCandles THEN SubSeq(old, 2, Len(old)) ELSE old
TrimmedFront(old) == IF Len(old) >= MaxCandles THEN SubSeq(old, 1, MaxCandles - 1) ELSE old
Trimmed(old) ==
    IF Len(old) >= MaxCandles THEN SubSeq(old, Len(old) - MaxCandles + 2, Len(old)) ELSE old

\* Mutant: the update of the open candle is appended as well.
MergedByAppending(old, at) == Append(Trimmed(old), at)

\* Only the last candle is looked at.
Merged(old, at) ==
    IF OpenTime(Last(old)) = OpenTime(at) THEN [old EXCEPT ![Len(old)] = at]
    ELSE Append(Trimmed(old), at)

\* A message for the chart shown patches its candles, if they are there.
OnMessage ==
    /\ wire # <<>>
    /\ wire' = Tail(wire)
    /\ LET update == Head(wire)
           old    == cache[shown]
       IN  IF update.chart = shown /\ old # <<>>
           THEN /\ cache' = [cache EXCEPT ![shown] = Merged(old, update.at)]
                /\ due' = TRUE
           ELSE UNCHANGED <<cache, due>>
    /\ UNCHANGED <<marketVars, fetch, shown, drawn, first, broken, calm>>

\* The hook's cleanup and effect, and the query of the new chart: fetched when there are
\* no data or stale ones (a minute since the last answer or message); a fetch nobody
\* waits for any more is aborted.
Ask(ch) ==
    \/ fetch' = Asked
    \/ cache[ch] # <<>> /\ fetch' = NoFetch

\* setInterval: the chart stays mounted.
SelectInterval(ch) ==
    /\ ch # shown
    /\ shown' = ch
    /\ Ask(ch)
    /\ due' = TRUE
    /\ calm' = FALSE
    /\ UNCHANGED <<marketVars, wire, cache, drawn, first, broken>>

\* Another pair, another page: the chart is removed and created.
SelectPair(ch) ==
    /\ shown' = ch
    /\ Ask(ch)
    /\ drawn' = Created(ch)
    /\ first' = None
    /\ due' = TRUE
    /\ broken' = FALSE
    /\ calm' = FALSE
    /\ UNCHANGED <<marketVars, wire, cache>>

-----------------------------------------------------------------------------
\* KlineChartView

FirstTime(candles) == [chart |-> shown, time |-> OpenTime(candles[1])]

\* setData
SetAll(candles) ==
    /\ drawn' = [chart |-> shown, bars |-> candles]
    /\ broken' = (broken \/ ~Ascending(candles))

\* update: the last bar or a new one; an older one throws.
UpdateBar(candle) ==
    LET bars  == drawn.bars
        time  == OpenTime(candle)
    IN  \/ /\ bars # <<>> /\ time < OpenTime(Last(bars))
           /\ broken' = TRUE
           /\ UNCHANGED drawn
        \/ /\ bars # <<>> /\ time = OpenTime(Last(bars))
           /\ drawn' = [drawn EXCEPT !.bars[Len(bars)] = candle]
           /\ UNCHANGED broken
        \/ /\ bars = <<>> \/ time > OpenTime(Last(bars))
           /\ drawn' = [drawn EXCEPT !.bars = Append(bars, candle)]
           /\ UNCHANGED broken

\* Mutant: only an empty chart is a snapshot.
OnlyTheFirst(candles) == first = None
IsSnapshot(candles) == first = None \/ first # FirstTime(candles)

\* The effect on candles.  No data leave the bars where they are.
Draw ==
    /\ due /\ ~broken
    /\ due' = FALSE
    /\ LET candles == cache[shown] IN
       \/ /\ candles = <<>>
          /\ first' = None
          /\ UNCHANGED <<drawn, broken>>
       \/ /\ candles # <<>>
          /\ first' = FirstTime(candles)
          /\ IF IsSnapshot(candles) THEN SetAll(candles) ELSE UpdateBar(Last(candles))
    /\ UNCHANGED <<marketVars, wire, cache, fetch, shown, calm>>

\* The effect on chartType: a new series, drawn from scratch.
SelectType ==
    /\ ~broken
    /\ due' = FALSE
    /\ SetAll(cache[shown])
    /\ first' = IF cache[shown] = <<>> THEN None ELSE FirstTime(cache[shown])
    /\ UNCHANGED <<marketVars, wire, cache, fetch, shown, calm>>

-----------------------------------------------------------------------------
User == SelectType \/ Refetch \/ \E ch \in Charts : SelectInterval(ch) \/ SelectPair(ch)

Next ==
    \/ Tick \/ Loss \/ Reconnect
    \/ Answer \/ Land \/ FetchFails
    \/ OnMessage \/ Draw
    \/ User

Spec == Init /\ [][Next]_vars

\* The API answers or fails, the browser handles answers and messages and renders;
\* nothing is assumed of the user, the market or the connection.
FairSpec ==
    /\ Spec
    /\ WF_vars(Answer) /\ WF_vars(Land) /\ WF_vars(OnMessage) /\ WF_vars(Draw)

-----------------------------------------------------------------------------
\* Properties

Closed(candles) == SubSeq(candles, 1, Len(candles) - 1)

\* While nothing raced - the answer overtook no update and no update it missed was handled
\* first, the connection held and the chart was not left - the candles are the market's:
\* none is missing, none is there twice, every closed one is final, however often the
\* last one was patched and the oldest trimmed.
ExactUnlessRaced ==
    calm => \A i \in 1..Len(cache[shown]) - 1 :
                /\ cache[shown][i] = Final(OpenTime(cache[shown][i]))
                /\ OpenTime(cache[shown][i + 1]) = OpenTime(cache[shown][i]) + 1

\* Drawing by differences does not let the chart and the candles part: once rendered,
\* the live bar is up to date, and while nothing raced every bar is a candle of the
\* chart shown, in order, and what was trimmed is gone from the chart too.
DrawnFromCache ==
    ~broken /\ ~due /\ cache[shown] # <<>> =>
        /\ drawn.chart = shown
        /\ Ascending(drawn.bars)
        /\ Last(drawn.bars) = Last(cache[shown])
        /\ calm => Range(Times(drawn.bars)) \subseteq Range(Times(cache[shown]))

\* The series throws only after a race: an update older than the last bar.
BreaksOnlyAfterRace == [][broken' => broken \/ ~calm]_vars

\* A chart the user stays on is drawn in the end, and not the bars of the one before,
\* unless its request failed twice or the chart broke.
ChartTurns ==
    <>[][~User]_vars /\ <>[](fetch.stage # "none" \/ cache[shown] # <<>>)
        => <>[](broken \/ (drawn.chart = shown /\ drawn.bars # <<>>))

-----------------------------------------------------------------------------
\* Why it holds

\* The socket delivers in the order of the market.
WireInOrder ==
    /\ \A i \in DOMAIN wire : wire[i].at \in 1..clock
    /\ \A i, j \in DOMAIN wire : i < j => wire[i].at < wire[j].at

AnswerRead == fetch.stage = "answered" => fetch.at <= clock

\* Candle after candle, and all but the last are closed.
Contiguous(candles) ==
    \A i \in 1..Len(candles) - 1 :
        /\ candles[i] = Final(OpenTime(candles[i]))
        /\ OpenTime(candles[i + 1]) = OpenTime(candles[i]) + 1

\* What the candles lack of the market is exactly what is on its way.
CalmIsComplete ==
    calm => /\ link
            /\ cache[shown] # <<>>
            /\ OnTheWay = Last(cache[shown]) + 1 .. clock
            /\ Contiguous(cache[shown])

\* What was shown, and was read after the answer that is about to land, came over the
\* socket: whatever is still on its way is newer.
SeenBefore(at) ==
    /\ at <= clock
    /\ fetch.stage = "answered" /\ at > fetch.at => \A i \in DOMAIN wire : wire[i].at > at

CandlesSeen == \A ch \in Charts : cache[ch] # <<>> => SeenBefore(Last(cache[ch]))
BarsSeen    == drawn.bars # <<>> => SeenBefore(Last(drawn.bars))

BarsAscending == ~broken => Ascending(drawn.bars)

\* The reference that decides between setData and update is that of the bars drawn.
FirstIsDrawn ==
    first # None => /\ drawn.bars # <<>>
                    /\ first = [chart |-> drawn.chart, time |-> OpenTime(drawn.bars[1])]

DrawnIsCurrent ==
    ~due /\ ~broken /\ cache[shown] # <<>> =>
        /\ first = FirstTime(cache[shown])
        /\ Last(drawn.bars) = Last(cache[shown])

BarsNotAhead ==
    calm /\ drawn.chart = shown /\ drawn.bars # <<>> => Last(drawn.bars) <= Last(cache[shown])

IInv ==
    /\ TypeOK
    /\ WireInOrder /\ AnswerRead
    /\ CalmIsComplete
    /\ CandlesSeen /\ BarsSeen
    /\ BarsAscending /\ FirstIsDrawn /\ DrawnIsCurrent
    /\ BarsNotAhead

-----------------------------------------------------------------------------
\* What the documentation says

\* "Порядок - по возрастанию openTime": the candles the chart is given are in order.
CandlesAscending == \A ch \in Charts : Ascending(cache[ch])
=============================================================================
