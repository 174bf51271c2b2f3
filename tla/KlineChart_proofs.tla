-------------------------- MODULE KlineChart_proofs --------------------------
(***************************************************************************)
(* Theorems about the candles and the chart drawn from them, for any       *)
(* number of charts, candles kept and updates per candle.                  *)
(***************************************************************************)
EXTENDS KlineChart, SequenceTheorems, WellFoundedInduction, TLAPS

-----------------------------------------------------------------------------
\* Candles and times

LEMMA DivBounds ==
    ASSUME NEW a \in Int, NEW d \in Nat \ {0}
    PROVE  /\ a \div d \in Int
           /\ (a \div d) * d <= a
           /\ a < (a \div d) * d + d
  OBVIOUS

LEMMA DivUnique ==
    ASSUME NEW a \in Int, NEW d \in Nat \ {0}, NEW q \in Int,
           q * d <= a, a < q * d + d
    PROVE  a \div d = q
  <1>. DEFINE p == a \div d
  <1>1. p \in Int /\ p * d <= a /\ a < p * d + d
    BY DivBounds
  <1>. HIDE DEF p
  <1>2. CASE p < q
    <2>1. p * d + d <= q * d
      BY <1>1, <1>2
    <2>. QED  BY <1>1, <2>1
  <1>3. CASE q < p
    <2>1. q * d + d <= p * d
      BY <1>1, <1>3
    <2>. QED  BY <1>1, <2>1
  <1>4. p = q
    BY <1>1, <1>2, <1>3
  <1>. QED  BY <1>4 DEF p

\* The candle a time belongs to, and the last time of a candle.
LEMMA CandleOf ==
    /\ \A at \in Int : OpenTime(at) \in Int /\ Final(at) \in Int
    /\ \A at \in Int : OpenTime(Final(at)) = at
    /\ \A a, b \in Int : a <= b => OpenTime(a) <= OpenTime(b)
  <1>1. Steps \in Nat \ {0}
    BY KlineChartConstants
  <1>2. ASSUME NEW at \in Int
        PROVE  OpenTime(at) \in Int /\ Final(at) \in Int /\ OpenTime(Final(at)) = at
    <2>1. OpenTime(at) \in Int
      BY <1>1, DivBounds DEF OpenTime
    <2>2. at * Steps \in Int
      BY <1>1
    <2>3. Final(at) \in Int /\ at * Steps <= Final(at) /\ Final(at) < at * Steps + Steps
      BY <1>1, <2>2 DEF Final
    <2>. QED  BY <1>1, <2>1, <2>3, DivUnique DEF OpenTime
  <1>3. ASSUME NEW a \in Int, NEW b \in Int, a <= b
        PROVE  OpenTime(a) <= OpenTime(b)
    <2>. DEFINE p == OpenTime(a)
                q == OpenTime(b)
    <2>1. /\ p \in Int /\ p * Steps <= a
          /\ q \in Int /\ b < q * Steps + Steps
      BY <1>1, DivBounds DEF OpenTime
    <2>. HIDE DEF p, q
    <2>2. ASSUME q < p  PROVE FALSE
      <3>1. q * Steps + Steps <= p * Steps
        BY <1>1, <2>1, <2>2
      <3>2. q * Steps \in Int /\ p * Steps \in Int
        BY <1>1, <2>1
      <3>. QED  BY <1>1, <1>3, <2>1, <3>1, <3>2
    <2>3. p <= q
      BY <2>1, <2>2
    <2>. QED  BY <2>3 DEF p, q
  <1>. QED  BY <1>2, <1>3

\* The next tick belongs to the same candle, or this one was the last of its candle.
LEMMA NextTick ==
    ASSUME NEW at \in Int, OpenTime(at + 1) # OpenTime(at)
    PROVE  at = Final(OpenTime(at)) /\ OpenTime(at + 1) = OpenTime(at) + 1
  <1>. DEFINE t == OpenTime(at)
  <1>1. Steps \in Nat \ {0} /\ t \in Int /\ t * Steps <= at /\ at < t * Steps + Steps
    BY KlineChartConstants, DivBounds DEF OpenTime
  <1>2. OpenTime(at + 1) # t
    OBVIOUS
  <1>. HIDE DEF t
  <1>3. t * Steps \in Int
    BY <1>1
  <1>4. ~ (at + 1 < t * Steps + Steps)
    BY <1>1, <1>2, <1>3, DivUnique DEF OpenTime
  <1>5. at + 1 = t * Steps + Steps
    BY <1>1, <1>3, <1>4
  <1>6. (t + 1) * Steps = t * Steps + Steps
    BY <1>1
  <1>7. OpenTime(at + 1) = t + 1
    BY <1>1, <1>3, <1>5, <1>6, DivUnique DEF OpenTime
  <1>8. at = Final(t)
    BY <1>1, <1>3, <1>5 DEF Final
  <1>. QED  BY <1>7, <1>8 DEF t

-----------------------------------------------------------------------------
\* Sequences of candles

\* What holds of every number up to a bound, if it passes from each to the next: the
\* least counterexample has a predecessor that is none.
LEMMA LeastCounterexample ==
    ASSUME NEW n \in Nat, NEW bad \in SUBSET (1..n), bad # {}
    PROVE  \E i \in bad : i - 1 \notin bad
  <1>0. bad \subseteq Nat
    OBVIOUS
  <1>1. PICK i \in bad : \A j \in bad : ~ (<<j, i>> \in OpToRel(<, Nat))
    BY <1>0, NatLessThanWellFounded, WFMin
  <1>2. ASSUME i - 1 \in bad  PROVE FALSE
    <2>1. i - 1 \in Nat /\ i \in Nat /\ i - 1 < i
      BY <1>2
    <2>. QED  BY <1>1, <1>2, <2>1 DEF OpToRel
  <1>. QED  BY <1>2

LEMMA TimesAreInt ==
    ASSUME NEW s \in Seq(Int)
    PROVE  /\ Len(s) \in Nat /\ DOMAIN s = 1..Len(s)
           /\ s # <<>> => 1 \in 1..Len(s) /\ Len(s) \in 1..Len(s) /\ Last(s) \in Int
           /\ \A k \in 1..Len(s) : s[k] \in Int /\ OpenTime(s[k]) \in Int
  <1>1. Len(s) \in Nat /\ DOMAIN s = 1..Len(s) /\ \A k \in 1..Len(s) : s[k] \in Int
    OBVIOUS
  <1>2. s # <<>> => 1 \in 1..Len(s) /\ Len(s) \in 1..Len(s)
    BY EmptySeq
  <1>3. \A k \in 1..Len(s) : OpenTime(s[k]) \in Int
    <2>. TAKE k \in 1..Len(s)
    <2>. DEFINE v == s[k]
    <2>1. v \in Int
      BY <1>1
    <2>. HIDE DEF v
    <2>2. OpenTime(v) \in Int
      BY <2>1, CandleOf
    <2>. QED  BY <2>2 DEF v
  <1>. QED  BY <1>1, <1>2, <1>3 DEF Last

\* Neighbours in order are a sequence in order.
LEMMA AscendingTimes ==
    ASSUME NEW s \in Seq(Int), Ascending(s), NEW i \in 1..Len(s), NEW j \in i..Len(s)
    PROVE  OpenTime(s[i]) <= OpenTime(s[j])
  <1>. DEFINE bad == {k \in 1..Len(s) : i <= k /\ OpenTime(s[k]) < OpenTime(s[i])}
  <1>1. Len(s) \in Nat /\ \A k \in 1..Len(s) : OpenTime(s[k]) \in Int
    BY TimesAreInt
  <1>2. ASSUME bad # {}  PROVE FALSE
    <2>0. bad \in SUBSET (1..Len(s))
      OBVIOUS
    <2>1. PICK k \in bad : k - 1 \notin bad
      <3>. HIDE DEF bad
      <3>. QED  BY <1>1, <1>2, <2>0, LeastCounterexample
    <2>2. k # i
      BY <1>1, <2>1
    <2>3. k - 1 \in i..Len(s) - 1
      BY <2>1, <2>2
    <2>4. OpenTime(s[k - 1]) < OpenTime(s[(k - 1) + 1])
      BY <2>3 DEF Ascending
    <2>5. OpenTime(s[k - 1]) < OpenTime(s[k])
      BY <2>3, <2>4
    <2>6. ~ (OpenTime(s[k - 1]) < OpenTime(s[i])) /\ OpenTime(s[k]) < OpenTime(s[i])
      BY <2>1, <2>3
    <2>7. /\ OpenTime(s[k - 1]) \in Int /\ OpenTime(s[k]) \in Int /\ OpenTime(s[i]) \in Int
      BY <1>1, <2>1, <2>3
    <2>. QED  BY <2>5, <2>6, <2>7
  <1>. QED  BY <1>1, <1>2

LEMMA ContiguousTimes ==
    ASSUME NEW s \in Seq(Int), Contiguous(s), NEW i \in 1..Len(s)
    PROVE  OpenTime(s[i]) = OpenTime(s[1]) + i - 1
  <1>. DEFINE bad == {k \in 1..Len(s) : OpenTime(s[k]) # OpenTime(s[1]) + k - 1}
  <1>1. Len(s) \in Nat /\ \A k \in 1..Len(s) : OpenTime(s[k]) \in Int
    BY TimesAreInt
  <1>2. ASSUME bad # {}  PROVE FALSE
    <2>0. bad \in SUBSET (1..Len(s))
      OBVIOUS
    <2>1. PICK k \in bad : k - 1 \notin bad
      <3>. HIDE DEF bad
      <3>. QED  BY <1>1, <1>2, <2>0, LeastCounterexample
    <2>2. k # 1
      BY <1>1, <2>1
    <2>3. k - 1 \in 1..Len(s) - 1
      BY <2>1, <2>2
    <2>4. OpenTime(s[(k - 1) + 1]) = OpenTime(s[k - 1]) + 1
      BY <2>3 DEF Contiguous
    <2>5. OpenTime(s[k]) = OpenTime(s[k - 1]) + 1
      BY <2>3, <2>4
    <2>6. OpenTime(s[k - 1]) = OpenTime(s[1]) + (k - 1) - 1
      BY <2>1, <2>3
    <2>7. OpenTime(s[1]) \in Int /\ k \in Int
      BY <1>1, <2>3
    <2>8. OpenTime(s[k]) = OpenTime(s[1]) + k - 1
      BY <2>5, <2>6, <2>7
    <2>. QED  BY <2>1, <2>8
  <1>. QED  BY <1>2

LEMMA ContiguousAscends ==
    ASSUME NEW s \in Seq(Int), Contiguous(s)
    PROVE  Ascending(s)
  <1>1. Len(s) \in Nat /\ \A k \in 1..Len(s) : OpenTime(s[k]) \in Int
    BY TimesAreInt
  <1>. QED  BY <1>1 DEF Contiguous, Ascending

\* Bars in order that begin and end with the candles are candles: the candles lack no time
\* in between.
LEMMA BarsAreCandles ==
    ASSUME NEW bars \in Seq(Int), bars # <<>>, Ascending(bars),
           NEW candles \in Seq(Int), candles # <<>>, Contiguous(candles),
           OpenTime(bars[1]) = OpenTime(candles[1]), Last(bars) = Last(candles)
    PROVE  Range(Times(bars)) \subseteq Range(Times(candles))
  <1>. SUFFICES ASSUME NEW i \in 1..Len(bars)
                PROVE  \E j \in 1..Len(candles) : OpenTime(bars[i]) = OpenTime(candles[j])
    <2>1. /\ DOMAIN Times(bars) = 1..Len(bars) /\ DOMAIN Times(candles) = 1..Len(candles)
          /\ \A i \in 1..Len(bars) : Times(bars)[i] = OpenTime(bars[i])
          /\ \A i \in 1..Len(candles) : Times(candles)[i] = OpenTime(candles[i])
      BY TimesAreInt DEF Times
    <2>. QED  BY <2>1 DEF Range
  <1>. DEFINE t == OpenTime(bars[i])
              t1 == OpenTime(candles[1])
              n == Len(candles)
  <1>1. Len(bars) \in 1..Len(bars) /\ 1 \in 1..Len(bars) /\ n \in 1..n /\ 1 \in 1..n
    BY TimesAreInt
  <1>2. t \in Int /\ t1 \in Int
    BY <1>1, TimesAreInt
  <1>3. t1 <= t /\ t <= OpenTime(Last(bars))
    BY <1>1, AscendingTimes DEF Last
  <1>4. OpenTime(Last(candles)) = t1 + n - 1
    BY <1>1, ContiguousTimes DEF Last
  <1>5. t - t1 + 1 \in 1..n
    BY <1>1, <1>2, <1>3, <1>4
  <1>6. OpenTime(candles[t - t1 + 1]) = t1 + (t - t1 + 1) - 1
    BY <1>5, ContiguousTimes
  <1>. QED  BY <1>2, <1>5, <1>6

LEMMA SnapshotIsContiguous ==
    ASSUME NEW at \in Int
    PROVE  /\ Snapshot(at) \in Seq(Int) /\ Snapshot(at) # <<>>
           /\ Len(Snapshot(at)) = Limit
           /\ Last(Snapshot(at)) = at
           /\ Contiguous(Snapshot(at))
  <1>. DEFINE s == Snapshot(at)
              t == OpenTime(at)
  <1>1. Limit \in Nat \ {0} /\ t \in Int
    BY KlineChartConstants, CandleOf
  <1>2. s \in [1..Limit -> Int]
    BY <1>1, CandleOf DEF Snapshot
  <1>3. s \in Seq(Int) /\ Len(s) = Limit /\ s # <<>>
    BY <1>1, <1>2
  <1>4. Last(s) = at
    BY <1>1, <1>3 DEF Snapshot, Last
  <1>5. ASSUME NEW i \in 1..Limit - 1
        PROVE  s[i] = Final(OpenTime(s[i])) /\ OpenTime(s[i + 1]) = OpenTime(s[i]) + 1
    <2>1. s[i] = Final(t - Limit + i)
      BY <1>1 DEF Snapshot
    <2>2. OpenTime(s[i]) = t - Limit + i
      BY <1>1, <2>1, CandleOf
    <2>3. CASE i + 1 = Limit
      <3>1. s[i + 1] = at
        BY <1>1, <2>3 DEF Snapshot
      <3>. QED  BY <1>1, <2>1, <2>2, <2>3, <3>1
    <2>4. CASE i + 1 # Limit
      <3>1. s[i + 1] = Final(t - Limit + (i + 1))
        BY <1>1, <2>4 DEF Snapshot
      <3>2. OpenTime(s[i + 1]) = t - Limit + (i + 1)
        BY <1>1, <3>1, CandleOf
      <3>. QED  BY <1>1, <2>1, <2>2, <3>2
    <2>. QED  BY <2>3, <2>4
  <1>. QED  BY <1>3, <1>4, <1>5 DEF Contiguous

\* The newest are kept, and room is left for one.
LEMMA TrimmedKeepsTheNewest ==
    ASSUME NEW old \in Seq(Int), old # <<>>, Len(old) <= MaxCandles
    PROVE  LET n == Len(Trimmed(old)) IN
           /\ Trimmed(old) \in Seq(Int)
           /\ n \in 1..MaxCandles - 1 /\ n <= Len(old)
           /\ \A i \in 1..n : Trimmed(old)[i] = old[Len(old) - n + i]
  <1>1. MaxCandles \in Nat /\ MaxCandles > 1 /\ Len(old) \in Nat \ {0}
    BY KlineChartConstants, EmptySeq
  <1>2. CASE Len(old) < MaxCandles
    <2>1. Trimmed(old) = old
      BY <1>1, <1>2 DEF Trimmed
    <2>2. \A i \in 1..Len(old) : Len(old) - Len(old) + i = i
      BY <1>1
    <2>. QED  BY <1>1, <1>2, <2>1, <2>2
  <1>3. CASE Len(old) = MaxCandles
    <2>1. Trimmed(old) = SubSeq(old, 2, Len(old))
      BY <1>1, <1>3 DEF Trimmed
    <2>2. /\ SubSeq(old, 2, Len(old)) \in Seq(Int)
          /\ Len(SubSeq(old, 2, Len(old))) = Len(old) - 1
          /\ \A i \in 1..Len(old) - 1 : SubSeq(old, 2, Len(old))[i] = old[2 + i - 1]
      <3>1. 2 \in Int /\ Len(old) \in Int /\ \A i \in 2..Len(old) : old[i] \in Int
        BY <1>1
      <3>2. Len(old) - 2 + 1 = Len(old) - 1 /\ 2 <= Len(old)
        BY <1>1, <1>3
      <3>. QED  BY <3>1, <3>2, SubSeqProperties
    <2>. QED  BY <1>1, <1>3, <2>1, <2>2
  <1>. QED  BY <1>1, <1>2, <1>3

LEMMA MergedEndsWithTheUpdate ==
    ASSUME NEW old \in Seq(Int), old # <<>>, Len(old) <= MaxCandles, NEW at \in Int
    PROVE  /\ Merged(old, at) \in Seq(Int) /\ Merged(old, at) # <<>>
           /\ Len(Merged(old, at)) <= MaxCandles
           /\ Last(Merged(old, at)) = at
  <1>1. MaxCandles \in Nat /\ Len(old) \in Nat \ {0}
    BY KlineChartConstants, EmptySeq
  <1>2. CASE OpenTime(Last(old)) = OpenTime(at)
    <2>1. Merged(old, at) = [old EXCEPT ![Len(old)] = at]
      BY <1>2 DEF Merged
    <2>. QED  BY <1>1, <2>1 DEF Last
  <1>3. CASE OpenTime(Last(old)) # OpenTime(at)
    <2>. DEFINE s == Trimmed(old)
    <2>1. Merged(old, at) = Append(s, at)
      BY <1>3 DEF Merged
    <2>2. s \in Seq(Int) /\ Len(s) \in 1..MaxCandles - 1
      BY TrimmedKeepsTheNewest
    <2>. HIDE DEF s
    <2>. QED  BY <1>1, <2>1, <2>2, AppendProperties DEF Last
  <1>. QED  BY <1>2, <1>3

\* The next tick of the market goes on where the candles end.
LEMMA MergedStaysContiguous ==
    ASSUME NEW old \in Seq(Int), old # <<>>, Len(old) <= MaxCandles, Contiguous(old)
    PROVE  Contiguous(Merged(old, Last(old) + 1))
  <1>. DEFINE at  == Last(old) + 1
              new == Merged(old, at)
  <1>1. MaxCandles \in Nat /\ Len(old) \in Nat \ {0} /\ Last(old) \in Int /\ at \in Int
    BY KlineChartConstants, EmptySeq DEF Last
  <1>2. CASE OpenTime(Last(old)) = OpenTime(at)
    <2>1. new = [old EXCEPT ![Len(old)] = at]
      BY <1>2 DEF Merged
    <2>2. Len(new) = Len(old) /\ \A i \in 1..Len(old) : new[i] = IF i = Len(old) THEN at ELSE old[i]
      BY <1>1, <2>1
    <2>. HIDE DEF new, at
    <2>. QED  BY <1>1, <1>2, <2>2 DEF Contiguous, Last, new, at
  <1>3. CASE OpenTime(Last(old)) # OpenTime(at)
    <2>. DEFINE s == Trimmed(old)
                n == Len(s)
    <2>1. new = Append(s, at)
      BY <1>3 DEF Merged
    <2>2. /\ s \in Seq(Int) /\ n \in 1..MaxCandles - 1 /\ n <= Len(old)
          /\ \A i \in 1..n : s[i] = old[Len(old) - n + i]
      BY TrimmedKeepsTheNewest
    <2>3. Last(old) = Final(OpenTime(Last(old))) /\ OpenTime(at) = OpenTime(Last(old)) + 1
      BY <1>1, <1>3, NextTick
    <2>. HIDE DEF s, at
    <2>4. Len(new) = n + 1 /\ (\A i \in 1..n : new[i] = s[i]) /\ new[n + 1] = at
      BY <1>1, <2>1, <2>2, AppendProperties
    <2>5. ASSUME NEW i \in 1..n - 1
          PROVE  new[i] = Final(OpenTime(new[i])) /\ OpenTime(new[i + 1]) = OpenTime(new[i]) + 1
      <3>. DEFINE k == Len(old) - n + i
      <3>1. k \in 1..Len(old) - 1
        BY <1>1, <2>2
      <3>2. new[i] = old[k] /\ new[i + 1] = old[k + 1]
        BY <1>1, <2>2, <2>4
      <3>. QED  BY <3>1, <3>2 DEF Contiguous
    <2>6. new[n] = Last(old)
      <3>1. n \in 1..n /\ Len(old) - n + n = Len(old)
        BY <1>1, <2>2
      <3>2. new[n] = s[n] /\ s[n] = old[Len(old) - n + n]
        BY <2>2, <2>4, <3>1
      <3>. QED  BY <3>1, <3>2 DEF Last
    <2>7. new[n] = Final(OpenTime(new[n])) /\ OpenTime(new[n + 1]) = OpenTime(new[n]) + 1
      BY <2>3, <2>4, <2>6
    <2>. HIDE DEF new
    <2>8. \A i \in 1..Len(new) - 1 : i \in 1..n - 1 \/ i = n
      BY <2>2, <2>4
    <2>9. Contiguous(new)
      BY <2>5, <2>7, <2>8 DEF Contiguous
    <2>. QED  BY <2>9 DEF new, at
  <1>. QED  BY <1>2, <1>3

-----------------------------------------------------------------------------
\* Type correctness

LEMMA NoSequence ==
    ASSUME NEW S
    PROVE  <<>> \in Seq(S) /\ Len(<<>>) = 0
  OBVIOUS

LEMMA InitType == Init => TypeOK
  <1>. SUFFICES ASSUME Init PROVE TypeOK
    OBVIOUS
  <1>1. cache \in [Charts -> Seq(Int)] /\ \A ch \in Charts : Len(cache[ch]) <= MaxCandles
    BY NoSequence, KlineChartConstants DEF Init
  <1>2. wire \in Seq([chart : Charts, at : Nat])
    BY NoSequence DEF Init
  <1>3. drawn \in [chart : Charts, bars : Seq(Int)]
    BY NoSequence DEF Init, Created
  <1>4. fetch \in [stage : Stages, left : 0..1, at : 0..MaxClock] /\ clock \in 0..MaxClock
    BY KlineChartConstants DEF Init, Asked, Stages
  <1>. QED  BY <1>1, <1>2, <1>3, <1>4 DEF Init, TypeOK

LEMMA TickType ==
    ASSUME TypeOK, Tick
    PROVE  TypeOK'
  <1>1. clock' \in 0..MaxClock
    BY KlineChartConstants DEF TypeOK, Tick
  <1>2. wire' \in Seq([chart : Charts, at : Nat])
    <2>1. [chart |-> shown, at |-> clock + 1] \in [chart : Charts, at : Nat]
      BY DEF TypeOK
    <2>. QED  BY <2>1, AppendProperties DEF TypeOK, Tick, Update
  <1>. QED  BY <1>1, <1>2 DEF TypeOK, Tick, chartVars

LEMMA QueryType ==
    ASSUME TypeOK, Answer \/ FetchFails \/ Refetch
    PROVE  TypeOK'
  <1>1. fetch' \in [stage : Stages, left : 0..1, at : 0..MaxClock]
    <2>1. NoFetch \in [stage : Stages, left : 0..1, at : 0..MaxClock]
      BY KlineChartConstants DEF NoFetch, Stages
    <2>2. Asked \in [stage : Stages, left : 0..1, at : 0..MaxClock]
      BY KlineChartConstants DEF Asked, Stages
    <2>3. CASE Answer
      BY <2>3 DEF TypeOK, Answer, Stages
    <2>4. CASE FetchFails
      <3>1. [Asked EXCEPT !.left = 0] \in [stage : Stages, left : 0..1, at : 0..MaxClock]
        BY <2>2
      <3>. QED  BY <2>1, <2>4, <3>1 DEF FetchFails
    <2>5. CASE Refetch
      BY <2>2, <2>5 DEF Refetch
    <2>. QED  BY <2>3, <2>4, <2>5
  <1>. QED  BY <1>1 DEF TypeOK, Answer, FetchFails, Refetch, chartVars, marketVars

LEMMA LandType ==
    ASSUME TypeOK, Land
    PROVE  TypeOK'
  <1>1. fetch' \in [stage : Stages, left : 0..1, at : 0..MaxClock]
    BY KlineChartConstants DEF Land, NoFetch, Stages
  <1>2. /\ Snapshot(fetch.at) \in Seq(Int)
        /\ Len(Snapshot(fetch.at)) <= MaxCandles
    <2>1. fetch.at \in Int
      BY DEF TypeOK
    <2>. QED  BY <2>1, SnapshotIsContiguous, KlineChartConstants
  <1>3. calm' \in BOOLEAN
    BY DEF Land, Undisturbed, TypeOK
  <1>. QED  BY <1>1, <1>2, <1>3 DEF TypeOK, Land, marketVars

LEMMA OnMessageType ==
    ASSUME TypeOK, OnMessage
    PROVE  TypeOK'
  <1>. DEFINE update == Head(wire)
              old    == cache[shown]
  <1>1. /\ update \in [chart : Charts, at : Nat]
        /\ wire' \in Seq([chart : Charts, at : Nat])
    BY HeadTailProperties DEF TypeOK, OnMessage
  <1>2. /\ cache' \in [Charts -> Seq(Int)] /\ due' \in BOOLEAN
        /\ \A ch \in Charts : Len(cache'[ch]) <= MaxCandles
    <2>1. CASE update.chart = shown /\ old # <<>>
      <3>1. /\ Merged(old, update.at) \in Seq(Int)
            /\ Len(Merged(old, update.at)) <= MaxCandles
        BY <1>1, <2>1, MergedEndsWithTheUpdate DEF TypeOK
      <3>. QED  BY <2>1, <3>1 DEF TypeOK, OnMessage
    <2>2. CASE ~ (update.chart = shown /\ old # <<>>)
      BY <2>2 DEF TypeOK, OnMessage
    <2>. QED  BY <2>1, <2>2
  <1>. QED  BY <1>1, <1>2 DEF TypeOK, OnMessage, marketVars

LEMMA SelectIntervalType ==
    ASSUME TypeOK, NEW ch \in Charts, SelectInterval(ch)
    PROVE  TypeOK'
  <1>1. fetch' \in [stage : Stages, left : 0..1, at : 0..MaxClock]
    BY KlineChartConstants DEF SelectInterval, Ask, Asked, NoFetch, Stages
  <1>. QED  BY <1>1 DEF TypeOK, SelectInterval, marketVars

LEMMA SelectPairType ==
    ASSUME TypeOK, NEW ch \in Charts, SelectPair(ch)
    PROVE  TypeOK'
  <1>1. fetch' \in [stage : Stages, left : 0..1, at : 0..MaxClock]
    BY KlineChartConstants DEF SelectPair, Ask, Asked, NoFetch, Stages
  <1>2. drawn' \in [chart : Charts, bars : Seq(Int)]
    BY DEF SelectPair, Created
  <1>. QED  BY <1>1, <1>2 DEF TypeOK, SelectPair, marketVars

LEMMA FirstTimeType ==
    ASSUME TypeOK, cache[shown] # <<>>
    PROVE  /\ FirstTime(cache[shown]) \in [chart : Charts, time : Int]
           /\ FirstTime(cache[shown]) # None
  <1>1. FirstTime(cache[shown]) \in [chart : Charts, time : Int]
    BY TimesAreInt DEF TypeOK, FirstTime
  <1>. QED  BY <1>1, KlineChartConstants

LEMMA UpdateBarType ==
    ASSUME TypeOK, NEW candle \in Int, UpdateBar(candle)
    PROVE  drawn' \in [chart : Charts, bars : Seq(Int)] /\ broken' \in BOOLEAN
  <1>1. drawn.bars \in Seq(Int) /\ drawn \in [chart : Charts, bars : Seq(Int)]
    BY DEF TypeOK
  <1>2. Append(drawn.bars, candle) \in Seq(Int)
    BY <1>1, AppendProperties
  <1>3. drawn.bars # <<>> => [drawn.bars EXCEPT ![Len(drawn.bars)] = candle] \in Seq(Int)
    BY <1>1, TimesAreInt, ExceptSeq
  <1>4. \/ drawn' = drawn
        \/ drawn.bars # <<>> /\ drawn' = [drawn EXCEPT !.bars[Len(drawn.bars)] = candle]
        \/ drawn' = [drawn EXCEPT !.bars = Append(drawn.bars, candle)]
    BY DEF UpdateBar
  <1>5. [drawn EXCEPT !.bars[Len(drawn.bars)] = candle]
            = [drawn EXCEPT !.bars = [drawn.bars EXCEPT ![Len(drawn.bars)] = candle]]
    BY <1>1
  <1>6. broken' \in BOOLEAN
    BY DEF UpdateBar, TypeOK
  <1>. QED  BY <1>1, <1>2, <1>3, <1>4, <1>5, <1>6

LEMMA DrawType ==
    ASSUME TypeOK, Draw \/ SelectType
    PROVE  TypeOK'
  <1>. DEFINE candles == cache[shown]
  <1>1. candles \in Seq(Int) /\ shown \in Charts
    BY DEF TypeOK
  <1>2. first' \in [chart : Charts, time : Int] \cup {None}
    BY FirstTimeType DEF Draw, SelectType
  <1>3. drawn' \in [chart : Charts, bars : Seq(Int)] /\ broken' \in BOOLEAN
    <2>1. CASE SetAll(candles)
      BY <1>1, <2>1 DEF SetAll, TypeOK
    <2>2. CASE candles # <<>> /\ UpdateBar(Last(candles))
      BY <1>1, <2>2, TimesAreInt, UpdateBarType
    <2>3. CASE UNCHANGED <<drawn, broken>>
      BY <2>3 DEF TypeOK
    <2>. QED  BY <2>1, <2>2, <2>3 DEF Draw, SelectType
  <1>. QED  BY <1>2, <1>3 DEF TypeOK, Draw, SelectType, marketVars

LEMMA NextType ==
    ASSUME TypeOK, [Next]_vars
    PROVE  TypeOK'
  <1>1. CASE Loss \/ Reconnect
    BY <1>1, NoSequence DEF TypeOK, Loss, Reconnect, chartVars
  <1>2. CASE UNCHANGED vars
    BY <1>2 DEF TypeOK, vars, marketVars, chartVars
  <1>. QED  BY <1>1, <1>2, TickType, QueryType, LandType, OnMessageType, SelectIntervalType,
               SelectPairType, DrawType DEF Next, User

-----------------------------------------------------------------------------
\* The inductive invariant, action by action

LEMMA Typed ==
    ASSUME TypeOK
    PROVE  /\ clock \in Nat /\ fetch.at \in Nat /\ shown \in Charts
           /\ wire \in Seq([chart : Charts, at : Nat])
           /\ Len(wire) \in Nat /\ DOMAIN wire = 1..Len(wire)
           /\ \A i \in 1..Len(wire) : wire[i].at \in Nat
           /\ cache \in [Charts -> Seq(Int)]
           /\ \A ch \in Charts : /\ cache[ch] \in Seq(Int) /\ Len(cache[ch]) <= MaxCandles
                                 /\ cache[ch] # <<>> => Last(cache[ch]) \in Int
           /\ drawn.bars \in Seq(Int)
           /\ drawn.bars # <<>> => Last(drawn.bars) \in Int
  <1>1. /\ \A ch \in Charts : cache[ch] \in Seq(Int) /\ Len(cache[ch]) <= MaxCandles
        /\ drawn.bars \in Seq(Int)
        /\ clock \in Nat /\ fetch.at \in Nat /\ shown \in Charts
        /\ cache \in [Charts -> Seq(Int)]
        /\ wire \in Seq([chart : Charts, at : Nat])
    BY DEF TypeOK
  <1>2. \A ch \in Charts : cache[ch] # <<>> => Last(cache[ch]) \in Int
    BY <1>1, TimesAreInt
  <1>3. drawn.bars # <<>> => Last(drawn.bars) \in Int
    BY <1>1, TimesAreInt
  <1>4. Len(wire) \in Nat /\ DOMAIN wire = 1..Len(wire) /\ \A i \in 1..Len(wire) : wire[i].at \in Nat
    <2>. DEFINE S == [chart : Charts, at : Nat]
    <2>1. \A x \in S : x.at \in Nat
      OBVIOUS
    <2>2. wire \in Seq(S)
      BY <1>1
    <2>. HIDE DEF S
    <2>3. Len(wire) \in Nat /\ DOMAIN wire = 1..Len(wire) /\ \A i \in 1..Len(wire) : wire[i] \in S
      BY <2>2
    <2>. QED  BY <2>1, <2>3
  <1>. QED  BY <1>1, <1>2, <1>3, <1>4

\* A connected chart gets the tick as the last of its updates.
LEMMA TickStep ==
    ASSUME IInv, TypeOK', Tick
    PROVE  IInv'
  <1>. USE DEF IInv
  <1>1. /\ clock \in Nat /\ clock' = clock + 1
        /\ UNCHANGED <<link, cache, fetch, shown, drawn, first, due, broken, calm>>
    BY Typed DEF Tick, chartVars
  <1>2. AnswerRead' /\ BarsAscending' /\ FirstIsDrawn' /\ DrawnIsCurrent' /\ BarsNotAhead'
    <2>1. AnswerRead'
      BY <1>1, Typed DEF AnswerRead
    <2>2. BarsAscending' /\ FirstIsDrawn'
      BY <1>1 DEF BarsAscending, FirstIsDrawn
    <2>3. DrawnIsCurrent' /\ BarsNotAhead'
      BY <1>1 DEF DrawnIsCurrent, FirstTime, BarsNotAhead
    <2>. QED  BY <2>1, <2>2, <2>3
  <1>3. CASE ~link
    <2>1. wire' = wire /\ ~calm'
      BY <1>1, <1>3 DEF Tick, CalmIsComplete
    <2>2. WireInOrder' /\ CalmIsComplete'
      BY <1>1, <2>1, Typed DEF WireInOrder, CalmIsComplete
    <2>3. CandlesSeen' /\ BarsSeen'
      BY <1>1, <2>1, Typed DEF CandlesSeen, BarsSeen, SeenBefore
    <2>. QED  BY <1>2, <2>2, <2>3
  <1>4. CASE link
    <2>. DEFINE n == Len(wire)
    <2>1. /\ n \in Nat /\ DOMAIN wire = 1..n /\ Len(wire') = n + 1 /\ DOMAIN wire' = 1..n + 1
          /\ \A i \in 1..n : wire'[i] = wire[i] /\ wire[i].at \in Nat
          /\ wire'[n + 1].chart = shown /\ wire'[n + 1].at = clock + 1
      <3>1. wire' = Append(wire, [chart |-> shown, at |-> clock + 1])
        BY <1>4 DEF Tick, Update
      <3>2. [chart |-> shown, at |-> clock + 1] \in [chart : Charts, at : Nat]
        BY Typed
      <3>. QED  BY <3>1, <3>2, Typed, AppendProperties
    <2>. HIDE DEF n
    <2>2. WireInOrder'
      BY <1>1, <2>1 DEF WireInOrder
    <2>3. \A v \in Int : SeenBefore(v) =>
            /\ v <= clock'
            /\ fetch'.stage = "answered" /\ v > fetch'.at => \A i \in DOMAIN wire' : wire'[i].at > v
      BY <1>1, <2>1 DEF SeenBefore
    <2>4. CandlesSeen' /\ BarsSeen'
      <3>1. CandlesSeen'
        BY <1>1, <2>3, Typed DEF CandlesSeen, SeenBefore
      <3>2. BarsSeen'
        BY <1>1, <2>3, Typed DEF BarsSeen, SeenBefore
      <3>. QED  BY <3>1, <3>2
    <2>5. ASSUME calm  PROVE CalmIsComplete'
      <3>1. /\ link /\ cache[shown] # <<>> /\ Contiguous(cache[shown])
            /\ OnTheWay = Last(cache[shown]) + 1 .. clock
        BY <2>5 DEF CalmIsComplete
      <3>2. Last(cache[shown]) \in Int /\ Last(cache[shown]) <= clock
        BY <3>1, Typed DEF CandlesSeen, SeenBefore
      <3>3. OnTheWay' = OnTheWay \cup {clock + 1}
        BY <1>1, <2>1 DEF OnTheWay
      <3>4. OnTheWay' = Last(cache[shown]) + 1 .. clock + 1
        BY <1>1, <3>1, <3>2, <3>3
      <3>. QED  BY <1>1, <3>1, <3>4 DEF CalmIsComplete
    <2>6. CalmIsComplete'
      BY <1>1, <2>5 DEF CalmIsComplete
    <2>. QED  BY <1>2, <2>2, <2>4, <2>6
  <1>. QED  BY <1>3, <1>4, Typed DEF TypeOK

LEMMA ConnectionStep ==
    ASSUME IInv, TypeOK', Loss \/ Reconnect
    PROVE  IInv'
  <1>. USE DEF IInv
  <1>1. /\ UNCHANGED <<clock, cache, fetch, shown, drawn, first, due, broken>>
        /\ ~calm' /\ wire' \in {wire, <<>>}
    BY DEF Loss, Reconnect, chartVars, CalmIsComplete
  <1>2. DOMAIN wire' = 1..Len(wire')
    BY Typed DEF TypeOK
  <1>3. \/ wire' = wire
        \/ DOMAIN wire' = {}
    BY <1>1
  <1>4. WireInOrder' /\ AnswerRead' /\ CalmIsComplete'
    BY <1>1, <1>3 DEF WireInOrder, AnswerRead, CalmIsComplete
  <1>5. CandlesSeen' /\ BarsSeen'
    BY <1>1, <1>3 DEF CandlesSeen, BarsSeen, SeenBefore
  <1>6. BarsAscending' /\ FirstIsDrawn' /\ DrawnIsCurrent' /\ BarsNotAhead'
    BY <1>1 DEF BarsAscending, FirstIsDrawn, DrawnIsCurrent, FirstTime, BarsNotAhead
  <1>. QED  BY <1>4, <1>5, <1>6

\* Nothing that was shown is newer than an answer read now.
LEMMA QueryStep ==
    ASSUME IInv, TypeOK', Answer \/ FetchFails \/ Refetch
    PROVE  IInv'
  <1>. USE DEF IInv
  <1>1. UNCHANGED <<clock, link, wire, cache, shown, drawn, first, due, broken, calm>>
    BY DEF Answer, FetchFails, Refetch, chartVars, marketVars
  <1>2. fetch'.stage = "answered" => fetch'.at = clock
    <2>1. CASE Answer
      BY <2>1 DEF Answer, TypeOK
    <2>2. CASE FetchFails \/ Refetch
      BY <2>2 DEF FetchFails, Refetch, Asked, NoFetch
    <2>. QED  BY <2>1, <2>2
  <1>3. AnswerRead' /\ WireInOrder'
    <2>1. AnswerRead'
      BY <1>1, <1>2, Typed DEF AnswerRead
    <2>2. WireInOrder'
      BY <1>1 DEF WireInOrder
    <2>. QED  BY <2>1, <2>2
  <1>4. CandlesSeen' /\ BarsSeen'
    <2>1. \A v \in Int : SeenBefore(v) =>
              v <= clock' /\ ~ (fetch'.stage = "answered" /\ v > fetch'.at)
      BY <1>1, <1>2, Typed DEF SeenBefore
    <2>2. CandlesSeen'
      BY <1>1, <2>1, Typed DEF CandlesSeen, SeenBefore
    <2>3. BarsSeen'
      BY <1>1, <2>1, Typed DEF BarsSeen, SeenBefore
    <2>. QED  BY <2>2, <2>3
  <1>5. CalmIsComplete'
    BY <1>1 DEF CalmIsComplete, OnTheWay
  <1>6. BarsAscending' /\ FirstIsDrawn' /\ DrawnIsCurrent' /\ BarsNotAhead'
    BY <1>1 DEF BarsAscending, FirstIsDrawn, DrawnIsCurrent, FirstTime, BarsNotAhead
  <1>. QED  BY <1>3, <1>4, <1>5, <1>6

\* If what the answer lacks is all on its way, nothing of it can have been drawn yet.
LEMMA LandStep ==
    ASSUME IInv, TypeOK', Land
    PROVE  IInv'
  <1>. USE DEF IInv
  <1>. DEFINE new == Snapshot(fetch.at)
  <1>1. /\ UNCHANGED <<clock, link, wire, shown, drawn, first, broken>>
        /\ due' /\ fetch'.stage = "none" /\ fetch.stage = "answered"
        /\ calm' = Undisturbed
    BY DEF Land, marketVars, NoFetch
  <1>2. new \in Seq(Int) /\ new # <<>> /\ Last(new) = fetch.at /\ Contiguous(new)
    <2>1. fetch.at \in Int
      BY Typed
    <2>. QED  BY <2>1, SnapshotIsContiguous
  <1>3. \A ch \in Charts : cache'[ch] = IF ch = shown THEN new ELSE cache[ch]
    BY Typed DEF Land
  <1>. HIDE DEF new
  <1>4. shown \in Charts /\ clock \in Nat /\ fetch.at \in Nat /\ fetch.at <= clock
    BY <1>1, Typed DEF AnswerRead
  <1>5. WireInOrder' /\ AnswerRead'
    BY <1>1 DEF WireInOrder, AnswerRead
  <1>6. CalmIsComplete'
    BY <1>1, <1>2, <1>3, <1>4 DEF CalmIsComplete, Undisturbed, OnTheWay
  <1>7. CandlesSeen' /\ BarsSeen'
    BY <1>1, <1>2, <1>3, <1>4 DEF CandlesSeen, BarsSeen, SeenBefore
  <1>8. BarsAscending' /\ FirstIsDrawn' /\ DrawnIsCurrent'
    BY <1>1 DEF BarsAscending, FirstIsDrawn, DrawnIsCurrent
  <1>9. BarsNotAhead'
    <2>1. ASSUME calm', drawn.bars # <<>>, Last(drawn.bars) > fetch.at  PROVE FALSE
      <3>1. /\ Last(drawn.bars) \in Int /\ Last(drawn.bars) <= clock
            /\ \A i \in DOMAIN wire : wire[i].at > Last(drawn.bars)
        BY <1>1, <2>1, Typed DEF BarsSeen, SeenBefore
      <3>2. fetch.at + 1 \in OnTheWay
        <4>1. OnTheWay = fetch.at + 1 .. clock
          BY <1>1, <2>1 DEF Undisturbed
        <4>2. fetch.at + 1 \in fetch.at + 1 .. clock
          BY <1>4, <2>1, <3>1
        <4>. QED  BY <4>1, <4>2
      <3>3. PICK i \in DOMAIN wire : wire[i].at = fetch.at + 1
        BY <3>2 DEF OnTheWay
      <3>. QED  BY <1>4, <2>1, <3>1, <3>3
    <2>. QED  BY <1>1, <1>2, <1>3, <1>4, <2>1, Typed DEF BarsNotAhead
  <1>. QED  BY <1>5, <1>6, <1>7, <1>8, <1>9

\* The head of the wire is the oldest of it: in a calm state it is the tick after the
\* last candle, if it is for the chart shown.
LEMMA OnMessageStep ==
    ASSUME IInv, TypeOK', OnMessage
    PROVE  IInv'
  <1>. USE DEF IInv
  <1>. DEFINE update == Head(wire)
              old    == cache[shown]
              n      == Len(wire) - 1
              patch  == update.chart = shown /\ old # <<>>
  <1>1. UNCHANGED <<clock, link, fetch, shown, drawn, first, broken, calm>>
    BY DEF OnMessage, marketVars
  <1>2. /\ n \in Nat /\ DOMAIN wire = 1..n + 1 /\ DOMAIN wire' = 1..n
        /\ update = wire[1] /\ \A i \in 1..n : wire'[i] = wire[i + 1]
        /\ \A i \in 1..n + 1 : wire[i].at \in Nat
    <2>1. wire # <<>> /\ wire' = Tail(wire)
      BY DEF OnMessage
    <2>. QED  BY <2>1, Typed, HeadTailProperties, TimesAreInt
  <1>3. \/ patch /\ cache' = [cache EXCEPT ![shown] = Merged(old, update.at)] /\ due'
        \/ ~patch /\ UNCHANGED <<cache, due>>
    BY DEF OnMessage
  <1>. HIDE DEF n
  <1>31. /\ \A i \in 1..n : \E k \in 2..n + 1 : k = i + 1 /\ wire'[i] = wire[k]
        /\ \A k \in 2..n + 1 : \E i \in 1..n : k = i + 1 /\ wire'[i] = wire[k]
    <2>1. ASSUME NEW i \in 1..n  PROVE i + 1 \in 2..n + 1 /\ wire'[i] = wire[i + 1]
      BY <1>2
    <2>2. ASSUME NEW k \in 2..n + 1
          PROVE  k - 1 \in 1..n /\ k = (k - 1) + 1 /\ wire'[k - 1] = wire[k]
      <3>1. k - 1 \in 1..n /\ k = (k - 1) + 1
        BY <1>2
      <3>. QED  BY <1>2, <3>1
    <2>. QED  BY <2>1, <2>2
  <1>32. \A k \in 1..n + 1 : k = 1 \/ k \in 2..n + 1
    BY <1>2
  <1>33. 1 \in 1..n + 1 /\ \A k \in 2..n + 1 : k \in 1..n + 1 /\ k > 1
    BY <1>2
  <1>4. /\ update.at \in Nat /\ update.at <= clock /\ clock \in Nat /\ shown \in Charts
        /\ \A k \in 2..n + 1 : wire[k].at > update.at
        /\ \A i \in DOMAIN wire' : wire'[i].at > update.at
    <2>1. update.at \in Nat /\ update.at <= clock /\ clock \in Nat /\ shown \in Charts
      <3>1. clock \in Nat /\ shown \in Charts
        BY Typed
      <3>2. wire[1].at \in 1..clock
        BY <1>2, <1>33 DEF WireInOrder
      <3>. QED  BY <1>2, <3>1, <3>2
    <2>2. \A k \in 2..n + 1 : wire[k].at > update.at
      BY <1>2, <1>33 DEF WireInOrder
    <2>. QED  BY <1>2, <1>31, <2>1, <2>2
  <1>5. WireInOrder' /\ AnswerRead'
    <2>1. \A i \in DOMAIN wire' : wire'[i].at \in 1..clock'
      BY <1>1, <1>2, <1>31, <1>33 DEF WireInOrder
    <2>2. ASSUME NEW i \in 1..n, NEW j \in 1..n, i < j  PROVE wire'[i].at < wire'[j].at
      <3>1. PICK k \in 2..n + 1 : k = i + 1 /\ wire'[i] = wire[k]
        BY <1>31
      <3>2. PICK l \in 2..n + 1 : l = j + 1 /\ wire'[j] = wire[l]
        BY <1>31
      <3>3. k \in DOMAIN wire /\ l \in DOMAIN wire /\ k < l
        BY <1>2, <1>33, <2>2, <3>1, <3>2
      <3>4. wire[k].at < wire[l].at
        BY <3>3 DEF WireInOrder
      <3>. QED  BY <3>1, <3>2, <3>4
    <2>3. WireInOrder'
      BY <1>2, <2>1, <2>2 DEF WireInOrder
    <2>. QED  BY <1>1, <2>3 DEF AnswerRead
  <1>6. \A v \in Int : SeenBefore(v) \/ v = update.at =>
            /\ v <= clock'
            /\ fetch'.stage = "answered" /\ v > fetch'.at => \A i \in DOMAIN wire' : wire'[i].at > v
    BY <1>1, <1>2, <1>4 DEF SeenBefore
  <1>7. BarsSeen'
    BY <1>1, <1>6, Typed DEF BarsSeen, SeenBefore
  <1>8. BarsAscending' /\ FirstIsDrawn'
    BY <1>1 DEF BarsAscending, FirstIsDrawn
  <1>9. OnTheWay' = IF update.chart = shown THEN OnTheWay \ {update.at} ELSE OnTheWay
    <2>1. ASSUME NEW x  PROVE x \in OnTheWay <=> \E k \in 1..n + 1 : wire[k].chart = shown /\ x = wire[k].at
      BY <1>2 DEF OnTheWay
    <2>2. ASSUME NEW x  PROVE x \in OnTheWay' <=> \E i \in 1..n : wire'[i].chart = shown /\ x = wire'[i].at
      BY <1>1, <1>2 DEF OnTheWay
    <2>3. ASSUME NEW x  PROVE x \in OnTheWay' <=> \E k \in 2..n + 1 : wire[k].chart = shown /\ x = wire[k].at
      BY <1>31, <2>2
    <2>6. ASSUME NEW x  PROVE x \in OnTheWay <=> x \in OnTheWay' \/ (update.chart = shown /\ x = update.at)
      BY <1>2, <1>32, <1>33, <2>1, <2>3
    <2>7. update.at \notin OnTheWay'
      BY <1>4, <2>3
    <2>8. CASE update.chart = shown
      BY <2>6, <2>7, <2>8
    <2>9. CASE update.chart # shown
      BY <2>6, <2>9
    <2>. QED  BY <2>8, <2>9
  <1>10. CASE ~patch
    <2>1. UNCHANGED <<cache, due>>
      BY <1>3, <1>10
    <2>2. CandlesSeen'
      BY <1>1, <1>6, <2>1, Typed DEF CandlesSeen, SeenBefore
    <2>3. DrawnIsCurrent' /\ BarsNotAhead'
      BY <1>1, <2>1 DEF DrawnIsCurrent, FirstTime, BarsNotAhead
    <2>4. CalmIsComplete'
      BY <1>1, <1>9, <1>10, <2>1 DEF CalmIsComplete
    <2>. QED  BY <1>5, <1>7, <1>8, <2>2, <2>3, <2>4
  <1>11. CASE patch
    <2>. DEFINE new == Merged(old, update.at)
    <2>1. due' /\ cache' = [cache EXCEPT ![shown] = new] /\ old # <<>> /\ update.chart = shown
      BY <1>3, <1>11
    <2>2. \A ch \in Charts : cache'[ch] = IF ch = shown THEN new ELSE cache[ch]
      BY <2>1, Typed
    <2>3. /\ old \in Seq(Int) /\ Len(old) <= MaxCandles /\ Last(old) \in Int
          /\ new \in Seq(Int) /\ new # <<>> /\ Last(new) = update.at
      <3>1. old \in Seq(Int) /\ Len(old) <= MaxCandles /\ Last(old) \in Int
        BY <2>1, Typed
      <3>2. update.at \in Int
        BY <1>4
      <3>. QED  BY <2>1, <3>1, <3>2, MergedEndsWithTheUpdate
    <2>. HIDE DEF new
    <2>4. CandlesSeen'
      BY <1>1, <1>4, <1>6, <2>2, <2>3, Typed DEF CandlesSeen, SeenBefore
    <2>5. DrawnIsCurrent'
      BY <2>1 DEF DrawnIsCurrent
    <2>6. ASSUME calm
          PROVE  update.at = Last(old) + 1 /\ link /\ OnTheWay = Last(old) + 1 .. clock /\ Contiguous(old)
      <3>1. link /\ OnTheWay = Last(old) + 1 .. clock /\ Contiguous(old)
        BY <2>6 DEF CalmIsComplete
      <3>2. update.at \in OnTheWay
        BY <1>2, <2>1 DEF OnTheWay
      <3>3. Last(old) + 1 \in OnTheWay
        BY <1>4, <2>3, <3>1, <3>2
      <3>4. PICK i \in DOMAIN wire : wire[i].at = Last(old) + 1
        BY <3>3 DEF OnTheWay
      <3>5. update.at <= wire[i].at
        BY <1>2, <1>4 DEF WireInOrder
      <3>. QED  BY <1>4, <2>3, <3>1, <3>2, <3>4, <3>5
    <2>7. CalmIsComplete'
      <3>1. ASSUME calm  PROVE /\ link /\ Contiguous(new) /\ OnTheWay' = Last(new) + 1 .. clock
        <4>1. Contiguous(new)
          BY <2>1, <2>3, <2>6, <3>1, MergedStaysContiguous DEF new
        <4>2. OnTheWay' = (Last(old) + 1 .. clock) \ {Last(old) + 1}
          BY <1>9, <2>1, <2>6, <3>1
        <4>3. OnTheWay' = Last(old) + 2 .. clock
          BY <1>4, <2>3, <4>2
        <4>4. Last(new) + 1 = Last(old) + 2
          BY <2>3, <2>6, <3>1
        <4>. QED  BY <2>6, <3>1, <4>1, <4>3, <4>4
      <3>. QED  BY <1>1, <1>4, <2>2, <2>3, <3>1 DEF CalmIsComplete
    <2>8. BarsNotAhead'
      BY <1>1, <1>4, <2>2, <2>3, <2>6, Typed DEF BarsNotAhead
    <2>. QED  BY <1>5, <1>7, <1>8, <2>4, <2>5, <2>7, <2>8
  <1>. QED  BY <1>10, <1>11

LEMMA SelectIntervalStep ==
    ASSUME IInv, TypeOK', NEW ch \in Charts, SelectInterval(ch)
    PROVE  IInv'
  <1>. USE DEF IInv
  <1>1. /\ UNCHANGED <<clock, link, wire, cache, drawn, first, broken>>
        /\ due' /\ ~calm' /\ fetch'.stage # "answered"
    BY DEF SelectInterval, Ask, Asked, NoFetch, marketVars
  <1>2. WireInOrder' /\ AnswerRead' /\ CalmIsComplete'
    BY <1>1 DEF WireInOrder, AnswerRead, CalmIsComplete
  <1>3. CandlesSeen' /\ BarsSeen'
    BY <1>1 DEF CandlesSeen, BarsSeen, SeenBefore
  <1>4. BarsAscending' /\ FirstIsDrawn' /\ DrawnIsCurrent' /\ BarsNotAhead'
    BY <1>1 DEF BarsAscending, FirstIsDrawn, DrawnIsCurrent, BarsNotAhead
  <1>. QED  BY <1>2, <1>3, <1>4

LEMMA SelectPairStep ==
    ASSUME IInv, TypeOK', NEW ch \in Charts, SelectPair(ch)
    PROVE  IInv'
  <1>. USE DEF IInv
  <1>1. /\ UNCHANGED <<clock, link, wire, cache>>
        /\ due' /\ ~calm' /\ fetch'.stage # "answered"
        /\ first' = None /\ drawn'.bars = <<>>
    BY DEF SelectPair, Ask, Asked, NoFetch, marketVars, Created
  <1>2. WireInOrder' /\ AnswerRead' /\ CalmIsComplete'
    BY <1>1 DEF WireInOrder, AnswerRead, CalmIsComplete
  <1>3. CandlesSeen' /\ BarsSeen'
    BY <1>1 DEF CandlesSeen, BarsSeen, SeenBefore
  <1>4. BarsAscending'
    BY <1>1, NoSequence DEF BarsAscending, Ascending
  <1>5. FirstIsDrawn' /\ DrawnIsCurrent' /\ BarsNotAhead'
    BY <1>1 DEF FirstIsDrawn, DrawnIsCurrent, BarsNotAhead
  <1>. QED  BY <1>2, <1>3, <1>4, <1>5

\* What no rendering touches.
LEMMA RenderKeeps ==
    ASSUME IInv, Draw \/ SelectType
    PROVE  /\ UNCHANGED <<clock, link, wire, cache, fetch, shown, calm>>
           /\ ~broken /\ ~due'
           /\ WireInOrder' /\ AnswerRead' /\ CalmIsComplete' /\ CandlesSeen'
  <1>. USE DEF IInv
  <1>1. UNCHANGED <<clock, link, wire, cache, fetch, shown, calm>> /\ ~broken /\ ~due'
    BY DEF Draw, SelectType, marketVars
  <1>2. WireInOrder' /\ AnswerRead' /\ CalmIsComplete'
    BY <1>1 DEF WireInOrder, AnswerRead, CalmIsComplete, OnTheWay
  <1>3. CandlesSeen'
    BY <1>1 DEF CandlesSeen, SeenBefore
  <1>. QED  BY <1>1, <1>2, <1>3

\* The whole of the candles is drawn.
LEMMA SetAllStep ==
    ASSUME IInv, TypeOK', Draw \/ SelectType, SetAll(cache[shown]),
           first' = IF cache[shown] = <<>> THEN None ELSE FirstTime(cache[shown])
    PROVE  IInv'
  <1>. USE DEF IInv
  <1>. DEFINE candles == cache[shown]
  <1>1. /\ UNCHANGED <<clock, link, wire, cache, fetch, shown, calm>>
        /\ ~broken /\ ~due'
        /\ WireInOrder' /\ AnswerRead' /\ CalmIsComplete' /\ CandlesSeen'
    BY RenderKeeps
  <1>2. /\ drawn'.chart = shown /\ drawn'.bars = candles
        /\ broken' = ~Ascending(candles)
    BY <1>1 DEF SetAll
  <1>3. candles \in Seq(Int) /\ shown \in Charts
    BY Typed
  <1>4. BarsSeen'
    BY <1>1, <1>2, <1>3 DEF CandlesSeen, BarsSeen, SeenBefore
  <1>5. BarsAscending'
    BY <1>2 DEF BarsAscending
  <1>6. FirstIsDrawn'
    BY <1>2 DEF FirstIsDrawn, FirstTime
  <1>7. DrawnIsCurrent'
    BY <1>1, <1>2 DEF DrawnIsCurrent, FirstTime
  <1>8. BarsNotAhead'
    <2>1. drawn'.bars # <<>> => Last(candles) \in Int
      BY <1>2, <1>3, TimesAreInt
    <2>. QED  BY <1>1, <1>2, <2>1 DEF BarsNotAhead
  <1>. QED  BY <1>1, <1>4, <1>5, <1>6, <1>7, <1>8

\* What a drawing by differences starts from: the chart shown, its first bar the first
\* candle.
LEMMA BeforeUpdateBar ==
    ASSUME IInv, cache[shown] # <<>>, ~IsSnapshot(cache[shown])
    PROVE  /\ first = FirstTime(cache[shown])
           /\ drawn.bars # <<>> /\ drawn.chart = shown
           /\ OpenTime(drawn.bars[1]) = OpenTime(cache[shown][1])
  <1>1. first = FirstTime(cache[shown]) /\ first # None
    BY DEF IsSnapshot
  <1>2. first = [chart |-> drawn.chart, time |-> OpenTime(drawn.bars[1])] /\ drawn.bars # <<>>
    BY <1>1 DEF IInv, FirstIsDrawn
  <1>. QED  BY <1>1, <1>2 DEF FirstTime

\* The last bar or one behind it, or else the series has thrown and keeps its bars.
LEMMA UpdateBarResult ==
    ASSUME TypeOK, TypeOK', drawn.bars # <<>>, NEW candle \in Int, UpdateBar(candle)
    PROVE  /\ drawn'.chart = drawn.chart
           /\ \/ /\ broken' /\ drawn' = drawn
                 /\ OpenTime(candle) < OpenTime(Last(drawn.bars))
              \/ /\ broken' = broken
                 /\ drawn'.bars # <<>> /\ Last(drawn'.bars) = candle
                 /\ OpenTime(drawn'.bars[1]) = OpenTime(drawn.bars[1])
                 /\ Ascending(drawn.bars) => Ascending(drawn'.bars)
  <1>. DEFINE bars == drawn.bars
              n    == Len(bars)
              new  == drawn'.bars
  <1>1. bars \in Seq(Int) /\ n \in Nat \ {0} /\ 1 \in 1..n
    BY TimesAreInt DEF TypeOK
  <1>2. drawn \in [chart : Charts, bars : Seq(Int)]
    BY DEF TypeOK
  <1>3. CASE OpenTime(candle) < OpenTime(Last(bars)) /\ broken' = TRUE /\ drawn' = drawn
    BY <1>3
  <1>4. CASE /\ OpenTime(candle) = OpenTime(Last(bars)) /\ broken' = broken
             /\ drawn' = [drawn EXCEPT !.bars[Len(bars)] = candle]
    <2>1. new = [bars EXCEPT ![n] = candle] /\ drawn'.chart = drawn.chart
      BY <1>2, <1>4
    <2>. HIDE DEF new, bars
    <2>2. /\ new \in Seq(Int) /\ Len(new) = n
          /\ \A i \in 1..n : new[i] = IF i = n THEN candle ELSE bars[i]
      BY <1>1, <2>1
    <2>3. new # <<>> /\ Last(new) = candle
      BY <1>1, <2>2 DEF Last
    <2>4. \A i \in 1..n : OpenTime(new[i]) = OpenTime(bars[i])
      BY <1>1, <1>4, <2>2 DEF Last, bars
    <2>5. Ascending(bars) => Ascending(new)
      BY <1>1, <2>2, <2>4 DEF Ascending
    <2>. QED  BY <1>1, <1>4, <2>1, <2>3, <2>4, <2>5 DEF new, bars
  <1>5. CASE /\ OpenTime(candle) > OpenTime(Last(bars)) /\ broken' = broken
             /\ drawn' = [drawn EXCEPT !.bars = Append(bars, candle)]
    <2>1. new = Append(bars, candle) /\ drawn'.chart = drawn.chart
      BY <1>2, <1>5
    <2>2. OpenTime(candle) > OpenTime(bars[n])
      BY <1>5 DEF Last
    <2>. HIDE DEF new, bars
    <2>3. /\ new \in Seq(Int) /\ Len(new) = n + 1 /\ new # <<>>
          /\ \A i \in 1..n : new[i] = bars[i]
          /\ new[n + 1] = candle
      BY <1>1, <2>1, AppendProperties
    <2>4. Last(new) = candle /\ new[1] = bars[1]
      BY <1>1, <2>3 DEF Last
    <2>5. ASSUME Ascending(bars)  PROVE Ascending(new)
      <3>1. ASSUME NEW i \in 1..n, i # n  PROVE OpenTime(new[i]) < OpenTime(new[i + 1])
        <4>1. i \in 1..n - 1 /\ i + 1 \in 1..n
          BY <1>1, <3>1
        <4>. QED  BY <2>3, <2>5, <4>1 DEF Ascending
      <3>2. OpenTime(new[n]) < OpenTime(new[n + 1])
        <4>1. OpenTime(bars[n]) \in Int /\ OpenTime(candle) \in Int /\ n \in 1..n
          BY <1>1, TimesAreInt, CandleOf
        <4>. QED  BY <2>2, <2>3, <4>1
      <3>. QED  BY <1>1, <2>3, <3>1, <3>2 DEF Ascending
    <2>. QED  BY <1>5, <2>1, <2>3, <2>4, <2>5 DEF new, bars
  <1>. QED  BY <1>3, <1>4, <1>5 DEF UpdateBar

LEMMA UpdateBarStep ==
    ASSUME IInv, TypeOK', Draw, cache[shown] # <<>>, ~IsSnapshot(cache[shown])
    PROVE  IInv'
  <1>. USE DEF IInv
  <1>. DEFINE candles == cache[shown]
              candle  == Last(candles)
  <1>1. /\ UNCHANGED <<clock, link, wire, cache, fetch, shown, calm>>
        /\ ~broken /\ ~due'
        /\ WireInOrder' /\ AnswerRead' /\ CalmIsComplete' /\ CandlesSeen'
    BY RenderKeeps
  <1>2. first' = FirstTime(candles) /\ UpdateBar(candle)
    BY DEF Draw
  <1>3. candle \in Int /\ shown \in Charts
    BY Typed
  <1>4. /\ first = FirstTime(candles) /\ first' = first
        /\ drawn.bars # <<>> /\ drawn.chart = shown
        /\ OpenTime(drawn.bars[1]) = OpenTime(candles[1])
        /\ first = [chart |-> drawn.chart, time |-> OpenTime(drawn.bars[1])]
    BY <1>2, BeforeUpdateBar DEF FirstTime
  <1>5. /\ drawn'.chart = drawn.chart
        /\ \/ broken' /\ drawn' = drawn
           \/ /\ broken' = broken
              /\ drawn'.bars # <<>> /\ Last(drawn'.bars) = candle
              /\ OpenTime(drawn'.bars[1]) = OpenTime(drawn.bars[1])
              /\ Ascending(drawn.bars) => Ascending(drawn'.bars)
    BY <1>2, <1>3, <1>4, UpdateBarResult
  <1>. HIDE DEF candle
  <1>6. CASE broken' /\ drawn' = drawn
    <2>1. BarsSeen' /\ BarsNotAhead'
      BY <1>1, <1>6 DEF BarsSeen, SeenBefore, BarsNotAhead
    <2>2. BarsAscending' /\ FirstIsDrawn' /\ DrawnIsCurrent'
      BY <1>4, <1>6 DEF BarsAscending, FirstIsDrawn, DrawnIsCurrent
    <2>. QED  BY <1>1, <2>1, <2>2
  <1>7. CASE /\ broken' = broken
             /\ drawn'.bars # <<>> /\ Last(drawn'.bars) = candle
             /\ OpenTime(drawn'.bars[1]) = OpenTime(drawn.bars[1])
             /\ Ascending(drawn.bars) => Ascending(drawn'.bars)
    <2>1. BarsSeen'
      BY <1>1, <1>3, <1>7 DEF BarsSeen, CandlesSeen, SeenBefore, candle
    <2>2. BarsNotAhead'
      BY <1>1, <1>3, <1>7 DEF BarsNotAhead, candle
    <2>3. BarsAscending'
      BY <1>1, <1>7 DEF BarsAscending
    <2>4. FirstIsDrawn'
      BY <1>4, <1>5, <1>7 DEF FirstIsDrawn
    <2>5. DrawnIsCurrent'
      BY <1>1, <1>2, <1>7 DEF DrawnIsCurrent, FirstTime, candle
    <2>. QED  BY <1>1, <2>1, <2>2, <2>3, <2>4, <2>5
  <1>. QED  BY <1>5, <1>6, <1>7

LEMMA DrawStep ==
    ASSUME IInv, TypeOK', Draw \/ SelectType
    PROVE  IInv'
  <1>. USE DEF IInv
  <1>. DEFINE candles == cache[shown]
  <1>1. CASE SelectType
    BY <1>1, SetAllStep DEF SelectType
  <1>2. CASE Draw /\ candles # <<>> /\ IsSnapshot(candles)
    BY <1>2, SetAllStep DEF Draw
  <1>3. CASE Draw /\ candles # <<>> /\ ~IsSnapshot(candles)
    BY <1>3, UpdateBarStep
  <1>4. CASE Draw /\ candles = <<>>
    <2>1. /\ UNCHANGED <<clock, link, wire, cache, fetch, shown, calm, drawn, broken>>
          /\ first' = None
          /\ WireInOrder' /\ AnswerRead' /\ CalmIsComplete' /\ CandlesSeen'
      BY <1>4, RenderKeeps DEF Draw
    <2>2. BarsSeen' /\ BarsNotAhead'
      BY <2>1 DEF BarsSeen, SeenBefore, BarsNotAhead
    <2>3. BarsAscending' /\ FirstIsDrawn' /\ DrawnIsCurrent'
      BY <1>4, <2>1 DEF BarsAscending, FirstIsDrawn, DrawnIsCurrent
    <2>. QED  BY <2>1, <2>2, <2>3
  <1>. QED  BY <1>1, <1>2, <1>3, <1>4

LEMMA InitInvariant == Init => IInv
  <1>. SUFFICES ASSUME Init PROVE IInv
    OBVIOUS
  <1>1. TypeOK
    BY InitType
  <1>2. /\ DOMAIN wire = {} /\ fetch.stage = "asked" /\ ~calm /\ first = None
        /\ drawn.bars = <<>>
        /\ \A ch \in Charts : cache[ch] = <<>>
        /\ cache[shown] = <<>>
    BY DEF Init, Asked, Created
  <1>3. WireInOrder /\ AnswerRead /\ CalmIsComplete
    BY <1>2 DEF WireInOrder, AnswerRead, CalmIsComplete
  <1>4. CandlesSeen /\ BarsSeen /\ BarsNotAhead /\ FirstIsDrawn /\ DrawnIsCurrent
    BY <1>2 DEF CandlesSeen, BarsSeen, BarsNotAhead, FirstIsDrawn, DrawnIsCurrent
  <1>5. BarsAscending
    BY <1>2, NoSequence DEF BarsAscending, Ascending
  <1>. QED  BY <1>1, <1>3, <1>4, <1>5 DEF IInv

LEMMA NextInvariant == IInv /\ [Next]_vars => IInv'
  <1>. SUFFICES ASSUME IInv, [Next]_vars PROVE IInv'
    OBVIOUS
  <1>1. TypeOK'
    BY NextType DEF IInv
  <1>2. CASE UNCHANGED vars
    <2>1. UNCHANGED <<clock, link, wire, cache, fetch, shown, drawn, first, due, broken, calm>>
      BY <1>2 DEF vars, marketVars, chartVars
    <2>2. WireInOrder' /\ AnswerRead' /\ CalmIsComplete' /\ CandlesSeen' /\ BarsSeen'
      BY <2>1 DEF IInv, WireInOrder, AnswerRead, CalmIsComplete, OnTheWay, CandlesSeen,
                  BarsSeen, SeenBefore
    <2>3. BarsAscending' /\ FirstIsDrawn' /\ DrawnIsCurrent' /\ BarsNotAhead'
      BY <2>1 DEF IInv, BarsAscending, FirstIsDrawn, DrawnIsCurrent, FirstTime, BarsNotAhead
    <2>. QED  BY <1>1, <2>2, <2>3 DEF IInv
  <1>. QED  BY <1>1, <1>2, TickStep, ConnectionStep, QueryStep, LandStep, OnMessageStep,
               DrawStep, SelectIntervalStep, SelectPairStep DEF Next, User

\* The invariant the theorems below rest on: what the candles lack is on its way, what
\* was shown is older than what is on its way, and the bars are those of the reference
\* that decides between setData and update.
THEOREM Invariance == Spec => []IInv
  BY InitInvariant, NextInvariant, PTL DEF Spec

\* While nothing raced, the candles in the cache are the market's: none missing, none
\* twice, all closed but the last, for any number kept and any number of updates.
THEOREM Exact == Spec => []ExactUnlessRaced
  <1>1. IInv => ExactUnlessRaced
    BY DEF IInv, CalmIsComplete, Contiguous, ExactUnlessRaced
  <1>. QED  BY <1>1, Invariance, PTL

\* Once rendered, the chart shows the pair and interval chosen, in order, with the live
\* bar of the cache; and every bar is a candle of the cache while nothing raced.
THEOREM Drawn == Spec => []DrawnFromCache
  <1>1. ASSUME IInv  PROVE DrawnFromCache
    <2>. SUFFICES ASSUME ~broken, ~due, cache[shown] # <<>>
                  PROVE  /\ drawn.chart = shown
                         /\ Ascending(drawn.bars)
                         /\ Last(drawn.bars) = Last(cache[shown])
                         /\ calm => Range(Times(drawn.bars)) \subseteq Range(Times(cache[shown]))
      BY DEF DrawnFromCache
    <2>1. /\ cache[shown] \in Seq(Int) /\ drawn.bars \in Seq(Int)
          /\ first = FirstTime(cache[shown]) /\ first # None
      BY <1>1, Typed, FirstTimeType DEF IInv, DrawnIsCurrent
    <2>2. /\ drawn.bars # <<>> /\ drawn.chart = shown
          /\ OpenTime(drawn.bars[1]) = OpenTime(cache[shown][1])
      BY <1>1, <2>1 DEF IInv, FirstIsDrawn, FirstTime
    <2>3. Ascending(drawn.bars) /\ Last(drawn.bars) = Last(cache[shown])
      BY <1>1 DEF IInv, BarsAscending, DrawnIsCurrent
    <2>4. calm => Contiguous(cache[shown])
      BY <1>1 DEF IInv, CalmIsComplete
    <2>. QED  BY <2>1, <2>2, <2>3, <2>4, BarsAreCandles
  <1>. QED  BY <1>1, Invariance, PTL

\* No update older than the last bar reaches the chart, and no candles out of order,
\* unless the stream and an answer raced.
THEOREM BreaksLate == Spec => BreaksOnlyAfterRace
  <1>1. ASSUME IInv, IInv', [Next]_vars, broken', ~broken, calm  PROVE FALSE
    <2>. DEFINE candles == cache[shown]
    <2>1. /\ candles # <<>> /\ candles \in Seq(Int) /\ Last(candles) \in Int
          /\ Ascending(candles)
      BY <1>1, Typed, ContiguousAscends DEF IInv, CalmIsComplete
    <2>2. ~ SetAll(candles)
      BY <1>1, <2>1 DEF SetAll
    <2>3. Draw /\ UpdateBar(Last(candles)) /\ ~IsSnapshot(candles)
      BY <1>1, <2>1, <2>2
         DEF Next, User, Tick, Loss, Reconnect, Answer, Land, FetchFails, OnMessage, Draw,
             SelectType, Refetch, SelectInterval, SelectPair, vars, chartVars, marketVars
    <2>4. drawn.bars # <<>> /\ drawn.chart = shown
      BY <1>1, <2>1, <2>3, BeforeUpdateBar
    <2>5. Last(drawn.bars) \in Int /\ Last(drawn.bars) <= Last(candles)
      BY <1>1, <2>4, Typed DEF IInv, BarsNotAhead
    <2>6. OpenTime(Last(drawn.bars)) <= OpenTime(Last(candles))
      BY <2>1, <2>5, CandleOf
    <2>7. OpenTime(Last(candles)) < OpenTime(Last(drawn.bars))
      BY <1>1, <2>1, <2>3, <2>4, UpdateBarResult DEF IInv
    <2>. QED  BY <2>1, <2>5, <2>6, <2>7, CandleOf
  <1>2. IInv /\ IInv' /\ [Next]_vars => [broken' => broken \/ ~calm]_vars
    BY <1>1
  <1>. QED  BY <1>2, Invariance, PTL DEF Spec, BreaksOnlyAfterRace
=============================================================================
