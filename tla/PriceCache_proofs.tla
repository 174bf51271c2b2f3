-------------------------- MODULE PriceCache_proofs --------------------------
(***************************************************************************)
(* The bound on the age of every price handed out, for any number of       *)
(* callers, any plans and any times to live and timeouts.                  *)
(***************************************************************************)
EXTENDS PriceCache, TLAPS

\* The key a caller is at is one of the cache's.
LEMMA KeyType ==
    ASSUME TypeOK, NEW c \in Callers
    PROVE  Key(c) \in Keys
  BY PriceCacheConstants DEF TypeOK, Key

\* Going on to the next price, or ending, keeps the program counters well typed and
\* leaves nobody in flight.
LEMMA ProceedKeeps ==
    ASSUME TypeOK, NEW c \in Callers,
           \/ Proceed(c)
           \/ step' = [step EXCEPT ![c] = 1] /\ stage' = [stage EXCEPT ![c] = "idle"]
    PROVE  /\ stage' \in [Callers -> {"idle", "asks"} \cup InFlight]
           /\ step' \in [Callers -> Nat]
           /\ \A d \in Callers : step'[d] \in DOMAIN Plan[d]
           /\ stage'[c] \in {"idle", "asks"}
           /\ \A d \in Callers \ {c} : stage'[d] = stage[d]
  <1>1. ASSUME NEW d \in Callers
        PROVE  DOMAIN Plan[d] = 1..Len(Plan[d]) /\ Len(Plan[d]) \in Nat \ {0}
    <2>1. Plan[d] \in Seq(Keys) /\ Plan[d] # <<>>
      BY PriceCacheConstants
    <2>. QED  BY <2>1
  <1>2. /\ stage' \in [Callers -> {"idle", "asks"} \cup InFlight]
        /\ stage'[c] \in {"idle", "asks"}
        /\ \A d \in Callers \ {c} : stage'[d] = stage[d]
    BY DEF TypeOK, Proceed
  <1>3. step' \in [Callers -> Nat]
    <2>1. \/ step' = [step EXCEPT ![c] = step[c] + 1]
          \/ step' = [step EXCEPT ![c] = 1]
      BY DEF Proceed
    <2>2. step \in [Callers -> Nat] /\ step[c] + 1 \in Nat
      BY DEF TypeOK
    <2>. QED  BY <2>1, <2>2
  <1>4. \A d \in Callers \ {c} : step'[d] = step[d]
    BY DEF TypeOK, Proceed
  <1>5. step'[c] \in 1..Len(Plan[c])
    <2>1. step[c] \in 1..Len(Plan[c]) /\ Len(Plan[c]) \in Nat \ {0}
      BY <1>1 DEF TypeOK
    <2>2. \/ step[c] < Len(Plan[c]) /\ step'[c] = step[c] + 1
          \/ step'[c] = 1
      BY DEF TypeOK, Proceed
    <2>. QED  BY <2>1, <2>2
  <1>. QED  BY <1>1, <1>2, <1>3, <1>4, <1>5 DEF TypeOK

\* A request that ends in failure keeps the invariant.
LEMMA FailKeeps ==
    ASSUME PriceCacheConstants, IInv, NEW c \in Callers, Fail(c)
    PROVE  IInv'
  <1>1. /\ stage' \in [Callers -> {"idle", "asks"} \cup InFlight]
        /\ step' \in [Callers -> Nat]
        /\ \A d \in Callers : step'[d] \in DOMAIN Plan[d]
        /\ stage'[c] \in {"idle", "asks"}
        /\ \A d \in Callers \ {c} : stage'[d] = stage[d]
    BY ProceedKeeps DEF IInv, Fail
  <1>2. TypeOK'
    BY <1>1 DEF IInv, TypeOK, Fail, Settle
  <1>3. AgesAccounted'
    BY <1>1 DEF IInv, TypeOK, AgesAccounted, Fail, Settle, InFlight
  <1>4. PriceAgeBounded'
    BY DEF IInv, PriceAgeBounded, Fail
  <1>. QED  BY <1>2, <1>3, <1>4 DEF IInv

\* A price handed out is a natural and old as the bound allows.
LEMMA ReturnKeeps ==
    ASSUME PriceCacheConstants, IInv, NEW c \in Callers, NEW age \in Nat, Return(c, age),
           age <= Transit \/ age < Ttl[Key(c)] + Transit,
           cache' \in [Keys -> [age : Nat, quoted : Nat] \cup {None}],
           \A k \in Keys : cache'[k] # None => cache'[k].quoted <= cache'[k].age + Transit
    PROVE  IInv'
  <1>1. /\ stage' \in [Callers -> {"idle", "asks"} \cup InFlight]
        /\ step' \in [Callers -> Nat]
        /\ \A d \in Callers : step'[d] \in DOMAIN Plan[d]
        /\ stage'[c] \in {"idle", "asks"}
        /\ \A d \in Callers \ {c} : stage'[d] = stage[d]
    BY ProceedKeeps DEF IInv, Return
  <1>2. Key(c) \in Keys
    BY KeyType DEF IInv
  <1>3. /\ given' \in [Callers -> [key : Keys, quoted : Nat] \cup {None}]
        /\ given'[c] = [key |-> Key(c), quoted |-> age]
        /\ \A d \in Callers \ {c} : given'[d] = given[d]
    BY <1>2 DEF IInv, TypeOK, Return
  <1>4. TypeOK'
    BY <1>1, <1>3 DEF IInv, TypeOK, Return, Settle
  <1>5. AgesAccounted'
    BY <1>1 DEF IInv, TypeOK, AgesAccounted, Return, Settle, InFlight
  <1>6. given'[c].quoted <= Transit \/ given'[c].quoted < Ttl[given'[c].key] + Transit
    BY <1>3
  <1>7. \A d \in Callers : given'[d] # None =>
            given'[d].quoted <= Transit \/ given'[d].quoted < Ttl[given'[d].key] + Transit
    BY <1>3, <1>6 DEF IInv, PriceAgeBounded
  <1>8. PriceAgeBounded'
    BY <1>7 DEF PriceAgeBounded, Transit
  <1>. QED  BY <1>4, <1>5, <1>8 DEF IInv

\* Time: everything under way and everything stored grows older together.
LEMMA TickKeeps ==
    ASSUME PriceCacheConstants, IInv, Tick
    PROVE  IInv'
  <1>1. /\ waited' \in [Callers -> Nat]
        /\ quoted' \in [Callers -> Nat]
    BY DEF IInv, TypeOK, Tick
  <1>2. ASSUME NEW k \in Keys
        PROVE  /\ cache'[k] \in [age : Nat, quoted : Nat] \cup {None}
               /\ cache'[k] # None => cache'[k].quoted <= cache'[k].age + Transit
    <2>1. CASE cache[k] = None \/ cache[k].age > Ttl[k]
      BY <2>1 DEF Tick
    <2>2. CASE ~(cache[k] = None \/ cache[k].age > Ttl[k])
      <3>1. /\ cache[k] \in [age : Nat, quoted : Nat]
            /\ cache[k].quoted <= cache[k].age + Transit
        BY <2>2 DEF IInv, TypeOK, AgesAccounted
      <3>2. cache'[k] = [age |-> cache[k].age + 1, quoted |-> cache[k].quoted + 1]
        BY <2>2 DEF Tick
      <3>. QED  BY <3>1, <3>2, PriceCacheConstants DEF Transit
    <2>. QED  BY <2>1, <2>2
  <1>3. cache' \in [Keys -> [age : Nat, quoted : Nat] \cup {None}]
    BY <1>2 DEF Tick
  <1>4. TypeOK'
    BY <1>1, <1>3 DEF IInv, TypeOK, Tick
  <1>5. ASSUME NEW c \in Callers
        PROVE  /\ stage'[c] \notin InFlight => waited'[c] = 0 /\ quoted'[c] = 0
               /\ stage'[c] = "sent" => quoted'[c] = 0
               /\ stage'[c] \in {"sent", "quoted"} => waited'[c] <= Timeout
               /\ stage'[c] = "quoted" => quoted'[c] <= waited'[c]
               /\ stage'[c] = "body" =>
                    waited'[c] <= BodyTimeout /\ quoted'[c] <= Timeout + waited'[c]
    BY PriceCacheConstants DEF IInv, TypeOK, AgesAccounted, Tick, InFlight
  <1>6. AgesAccounted'
    BY <1>2, <1>5 DEF AgesAccounted
  <1>7. PriceAgeBounded'
    BY DEF IInv, PriceAgeBounded, Tick
  <1>. QED  BY <1>4, <1>6, <1>7 DEF IInv

\* One step of one caller.
LEMMA CallerKeeps ==
    ASSUME PriceCacheConstants, IInv, NEW c \in Callers, Call(c) \/ Service(c) \/ Binance(c)
    PROVE  IInv'
  <1>1. CASE Call(c)
    <2>1. TypeOK'
      BY <1>1 DEF IInv, TypeOK, Call
    <2>2. AgesAccounted'
      BY <1>1 DEF IInv, TypeOK, AgesAccounted, Call, InFlight
    <2>3. PriceAgeBounded'
      BY <1>1 DEF IInv, TypeOK, PriceAgeBounded, Call
    <2>. QED  BY <2>1, <2>2, <2>3 DEF IInv
  <1>2. CASE Hit(c)
    <2>1. Key(c) \in Keys
      BY KeyType DEF IInv
    <2>2. /\ cache[Key(c)] \in [age : Nat, quoted : Nat]
          /\ cache[Key(c)].age < Ttl[Key(c)]
          /\ cache[Key(c)].quoted <= cache[Key(c)].age + Transit
      BY <1>2, <2>1 DEF IInv, TypeOK, AgesAccounted, Hit, Fresh
    <2>3. cache[Key(c)].quoted < Ttl[Key(c)] + Transit
      BY <2>1, <2>2, PriceCacheConstants DEF Transit
    <2>4. /\ cache' \in [Keys -> [age : Nat, quoted : Nat] \cup {None}]
          /\ \A k \in Keys : cache'[k] # None => cache'[k].quoted <= cache'[k].age + Transit
      BY <1>2 DEF IInv, TypeOK, AgesAccounted, Hit
    <2>5. Return(c, cache[Key(c)].quoted) /\ cache[Key(c)].quoted \in Nat
      BY <1>2, <2>2 DEF Hit
    <2>. QED  BY <2>3, <2>4, <2>5, ReturnKeeps
  <1>3. CASE Miss(c)
    <2>1. TypeOK'
      BY <1>3 DEF IInv, TypeOK, Miss, InFlight
    <2>2. waited[c] = 0 /\ quoted[c] = 0
      BY <1>3 DEF IInv, AgesAccounted, Miss, InFlight
    <2>3. AgesAccounted'
      BY <1>3, <2>2, PriceCacheConstants DEF IInv, TypeOK, AgesAccounted, Miss, InFlight
    <2>4. PriceAgeBounded'
      BY <1>3 DEF IInv, PriceAgeBounded, Miss
    <2>. QED  BY <2>1, <2>3, <2>4 DEF IInv
  <1>4. CASE Quote(c)
    <2>1. TypeOK'
      BY <1>4 DEF IInv, TypeOK, Quote, InFlight
    <2>2. AgesAccounted'
      BY <1>4 DEF IInv, TypeOK, AgesAccounted, Quote, InFlight
    <2>3. PriceAgeBounded'
      BY <1>4 DEF IInv, PriceAgeBounded, Quote
    <2>. QED  BY <2>1, <2>2, <2>3 DEF IInv
  <1>5. CASE Headers(c)
    <2>1. TypeOK'
      BY <1>5 DEF IInv, TypeOK, Headers, InFlight
    <2>2. AgesAccounted'
      BY <1>5, PriceCacheConstants DEF IInv, TypeOK, AgesAccounted, Headers, InFlight
    <2>3. PriceAgeBounded'
      BY <1>5 DEF IInv, PriceAgeBounded, Headers
    <2>. QED  BY <2>1, <2>2, <2>3 DEF IInv
  <1>6. CASE Refused(c) \/ Malformed(c)
    BY <1>6, FailKeeps DEF Refused, Malformed
  <1>7. CASE Body(c)
    <2>1. /\ Key(c) \in Keys
          /\ quoted[c] \in Nat
          /\ quoted[c] <= Transit
      BY <1>7, KeyType, PriceCacheConstants
      DEF IInv, TypeOK, AgesAccounted, Body, Transit
    <2>2. cache' \in [Keys -> [age : Nat, quoted : Nat] \cup {None}]
      BY <1>7, <2>1 DEF IInv, TypeOK, Body, Stored
    <2>3. \A k \in Keys : cache'[k] # None => cache'[k].quoted <= cache'[k].age + Transit
      BY <1>7, <2>1, PriceCacheConstants
      DEF IInv, TypeOK, AgesAccounted, Body, Stored, Transit
    <2>4. Return(c, quoted[c])
      BY <1>7 DEF Body
    <2>. QED  BY <2>1, <2>2, <2>3, <2>4, ReturnKeeps
  <1>. QED  BY <1>1, <1>2, <1>3, <1>4, <1>5, <1>6, <1>7 DEF Service, Binance

\* The invariant holds of every run of the service.
THEOREM Invariance == Spec => []IInv
  <1>1. Init => IInv
    BY PriceCacheConstants
    DEF Init, IInv, TypeOK, AgesAccounted, PriceAgeBounded, InFlight
  <1>2. IInv /\ [Next]_vars => IInv'
    <2>. SUFFICES ASSUME IInv, [Next]_vars PROVE IInv'
      OBVIOUS
    <2>1. CASE Clock
      BY <2>1, TickKeeps, FailKeeps, PriceCacheConstants DEF Clock, TimesOut
    <2>2. ASSUME NEW c \in Callers, Service(c) \/ (Settled /\ (Call(c) \/ Binance(c)))
          PROVE  IInv'
      BY <2>2, CallerKeeps, PriceCacheConstants
    <2>3. CASE UNCHANGED vars
      BY <2>3 DEF vars, IInv, TypeOK, AgesAccounted, PriceAgeBounded
    <2>. QED  BY <2>1, <2>2, <2>3 DEF Next
  <1>. QED  BY <1>1, <1>2, PTL DEF Spec

\* Every price handed out was quoted within one time to live and one slow request.
THEOREM PricesRecent == Spec => []PriceAgeBounded
  <1>1. IInv => PriceAgeBounded
    BY DEF IInv
  <1>. QED  BY <1>1, Invariance, PTL
=============================================================================
