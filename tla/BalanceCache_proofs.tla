------------------------- MODULE BalanceCache_proofs -------------------------
(***************************************************************************)
(* Theorems about BalanceCache, for any number of orders, of dialogs that  *)
(* reset the account, and of accounts.                                     *)
(***************************************************************************)
EXTENDS BalanceCache, TLAPS

LEMMA Types ==
    ASSUME TypeOK
    PROVE  /\ MaxAccounts \in Nat /\ born \in Nat /\ born <= MaxAccounts
           /\ \A a \in 0..MaxAccounts : Truth(a) \in Maps /\ Truth(a).account = a
           /\ \A map \in Maps : map.account \in Nat /\ map # None
           /\ None \notin live
  <1>1. MaxAccounts \in Nat /\ born \in Nat /\ born <= MaxAccounts
    BY BalanceCacheConstants DEF TypeOK
  <1>2. \A a \in 0..MaxAccounts : Truth(a) \in Maps /\ Truth(a).account = a
    BY DEF Truth, Maps
  <1>3. \A map \in Maps : map.account \in Nat /\ map # None
    <2>1. \A n \in 0..MaxAccounts : n \in Nat
      BY <1>1
    <2>2. Maps \subseteq [account : Nat, known : SUBSET Orders, guessed : SUBSET Orders]
      BY <2>1 DEF Maps
    <2>. QED  BY <2>2, BalanceCacheConstants
  <1>4. None \notin live
    <2>1. \A n \in 0..born : n \in Nat
      BY <1>1
    <2>. QED  BY <2>1, BalanceCacheConstants DEF TypeOK
  <1>. QED  BY <1>1, <1>2, <1>3, <1>4

\* What a step may do to the accounts: delete some, and open the next one.
Opens ==
    /\ born' \in {born, born + 1}
    /\ born' <= MaxAccounts
    /\ \A a \in live' : a \in live \/ (a = born + 1 /\ born' = born + 1)

\* Maps of the past stay so, and none is of the account that is opened.
LEMMA AccountsGrow ==
    ASSUME TypeOK, Opens
    PROVE  /\ born' \in 0..MaxAccounts
           /\ live' \subseteq 0..born'
           /\ \A a \in 0..born : a \in 0..born'
           /\ \A map : Past(map) => Past(map)'
           /\ \A map : Past(map) /\ map.account \in live' => map.account \in live
  <1>1. /\ MaxAccounts \in Nat /\ born \in Nat /\ born' \in Nat
        /\ born <= born' /\ born' <= MaxAccounts /\ live \subseteq 0..born
    BY Types DEF Opens, TypeOK
  <1>2. born' \in 0..MaxAccounts
    BY <1>1
  <1>3. \A a \in 0..born : a \in 0..born'
    BY <1>1
  <1>4. live' \subseteq 0..born'
    <2>. SUFFICES ASSUME NEW a \in live' PROVE a \in 0..born'
      OBVIOUS
    <2>1. born' \in 0..born'
      BY <1>1
    <2>. QED  BY <1>1, <1>3, <2>1 DEF Opens
  <1>5. \A map : Past(map) => map \in Maps /\ map.account \in Nat /\ map.account <= born
    BY Types DEF Past
  <1>6. \A map : Past(map) => Past(map)'
    <2>. SUFFICES ASSUME NEW map, Past(map) PROVE Past(map)'
      OBVIOUS
    <2>1. map.account <= born'
      BY <1>1, <1>5
    <2>. QED  BY <1>5, <2>1 DEF Past
  <1>7. \A map : Past(map) /\ map.account \in live' => map.account \in live
    <2>. SUFFICES ASSUME NEW map, Past(map), map.account \in live'
                  PROVE  map.account \in live
      OBVIOUS
    <2>1. map.account # born + 1
      BY <1>1, <1>5
    <2>. QED  BY <2>1 DEF Opens
  <1>. QED  BY <1>2, <1>3, <1>4, <1>6, <1>7

\* Whatever cookie a request carries, the middleware serves it for an account that exists.
LEMMA Admission ==
    ASSUME TypeOK, NEW c, Admit(c)
    PROVE  /\ Opens
           /\ Account(c) \in 0..born' /\ Account(c) \in 0..MaxAccounts
           /\ SetCookie(c) \in 0..born' \cup {None}
           /\ Truth(Account(c)) \in Maps /\ Truth(Account(c)).account = Account(c)
           /\ Account(c) <= born'
  <1>1. MaxAccounts \in Nat /\ born \in Nat /\ born <= MaxAccounts /\ live \subseteq 0..born
    BY Types DEF TypeOK
  <1>2. CASE c \in live
    <2>1. Account(c) = c /\ SetCookie(c) = None /\ born' = born /\ live' = live \cup {c}
      BY <1>2 DEF Admit, Account, SetCookie
    <2>2. c \in 0..born
      BY <1>1, <1>2
    <2>3. c \in 0..MaxAccounts /\ c <= born
      BY <1>1, <2>2
    <2>. QED  BY <1>1, <1>2, <2>1, <2>2, <2>3, Types DEF Opens
  <1>3. CASE c \notin live
    <2>1. /\ Account(c) = born + 1 /\ SetCookie(c) = born + 1
          /\ born' = born + 1 /\ live' = live \cup {born + 1} /\ born + 1 <= MaxAccounts
      BY <1>3 DEF Admit, Account, SetCookie
    <2>2. born + 1 \in 0..(born + 1) /\ born + 1 \in 0..MaxAccounts
      BY <1>1, <2>1
    <2>. QED  BY <1>1, <2>1, <2>2, Types DEF Opens
  <1>. QED  BY <1>2, <1>3

\* Where the orders stay on their accounts, maps stay as right as they are.
LEMMA FreshStays ==
    ASSUME TypeOK, Opens, UNCHANGED home, NEW map, Past(map), Fresh(map)
    PROVE  Fresh(map)'
  <1>1. map.account \in live' => map.account \in live
    BY AccountsGrow
  <1>2. Truth(map.account)' = Truth(map.account)
    BY DEF Truth
  <1>. QED  BY <1>1, <1>2 DEF Fresh

LEMMA InitIInv == Init => IInv
  <1>. SUFFICES ASSUME Init PROVE IInv
    OBVIOUS
  <1>1. TypeOK
    <2>1. 0 \in 0..MaxAccounts /\ 0 \in 0..0
      BY BalanceCacheConstants
    <2>2. live \subseteq 0..born
      BY <2>1 DEF Init
    <2>. QED  BY <2>1, <2>2 DEF Init, TypeOK
  <1>2. HaveData /\ OfThePast /\ AtRest
    BY DEF Init, HaveData, OfThePast, AtRest, InFlight
  <1>. QED  BY <1>1, <1>2 DEF IInv

-----------------------------------------------------------------------------
\* Steps of the query.
LEMMA QueryKeeps ==
    ASSUME IInv, Refetch \/ ServerAnswers \/ DeliverFetched \/ Land \/ FetchFails
    PROVE  IInv'
  <1>. USE DEF IInv
  <1>1. /\ UNCHANGED <<home, cookie, order, previous, reset>>
        /\ InFlight' = InFlight /\ \A a : Truth(a)' = Truth(a)
    BY DEF Refetch, ServerAnswers, DeliverFetched, Land, FetchFails, serverVars, cookieVars,
           orderVars, InFlight, Truth
  <1>2. CASE ServerAnswers
    <2>1. /\ fetch = "asked" /\ fetch' = "answered" /\ Admit(carried)
          /\ answer' = Truth(Account(carried)) /\ carried' = SetCookie(carried)
          /\ UNCHANGED <<jar, balances, failed>>
      BY <1>2 DEF ServerAnswers, cookieVars
    <2>2. /\ Opens /\ answer' \in Maps /\ answer'.account <= born'
          /\ carried' \in 0..born' \cup {None}
      BY <2>1, Admission
    <2>3. Past(answer)' /\ Fresh(answer)'
      <3>1. Truth(Account(carried)).account = Account(carried)
        BY <2>1, Admission
      <3>2. answer' = Truth(Account(carried)) /\ answer'.account = Account(carried)
        BY <2>1, <3>1
      <3>3. (answer = Truth(answer.account))'
        BY <1>1, <3>2 DEF Truth
      <3>. QED  BY <2>2, <3>3 DEF Past, Fresh
    <2>4. TypeOK'
      BY <1>1, <2>1, <2>2, AccountsGrow DEF TypeOK
    <2>5. HaveData'
      BY <1>1, <2>1 DEF HaveData
    <2>6. OfThePast'
      BY <1>1, <2>1, <2>2, <2>3, AccountsGrow DEF OfThePast
    <2>7. AtRest'
      BY <2>1, <2>3 DEF AtRest
    <2>. QED  BY <2>4, <2>5, <2>6, <2>7
  <1>3. CASE ~ServerAnswers
    <2>1. /\ UNCHANGED <<born, live>>
          /\ \A map : (Fresh(map)' <=> Fresh(map)) /\ (Past(map)' <=> Past(map))
      <3>1. UNCHANGED <<born, live>>
        BY <1>3 DEF Refetch, DeliverFetched, Land, FetchFails, serverVars
      <3>. QED  BY <1>1, <3>1 DEF Fresh, Past
    <2>2. CASE Refetch
      BY <1>1, <2>1, <2>2
      DEF Refetch, Ask, cookieVars, TypeOK, HaveData, OfThePast, AtRest
    <2>3. CASE DeliverFetched
      <3>1. /\ jar' = carried /\ carried # None /\ carried' = None
            /\ UNCHANGED <<balances, failed, fetch, answer>>
        BY <2>3 DEF DeliverFetched
      <3>2. TypeOK'
        BY <1>1, <2>1, <3>1 DEF TypeOK
      <3>. QED  BY <1>1, <2>1, <3>1, <3>2 DEF HaveData, OfThePast, AtRest
    <2>4. CASE Land
      <3>1. /\ fetch = "answered" /\ balances' = answer /\ failed' = FALSE /\ fetch' = "none"
            /\ carried' = None /\ answer' = None /\ UNCHANGED jar
        BY <2>4 DEF Land, Idle, cookieVars
      <3>2. answer # None /\ answer \in Maps
        BY <3>1, Types DEF OfThePast, Past
      <3>3. TypeOK'
        BY <1>1, <2>1, <3>1, <3>2 DEF TypeOK
      <3>. QED  BY <1>1, <2>1, <3>1, <3>2, <3>3 DEF HaveData, OfThePast, AtRest
    <2>5. CASE FetchFails
      <3>1. /\ \/ fetch' = "asked" /\ carried' = jar /\ answer' = None /\ UNCHANGED failed
               \/ fetch' = "none" /\ carried' = None /\ answer' = None /\ failed' = TRUE
            /\ UNCHANGED <<jar, balances>>
        BY <2>5 DEF FetchFails, Ask, Idle, cookieVars
      <3>2. TypeOK'
        BY <1>1, <2>1, <3>1 DEF TypeOK
      <3>. QED  BY <1>1, <2>1, <3>1, <3>2 DEF HaveData, OfThePast, AtRest
    <2>. QED  BY <1>3, <2>2, <2>3, <2>4, <2>5
  <1>. QED  BY <1>2, <1>3

\* A Set-Cookie arrives: of an order or a reset, or of another request of the page.
LEMMA CookieKeeps ==
    ASSUME IInv, StrayCookie \/ \E q \in Requests : Deliver(q)
    PROVE  IInv'
  <1>. USE DEF IInv
  <1>1. /\ UNCHANGED <<home, order, previous, reset, balances, failed, fetch, carried, answer>>
        /\ InFlight' = InFlight
    BY DEF StrayCookie, Deliver, serverVars, orderVars, fetchVars, InFlight
  <1>2. /\ Opens
        /\ jar' \in 0..born'
        /\ cookie' \in [Requests -> 0..born \cup {None}]
    <2>1. CASE StrayCookie
      <3>1. /\ born < MaxAccounts /\ born' = born + 1 /\ live' = live \cup {born + 1}
            /\ jar' = born + 1 /\ UNCHANGED cookie
        BY <2>1 DEF StrayCookie
      <3>2. born + 1 <= MaxAccounts /\ born + 1 \in 0..(born + 1)
        BY <3>1, Types
      <3>. QED  BY <3>1, <3>2 DEF Opens, TypeOK
    <2>2. CASE \E q \in Requests : Deliver(q)
      <3>1. PICK q \in Requests : Deliver(q)
        BY <2>2
      <3>2. /\ UNCHANGED <<born, live>>
            /\ cookie[q] # None /\ jar' = cookie[q] /\ cookie' = [cookie EXCEPT ![q] = None]
        BY <3>1 DEF Deliver, serverVars
      <3>. QED  BY <3>2, Types DEF Opens, TypeOK
    <2>. QED  BY <2>1, <2>2
  <1>3. TypeOK'
    <2>1. cookie' \in [Requests -> 0..born' \cup {None}]
      BY <1>2, AccountsGrow
    <2>. QED  BY <1>1, <1>2, <2>1, AccountsGrow DEF TypeOK
  <1>4. HaveData' /\ OfThePast'
    BY <1>1, <1>2, AccountsGrow DEF HaveData, OfThePast
  <1>5. AtRest'
    <2>1. \A map : Past(map) /\ Fresh(map) => Fresh(map)'
      BY <1>1, <1>2, FreshStays
    <2>. QED  BY <1>1, <2>1 DEF AtRest, HaveData, OfThePast
  <1>. QED  BY <1>3, <1>4, <1>5

-----------------------------------------------------------------------------
\* Invalidation with data in the cache fetches again.
LEMMA InvalidateAsks ==
    ASSUME balances # None, Invalidate
    PROVE  fetch' = "asked" /\ carried' = jar /\ answer' = None
BY DEF Invalidate, Ask

\* Steps of one order.
LEMMA OrderKeeps ==
    ASSUME IInv, NEW o \in Orders,
           Mutate(o) \/ ServerExecutes(o) \/ ServerRefuses(o) \/ Succeed(o) \/ FailOrder(o)
    PROVE  IInv'
  <1>. USE DEF IInv
  <1>1. UNCHANGED <<jar, reset, failed>> /\ o \in Requests
    BY DEF Mutate, ServerExecutes, ServerRefuses, Succeed, FailOrder, Settle, Requests
  <1>2. \A p \in InFlight : p \in Orders
    BY DEF InFlight
  <1>3. CASE Mutate(o)
    <2>1. /\ balances \in Maps /\ balances # None /\ Past(balances)
          /\ fetch' = "none" /\ carried' = None /\ answer' = None
          /\ previous' = [previous EXCEPT ![o] = balances]
          /\ order' = [order EXCEPT ![o] = "sent"]
          /\ cookie' = [cookie EXCEPT ![o] = jar]
          /\ UNCHANGED <<born, live, home>>
      BY <1>3 DEF Mutate, Idle, TypeOK, OfThePast, serverVars
    <2>2. balances' \in Maps /\ balances'.account = balances.account /\ balances' # None
      <3>1. balances' = balances \/ balances' = [balances EXCEPT !.guessed = @ \cup {o}]
        BY <1>3 DEF Mutate, Guess
      <3>2. balances' \in Maps /\ balances'.account = balances.account
        BY <2>1, <3>1 DEF Maps
      <3>. QED  BY <3>2, Types
    <2>3. \A map : Past(map)' <=> Past(map)
      BY <2>1 DEF Past
    <2>4. Past(balances')
      BY <2>1, <2>2 DEF Past
    <2>5. InFlight' = InFlight \cup {o} /\ o \in InFlight'
      BY <2>1 DEF InFlight, TypeOK
    <2>6. TypeOK'
      BY <1>1, <2>1, <2>2 DEF TypeOK
    <2>7. HaveData'
      BY <1>2, <2>1, <2>2, <2>5 DEF HaveData, TypeOK
    <2>8. OfThePast'
      BY <2>1, <2>3, <2>4 DEF OfThePast, TypeOK
    <2>. QED  BY <2>5, <2>6, <2>7, <2>8 DEF AtRest
  <1>4. CASE ServerExecutes(o) \/ ServerRefuses(o)
    <2>1. /\ UNCHANGED <<previous, balances, fetch, carried, answer>>
          /\ order[o] = "sent"
          /\ order' = [order EXCEPT ![o] = "executed"] \/ order' = [order EXCEPT ![o] = "refused"]
      BY <1>4 DEF ServerExecutes, ServerRefuses, fetchVars
    <2>2. /\ Opens
          /\ cookie' \in [Requests -> 0..born' \cup {None}]
          /\ home' \in [Orders -> 0..born' \cup {None}]
      <3>1. CASE Admit(cookie[o])
        <4>1. /\ Opens /\ Account(cookie[o]) \in 0..born'
              /\ SetCookie(cookie[o]) \in 0..born' \cup {None}
          BY <3>1, Admission
        <4>2. /\ \A a \in 0..born : a \in 0..born'
          BY <4>1, AccountsGrow
        <4>3. \/ cookie' = [cookie EXCEPT ![o] = SetCookie(cookie[o])]
              \/ cookie' = [cookie EXCEPT ![o] = None]
          BY <1>4 DEF ServerExecutes, ServerRefuses
        <4>4. home' = home \/ home' = [home EXCEPT ![o] = Account(cookie[o])]
          BY <1>4 DEF ServerExecutes, ServerRefuses
        <4>5. cookie' \in [Requests -> 0..born' \cup {None}]
          BY <1>1, <4>1, <4>2, <4>3 DEF TypeOK
        <4>6. home' \in [Orders -> 0..born' \cup {None}]
          BY <4>1, <4>2, <4>4 DEF TypeOK
        <4>. QED  BY <4>1, <4>5, <4>6
      <3>2. CASE UNCHANGED <<born, live, home>> /\ cookie' = [cookie EXCEPT ![o] = None]
        BY <1>1, <3>2, Types DEF Opens, TypeOK
      <3>. QED  BY <1>4, <3>1, <3>2 DEF ServerExecutes, ServerRefuses
    <2>3. InFlight' = InFlight /\ o \in InFlight
      BY <2>1 DEF InFlight, TypeOK
    <2>4. TypeOK'
      <3>1. order' \in [Orders -> {"idle", "sent", "executed", "refused", "settled"}]
        BY <2>1 DEF TypeOK
      <3>. QED  BY <1>1, <2>1, <2>2, <3>1, AccountsGrow DEF TypeOK
    <2>5. HaveData' /\ OfThePast'
      BY <2>1, <2>2, <2>3, AccountsGrow DEF HaveData, OfThePast
    <2>. QED  BY <2>3, <2>4, <2>5 DEF AtRest
  <1>5. CASE Succeed(o) \/ FailOrder(o)
    <2>1. o \in InFlight /\ balances # None /\ previous[o] # None /\ previous[o] \in Maps
      BY <1>5 DEF Succeed, FailOrder, InFlight, HaveData, TypeOK
    <2>2. /\ order' = [order EXCEPT ![o] = "settled"]
          /\ previous' = [previous EXCEPT ![o] = None]
          /\ cookie' = [cookie EXCEPT ![o] = None]
          /\ balances' = balances \/ balances' = previous[o]
          /\ fetch' = "asked" /\ carried' = jar /\ answer' = None
          /\ UNCHANGED <<born, live, home>>
      BY <1>5, <2>1, InvalidateAsks DEF Succeed, FailOrder, Settle, serverVars
    <2>3. InFlight' = InFlight \ {o}
      BY <2>2 DEF InFlight, TypeOK
    <2>4. \A map : Past(map)' <=> Past(map)
      BY <2>2 DEF Past
    <2>5. TypeOK'
      BY <1>1, <2>1, <2>2 DEF TypeOK
    <2>6. HaveData'
      BY <1>2, <2>1, <2>2, <2>3 DEF HaveData, TypeOK
    <2>7. OfThePast'
      BY <2>1, <2>2, <2>4 DEF OfThePast, TypeOK
    <2>. QED  BY <2>2, <2>5, <2>6, <2>7 DEF AtRest
  <1>. QED  BY <1>3, <1>4, <1>5

-----------------------------------------------------------------------------
\* Steps of one reset.
LEMMA ResetKeeps ==
    ASSUME IInv, NEW r \in Resets,
           SendReset(r) \/ ServerResets(r) \/ ResetSucceeds(r) \/ ResetFails(r)
    PROVE  IInv'
  <1>. USE DEF IInv
  <1>1. UNCHANGED <<jar, order, previous, balances, failed>> /\ InFlight' = InFlight /\ r \in Requests
    BY DEF SendReset, ServerResets, ResetSucceeds, ResetFails, orderVars, cookieVars, InFlight,
           Requests
  <1>2. reset' \in [Resets -> {"idle", "sent", "executed", "failed"}]
    BY DEF SendReset, ServerResets, ResetSucceeds, ResetFails, TypeOK
  <1>3. CASE ServerResets(r)
    <2>1. /\ born < MaxAccounts /\ born' = born + 1 /\ live' = (live \ {cookie[r]}) \cup {born + 1}
          /\ home' = [o \in Orders |-> IF home[o] = cookie[r] THEN None ELSE home[o]]
          /\ cookie' = [cookie EXCEPT ![r] = born + 1]
          /\ UNCHANGED <<fetch, carried, answer>>
      BY <1>3 DEF ServerResets, fetchVars
    <2>2. Opens
      BY <2>1, Types DEF Opens
    <2>3. \A map : Past(map) /\ Fresh(map) => Fresh(map)'
      <3>. SUFFICES ASSUME NEW map, Past(map), Fresh(map), map.account \in live'
                    PROVE  map = Truth(map.account)'
        BY DEF Fresh
      <3>1. map.account \in live /\ map = Truth(map.account)
        BY <2>2, AccountsGrow DEF Fresh
      <3>2. map.account # cookie[r] /\ map.account # None
        <4>1. map.account # born + 1
          BY Types DEF Past
        <4>. QED  BY <2>1, <3>1, <4>1, Types
      <3>3. \A o \in Orders : home'[o] = map.account <=> home[o] = map.account
        BY <2>1, <3>2
      <3>. QED  BY <3>1, <3>3 DEF Truth
    <2>4. TypeOK'
      <3>1. born + 1 \in 0..born'
        BY <2>1, Types
      <3>2. cookie' \in [Requests -> 0..born' \cup {None}]
        BY <1>1, <2>1, <2>2, <3>1, AccountsGrow DEF TypeOK
      <3>3. home' \in [Orders -> 0..born' \cup {None}]
        BY <2>1, <2>2, AccountsGrow DEF TypeOK
      <3>. QED  BY <1>1, <1>2, <2>1, <2>2, <3>2, <3>3, AccountsGrow DEF TypeOK
    <2>5. HaveData' /\ OfThePast'
      BY <1>1, <2>1, <2>2, AccountsGrow DEF HaveData, OfThePast
    <2>6. AtRest'
      BY <1>1, <2>1, <2>3 DEF AtRest, HaveData, OfThePast
    <2>. QED  BY <2>4, <2>5, <2>6
  <1>4. CASE SendReset(r) \/ ResetSucceeds(r) \/ ResetFails(r)
    <2>1. /\ UNCHANGED <<born, live, home>>
          /\ cookie' = cookie \/ cookie' = [cookie EXCEPT ![r] = jar]
             \/ cookie' = [cookie EXCEPT ![r] = None]
          /\ \/ UNCHANGED <<fetch, carried, answer>>
             \/ fetch' = "asked" /\ carried' = jar /\ answer' = None
      BY <1>4 DEF SendReset, ResetSucceeds, ResetFails, Invalidate, Ask, serverVars, cookieVars,
                  fetchVars
    <2>2. \A map : (Fresh(map)' <=> Fresh(map)) /\ (Past(map)' <=> Past(map))
      BY <2>1 DEF Truth, Fresh, Past
    <2>3. TypeOK'
      BY <1>1, <1>2, <2>1 DEF TypeOK
    <2>4. HaveData' /\ OfThePast' /\ AtRest'
      BY <1>1, <2>1, <2>2 DEF HaveData, OfThePast, AtRest
    <2>. QED  BY <2>3, <2>4
  <1>. QED  BY <1>3, <1>4

LEMMA NextIInv == IInv /\ [Next]_vars => IInv'
  <1>. SUFFICES ASSUME IInv, [Next]_vars PROVE IInv'
    OBVIOUS
  <1>1. CASE UNCHANGED vars
    BY <1>1 DEF vars, serverVars, cookieVars, orderVars, fetchVars, IInv, TypeOK, HaveData,
                OfThePast, AtRest, InFlight, Past, Fresh, Truth
  <1>2. CASE Next
    BY <1>2, QueryKeeps, CookieKeeps, OrderKeeps, ResetKeeps
    DEF Next, User, Fails, Server, Browser
  <1>. QED  BY <1>1, <1>2

\* Whatever may be wrong in the cache has an order in flight that will correct it, and no
\* map is of an account to come: after every run of orders, fetches and resets, with any
\* number of them pending at once.
THEOREM Invariance == Spec => []IInv
  <1>. QED  BY InitIInv, NextIInv, PTL DEF Spec

\* When nothing is in flight and the last fetch succeeded, the balances shown of an account
\* that exists are the server's, however orders, rollbacks, fetches and resets overlapped.
THEOREM Shown == Spec => []ShownIsTrue
  <1>1. IInv => ShownIsTrue
    BY DEF IInv, AtRest, ShownIsTrue, Settled
  <1>. QED  BY <1>1, Invariance, PTL
=============================================================================
