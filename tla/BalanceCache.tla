----------------------------- MODULE BalanceCache -----------------------------
(***************************************************************************)
(* The balances in the browser's query cache: useBalances fetches them,    *)
(* useCreateOrder changes them optimistically, rolls back and refetches,   *)
(* useResetAccount refetches everything.                                   *)
(*                                                                         *)
(* A balance map is described by what went into it: the account it is of,  *)
(* the orders it knows to be executed there, and the orders whose effect   *)
(* was guessed from the last ticker.  The orders and trades lists are      *)
(* refetched by the same calls and are never guessed.                      *)
(*                                                                         *)
(* Several orders can be in flight, and several resets: the buttons are    *)
(* disabled while their own mutation is pending, but a page that is left   *)
(* or a dialog that is dismissed, and opened again, starts with a new one. *)
(* A reset deletes the account of the cookie it carries; the requests sent *)
(* before its answer carry that cookie too, and the middleware opens a     *)
(* fresh account for each that comes too late.                             *)
(*                                                                         *)
(* The query client is TanStack Query 5: one fetch per query, one retry;   *)
(* cancelQueries drops the fetch, invalidateQueries drops and repeats it - *)
(* unless there is no data yet: then it joins the fetch under way.         *)
(***************************************************************************)
EXTENDS Integers, FiniteSets

CONSTANTS
    Orders,         \* MARKET orders the user may place
    Resets,         \* reset dialogs, dismissed or not: each sends one reset at a time
    MaxAccounts,    \* bound of the model on the accounts opened
    None            \* no data, no snapshot, no cookie

ASSUME BalanceCacheConstants ==
    /\ MaxAccounts \in Nat
    /\ Orders \cap Resets = {}
    /\ None \notin Nat
    /\ None \notin [account : Nat, known : SUBSET Orders, guessed : SUBSET Orders]

VARIABLES
    born,           \* the server: the last account it opened
    live,           \*   the accounts that exist
    home,           \*   the account each order was executed on
    jar,            \* the account the browser's cookie names
    cookie,         \* of each order and reset: the cookie it carries, later its Set-Cookie
    order,          \* what became of each order, in the server and in the browser
    previous,       \* context.previousBalances of each order in flight
    reset,          \* what became of each reset
    balances,       \* query ['balances', 'list']: its data
    failed,         \*   the last fetch ended in an error, after the retry
    fetch,          \*   the fetch under way
    carried,        \*   the cookie it carries, later its Set-Cookie
    answer          \*   what the server put into its answer

serverVars == <<born, live, home>>
cookieVars == <<jar, cookie>>
orderVars  == <<order, previous>>
fetchVars  == <<fetch, carried, answer>>
vars == <<serverVars, cookieVars, orderVars, reset, balances, failed, fetchVars>>

Requests == Orders \cup Resets

Maps     == [account : 0..MaxAccounts, known : SUBSET Orders, guessed : SUBSET Orders]
Truth(a) == [account |-> a, known |-> {o \in Orders : home[o] = a}, guessed |-> {}]

InFlight == {o \in Orders : order[o] \in {"sent", "executed", "refused"}}
Pending  == {r \in Resets : reset[r] \in {"sent", "executed"}}

TypeOK ==
    /\ born \in 0..MaxAccounts
    /\ live \subseteq 0..born
    /\ home \in [Orders -> 0..born \cup {None}]
    /\ jar \in 0..born
    /\ cookie \in [Requests -> 0..born \cup {None}]
    /\ order \in [Orders -> {"idle", "sent", "executed", "refused", "settled"}]
    /\ previous \in [Orders -> Maps \cup {None}]
    /\ reset \in [Resets -> {"idle", "sent", "executed", "failed"}]
    /\ balances \in Maps \cup {None}
    /\ failed \in BOOLEAN
    /\ fetch \in {"none", "asked", "answered"}
    /\ carried \in 0..born \cup {None}
    /\ answer \in Maps \cup {None}

\* The page mounts and the first fetch starts.  The visitor has an account, or else no
\* cookie, for which the cookie of an account that is gone stands.
Init ==
    /\ born = 0
    /\ live \in SUBSET {0}
    /\ home = [o \in Orders |-> None]
    /\ jar = 0
    /\ cookie = [q \in Requests |-> None]
    /\ order = [o \in Orders |-> "idle"]
    /\ previous = [o \in Orders |-> None]
    /\ reset = [r \in Resets |-> "idle"]
    /\ balances = None
    /\ failed = FALSE
    /\ fetch = "asked"
    /\ carried = jar
    /\ answer = None

-----------------------------------------------------------------------------
\* Cookies

\* AnonymousUserMiddleware: a request with the cookie c is served for the account it
\* names, or for a fresh one that the answer's Set-Cookie names.
Account(c)   == IF c \in live THEN c ELSE born + 1
SetCookie(c) == IF c \in live THEN None ELSE born + 1

Admit(c) ==
    /\ Account(c) <= MaxAccounts
    /\ live' = live \cup {Account(c)}
    /\ born' = IF c \in live THEN born ELSE born + 1

\* An order or a reset the server is done with.
Handled(q) ==
    \/ q \in Orders /\ order[q] \in {"executed", "refused"}
    \/ q \in Resets /\ reset[q] = "executed"

\* The head of an answer arrives, before the handlers of the answer run.
Deliver(q) ==
    /\ Handled(q)
    /\ cookie[q] # None
    /\ jar' = cookie[q]
    /\ cookie' = [cookie EXCEPT ![q] = None]
    /\ UNCHANGED <<serverVars, orderVars, reset, balances, failed, fetchVars>>

DeliverFetched ==
    /\ fetch = "answered"
    /\ carried # None
    /\ jar' = carried
    /\ carried' = None
    /\ UNCHANGED <<serverVars, cookie, orderVars, reset, balances, failed, fetch, answer>>

\* Another request of the page - orders, trades, tickers, a fetch that was dropped - was
\* sent with the cookie of an account that is gone; the one opened for it has nothing on
\* it until its cookie arrives, and so it is opened here.
StrayCookie ==
    /\ \E a \in 0..born : a \notin live
    /\ born < MaxAccounts
    /\ born' = born + 1
    /\ live' = live \cup {born + 1}
    /\ jar' = born + 1
    /\ UNCHANGED <<home, cookie, orderVars, reset, balances, failed, fetchVars>>

-----------------------------------------------------------------------------
\* The query

Ask ==
    /\ fetch' = "asked"
    /\ carried' = jar
    /\ answer' = None

Idle ==
    /\ fetch' = "none"
    /\ carried' = None
    /\ answer' = None

\* Mutant: it always joins.
InvalidateJoins ==
    \/ fetch = "none" /\ Ask
    \/ fetch # "none" /\ UNCHANGED fetchVars

\* invalidateQueries, with the query on the page.
Invalidate ==
    \/ fetch # "none" /\ balances = None /\ UNCHANGED fetchVars
    \/ ~(fetch # "none" /\ balances = None) /\ Ask

\* A component mounts, or the network is back.
Refetch ==
    /\ fetch = "none"
    /\ Ask
    /\ UNCHANGED <<serverVars, cookieVars, orderVars, reset, balances, failed>>

\* GET /balances reads the account.
ServerAnswers ==
    /\ fetch = "asked"
    /\ Admit(carried)
    /\ fetch' = "answered"
    /\ answer' = Truth(Account(carried))
    /\ carried' = SetCookie(carried)
    /\ UNCHANGED <<home, cookieVars, orderVars, reset, balances, failed>>

Land ==
    /\ fetch = "answered"
    /\ carried = None
    /\ balances' = answer
    /\ failed' = FALSE
    /\ Idle
    /\ UNCHANGED <<serverVars, cookieVars, orderVars, reset>>

\* The request or its answer is lost, or is an error.  The client tries once more, after
\* a pause that is the failed try's here, and gives up (retry: 1); the tries are not
\* counted, so that any of them may be the last.
FetchFails ==
    /\ fetch # "none"
    /\ \/ Ask /\ UNCHANGED failed
       \/ Idle /\ failed' = TRUE
    /\ UNCHANGED <<serverVars, cookieVars, orderVars, reset, balances>>

-----------------------------------------------------------------------------
\* useCreateOrder

\* onMutate: cancelQueries, the snapshot, the guess if there are data and a ticker.
\* The awaits between them pass no other event of the page.  The form needs a
\* balance to let an order through; it knows nothing of resets.
Guess(o) ==
    \/ balances' = [balances EXCEPT !.guessed = @ \cup {o}]
    \/ UNCHANGED balances

Mutate(o) ==
    /\ order[o] = "idle"
    /\ balances # None
    /\ Idle
    /\ previous' = [previous EXCEPT ![o] = balances]
    /\ Guess(o)
    /\ order' = [order EXCEPT ![o] = "sent"]
    /\ cookie' = [cookie EXCEPT ![o] = jar]
    /\ UNCHANGED <<serverVars, jar, reset, failed>>

\* POST /orders in the server.
ServerExecutes(o) ==
    /\ order[o] = "sent"
    /\ Admit(cookie[o])
    /\ order' = [order EXCEPT ![o] = "executed"]
    /\ home' = [home EXCEPT ![o] = Account(cookie[o])]
    /\ cookie' = [cookie EXCEPT ![o] = SetCookie(@)]
    /\ UNCHANGED <<jar, previous, reset, balances, failed, fetchVars>>

\* A refusal comes from the middleware's account as well, or the request never arrives.
ServerRefuses(o) ==
    /\ order[o] = "sent"
    /\ order' = [order EXCEPT ![o] = "refused"]
    /\ \/ Admit(cookie[o]) /\ cookie' = [cookie EXCEPT ![o] = SetCookie(@)]
       \/ cookie' = [cookie EXCEPT ![o] = None] /\ UNCHANGED <<born, live>>
    /\ UNCHANGED <<home, jar, previous, reset, balances, failed, fetchVars>>

\* A Set-Cookie that has not arrived by then was lost with the answer.
Settle(o) ==
    /\ order' = [order EXCEPT ![o] = "settled"]
    /\ previous' = [previous EXCEPT ![o] = None]
    /\ cookie' = [cookie EXCEPT ![o] = None]
    /\ UNCHANGED <<serverVars, jar, reset, failed>>

\* Mutant: it leaves the guess for the truth.
SucceedTrustsGuess(o) ==
    /\ order[o] = "executed"
    /\ cookie[o] = None
    /\ Settle(o)
    /\ UNCHANGED <<balances, fetchVars>>

\* onSuccess is the form's; onSettled invalidates.
Succeed(o) ==
    /\ order[o] = "executed"
    /\ cookie[o] = None
    /\ Invalidate
    /\ Settle(o)
    /\ UNCHANGED balances

\* Mutant: it rolls back and leaves it at that.
FailRollsBackOnly(o) ==
    /\ order[o] \in {"executed", "refused"}
    /\ balances' = previous[o]
    /\ UNCHANGED fetchVars
    /\ Settle(o)

\* onError: the rollback, and then onSettled.  An order that was executed fails as well
\* when its answer is lost.
FailOrder(o) ==
    /\ order[o] \in {"executed", "refused"}
    /\ balances' = previous[o]
    /\ Invalidate
    /\ Settle(o)

-----------------------------------------------------------------------------
\* useResetAccount

\* The dialog's button, disabled while its own reset is pending.  The backdrop dismisses the
\* dialog all the same, and the one opened after it has a mutation of its own.
SendReset(r) ==
    /\ reset[r] \in {"idle", "failed"}
    /\ born < MaxAccounts
    /\ reset' = [reset EXCEPT ![r] = "sent"]
    /\ cookie' = [cookie EXCEPT ![r] = jar]
    /\ UNCHANGED <<serverVars, jar, orderVars, balances, failed, fetchVars>>

\* The server deletes the account, with its orders, and opens another.  If the account is gone already, the
\* one the middleware opened is deleted in its place and is not seen here.
ServerResets(r) ==
    /\ reset[r] = "sent"
    /\ born < MaxAccounts
    /\ reset' = [reset EXCEPT ![r] = "executed"]
    /\ born' = born + 1
    /\ live' = (live \ {cookie[r]}) \cup {born + 1}
    /\ home' = [o \in Orders |-> IF home[o] = cookie[r] THEN None ELSE home[o]]
    /\ cookie' = [cookie EXCEPT ![r] = born + 1]
    /\ UNCHANGED <<jar, orderVars, balances, failed, fetchVars>>

\* onSuccess: invalidateQueries().
ResetSucceeds(r) ==
    /\ reset[r] = "executed"
    /\ cookie[r] = None
    /\ reset' = [reset EXCEPT ![r] = "idle"]
    /\ Invalidate
    /\ UNCHANGED <<serverVars, cookieVars, orderVars, balances, failed>>

\* An error, or the answer is lost: nothing is refetched.
ResetFails(r) ==
    /\ reset[r] \in {"sent", "executed"}
    /\ reset' = [reset EXCEPT ![r] = "failed"]
    /\ cookie' = [cookie EXCEPT ![r] = None]
    /\ UNCHANGED <<serverVars, jar, orderVars, balances, failed, fetchVars>>

-----------------------------------------------------------------------------
User  == Refetch \/ (\E r \in Resets : SendReset(r)) \/ \E o \in Orders : Mutate(o)
Fails == FetchFails \/ \E r \in Resets : ResetFails(r)
Server ==
    \/ ServerAnswers
    \/ \E r \in Resets : ServerResets(r)
    \/ \E o \in Orders : ServerExecutes(o) \/ ServerRefuses(o)
Browser ==
    \/ DeliverFetched \/ Land
    \/ \E q \in Requests : Deliver(q)
    \/ \E r \in Resets : ResetSucceeds(r)
    \/ \E o \in Orders : Succeed(o) \/ FailOrder(o)

Next == User \/ StrayCookie \/ Fails \/ Server \/ Browser

Spec == Init /\ [][Next]_vars

\* The server answers, one way or the other, and the browser handles the answers: while
\* anything is under way, something of it goes on.
Fairness == WF_vars(Server \/ Browser \/ Fails)

FairSpec == Spec /\ Fairness

-----------------------------------------------------------------------------
\* Properties

Settled == fetch = "none" /\ InFlight = {} /\ Pending = {}

\* A map is right about the account it is of, if that still exists.
Fresh(map) == map.account \in live => map = Truth(map.account)

\* When nothing is in flight and the last fetch succeeded, the balances shown are the
\* server's for that account, unless it was deleted behind the browser's back: no guess of
\* a failed order, no snapshot of a rollback and no answer read before an order executed is
\* left, however the orders, fetches and resets overlapped and whichever account each
\* order was executed on (useCreateOrder, useResetAccount).
ShownIsTrue ==
    Settled /\ ~failed => Fresh(balances)

\* A map is of an account there has been.
Past(map) == map \in Maps /\ map.account <= born

\* The parts of the invariant.  What is in the cache may be wrong while an order is in
\* flight - a guess, a snapshot from before another order, an answer read too early -
\* because the end of that order fetches again.
HaveData ==
    /\ balances = None => InFlight = {}
    /\ fetch = "none" /\ balances = None => failed
    /\ \A o \in InFlight : previous[o] # None

OfThePast ==
    /\ balances # None => Past(balances)
    /\ fetch = "answered" => Past(answer)
    /\ \A o \in Orders : previous[o] # None => Past(previous[o])

AtRest ==
    /\ InFlight = {} /\ fetch = "answered" => Fresh(answer)
    /\ InFlight = {} /\ fetch = "none" /\ ~failed => Fresh(balances)

\* What keeps ShownIsTrue true from step to step: whenever the cache may be wrong about an
\* account that exists, an order whose end fetches again is in flight (useCreateOrder
\* onSettled), and no map is of an account that is still to be opened.
IInv == TypeOK /\ HaveData /\ OfThePast /\ AtRest

\* Once the user rests and nothing fails any more, every order, reset and fetch comes to
\* an end, and the balances are the server's - unless the last fetch had failed, or they
\* are of an account whose reset the browser did not hear of or joined (ResetRefetches).
Converges ==
    <>[][~(User \/ Fails)]_vars
        => <>[](Settled /\ (failed \/ Fresh(balances)))

\* docs/frontend-state.md:58: a reset whose success the browser heard of invalidates the
\* whole cache and everything is fetched again.  useResetAccount calls
\* invalidateQueries(), which joins a first fetch still under way: when nothing is in
\* flight and no reset failed, the balances may be those of a deleted account.
ResetRefetches ==
    Settled /\ ~failed /\ (\A r \in Resets : reset[r] # "failed") => balances.account \in live
=============================================================================
