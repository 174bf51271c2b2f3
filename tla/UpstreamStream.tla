--------------------------- MODULE UpstreamStream ---------------------------
(***************************************************************************)
(* BinanceStreamService: the one combined-streams connection to Binance,   *)
(* the callbacks registered for each stream, and the reconnect loop.       *)
(*                                                                         *)
(* JavaScript runs one handler at a time, so each method and each event    *)
(* handler is one step.  Between two steps the socket may be in any of the *)
(* states of the ws library, and control messages travel to Binance in     *)
(* order, are lost with the connection, and are obeyed some time later.    *)
(***************************************************************************)
EXTENDS Integers, Sequences

CONSTANTS
    Streams,        \* Binance stream names
    Callbacks,      \* callbacks that can be registered
    MaxAttempt,     \* reconnectAttempt saturates here: 2^5 s is past the 30 s cap
    MaxWire         \* bound of the model on control messages in flight

ASSUME UpstreamConstants ==
    /\ MaxAttempt \in 0..5
    /\ MaxWire \in Nat

VARIABLES
    subscribers,        \* Map stream -> Set of callbacks; {} is "no key"
    ws,                 \* this.ws and its readyState
    reconnectTimer,     \* 0, or the delay of the pending timer in half seconds
    reconnectAttempt,
    rateLimited,
    upstreamConnected,
    destroyed,
    wire,               \* control messages on their way to Binance
    upstream            \* streams Binance sends on this connection

connectionVars == <<ws, reconnectTimer, reconnectAttempt, rateLimited,
                    upstreamConnected, destroyed>>
binanceVars == <<wire, upstream>>
streamVars  == <<subscribers, ws, reconnectTimer, reconnectAttempt, rateLimited,
                 upstreamConnected, destroyed, wire, upstream>>

Control == [method : {"SUBSCRIBE", "UNSUBSCRIBE"}, streams : SUBSET Streams]

StreamTypeOK ==
    /\ subscribers \in [Streams -> SUBSET Callbacks]
    /\ ws \in {"none", "connecting", "open", "closing"}
    /\ reconnectTimer \in 0..60
    /\ reconnectAttempt \in 0..MaxAttempt
    /\ rateLimited \in BOOLEAN
    /\ upstreamConnected \in BOOLEAN
    /\ destroyed \in BOOLEAN
    /\ wire \in Seq(Control)
    /\ upstream \in SUBSET Streams

\* onModuleInit has run: the first connect() is under way.
StreamInit ==
    /\ subscribers = [s \in Streams |-> {}]
    /\ ws = "connecting"
    /\ reconnectTimer = 0
    /\ reconnectAttempt = 0
    /\ rateLimited = FALSE
    /\ upstreamConnected = FALSE
    /\ destroyed = FALSE
    /\ wire = <<>>
    /\ upstream = {}

IsOpen == ws = "open"

Demanded == {s \in Streams : subscribers[s] # {}}

-----------------------------------------------------------------------------
\* subscribe and unsubscribe, for all the (stream, callback) pairs one handler of
\* the gateway passes in a loop.  Each stream that gains its first callback, or
\* loses its last one, is announced to Binance; the announcements of one loop
\* concern different streams and travel together as one message.

Registered(pairs) == [s \in Streams |-> subscribers[s] \cup {p[2] : p \in {q \in pairs : q[1] = s}}]
Removed(pairs)    == [s \in Streams |-> subscribers[s] \ {p[2] : p \in {q \in pairs : q[1] = s}}]

\* Mutant: only the first subscription of a stream is announced, not the last departure.
AnnounceArrivals(method, streams) ==
    wire' = IF IsOpen /\ streams # {} /\ method = "SUBSCRIBE"
            THEN Append(wire, [method |-> method, streams |-> streams])
            ELSE wire

Announce(method, streams) ==
    wire' = IF IsOpen /\ streams # {}
            THEN Append(wire, [method |-> method, streams |-> streams])
            ELSE wire

Subscribe(pairs) ==
    /\ subscribers' = Registered(pairs)
    /\ Announce("SUBSCRIBE", {s \in Streams : subscribers[s] = {} /\ subscribers'[s] # {}})
    /\ UNCHANGED <<connectionVars, upstream>>

Unsubscribe(pairs) ==
    /\ subscribers' = Removed(pairs)
    /\ Announce("UNSUBSCRIBE", {s \in Streams : subscribers[s] # {} /\ subscribers'[s] = {}})
    /\ UNCHANGED <<connectionVars, upstream>>

-----------------------------------------------------------------------------
\* The life of the socket

\* setUpstreamConnected.
SetUpstreamConnected(connected) == upstreamConnected' = connected

\* The messages 'open' sends: SUBSCRIBE to every key of the map; the mutant forgets.
ResubscribeNothing == <<>>
Resubscribe == IF Demanded = {} THEN <<>>
               ELSE <<[method |-> "SUBSCRIBE", streams |-> Demanded]>>

\* 'open': reset the backoff, tell the listeners, re-subscribe to every key.
Open ==
    /\ ws = "connecting"
    /\ ws' = "open"
    /\ reconnectAttempt' = 0
    /\ rateLimited' = FALSE
    /\ SetUpstreamConnected(TRUE)
    /\ wire' = Resubscribe
    /\ UNCHANGED <<subscribers, reconnectTimer, destroyed, upstream>>

\* Binance sends a close frame: readyState is CLOSING, 'close' has not fired yet.
PeerCloses ==
    /\ ws = "open"
    /\ ws' = "closing"
    /\ UNCHANGED <<subscribers, reconnectTimer, reconnectAttempt, rateLimited,
                   upstreamConnected, destroyed, wire, upstream>>

\* scheduleReconnect, in half seconds: exponential up to 30 s, at least 5 s after a
\* rate-limit close, of which half is random (its two ends stand for the range).
Exponential(n) == IF 2^(n + 1) < 60 THEN 2^(n + 1) ELSE 60
Base(n, limited) == IF limited /\ Exponential(n) < 10 THEN 10 ELSE Exponential(n)
Delays(n, limited) == {Base(n, limited) \div 2, Base(n, limited)}

\* Mutant: the service gives up after MaxAttempt attempts.
ScheduleOrGiveUp(limited) ==
    /\ \E delay \in Delays(reconnectAttempt, limited) :
          reconnectTimer' = IF reconnectAttempt < MaxAttempt THEN delay ELSE 0
    /\ reconnectAttempt' = IF reconnectAttempt < MaxAttempt THEN reconnectAttempt + 1
                           ELSE reconnectAttempt

ScheduleReconnect(limited) ==
    /\ \E delay \in Delays(reconnectAttempt, limited) : reconnectTimer' = delay
    /\ reconnectAttempt' = IF reconnectAttempt < MaxAttempt THEN reconnectAttempt + 1
                           ELSE reconnectAttempt

\* 'close', with or without a close frame or an 'error' before it, also when the
\* connection was never established.
Close ==
    /\ ws # "none"
    /\ \E limited \in BOOLEAN : rateLimited' = (rateLimited \/ limited)
    /\ ws' = "none"
    /\ SetUpstreamConnected(FALSE)
    /\ ScheduleReconnect(rateLimited')
    /\ wire' = <<>>
    /\ upstream' = {}
    /\ UNCHANGED <<subscribers, destroyed>>

\* The timer's callback: connect().
Reconnect ==
    /\ reconnectTimer > 0
    /\ reconnectTimer' = 0
    /\ ws' = IF destroyed THEN ws ELSE "connecting"
    /\ UNCHANGED <<subscribers, reconnectAttempt, rateLimited, upstreamConnected,
                   destroyed, binanceVars>>

\* Mutant: without clearTimeout.
DestroyKeepsTimer ==
    /\ ~destroyed
    /\ destroyed' = TRUE
    /\ ws' = "none"
    /\ wire' = <<>>
    /\ upstream' = {}
    /\ UNCHANGED <<subscribers, reconnectTimer, reconnectAttempt, rateLimited, upstreamConnected>>

\* onModuleDestroy: the listeners are removed, so nothing of the socket is seen again.
Destroy ==
    /\ ~destroyed
    /\ destroyed' = TRUE
    /\ ws' = "none"
    /\ reconnectTimer' = 0
    /\ wire' = <<>>
    /\ upstream' = {}
    /\ UNCHANGED <<subscribers, reconnectAttempt, rateLimited, upstreamConnected>>

\* Binance obeys the oldest control message.
BinanceObeys ==
    /\ ws \in {"open", "closing"} /\ wire # <<>>
    /\ upstream' = IF Head(wire).method = "SUBSCRIBE"
                   THEN upstream \cup Head(wire).streams
                   ELSE upstream \ Head(wire).streams
    /\ wire' = Tail(wire)
    /\ UNCHANGED <<subscribers, connectionVars>>

SocketStep == Open \/ PeerCloses \/ Close \/ Reconnect \/ Destroy \/ BinanceObeys

-----------------------------------------------------------------------------
\* The service on its own: any callback comes and goes on any stream.

StreamNext ==
    \/ /\ Len(wire) < MaxWire
       /\ \E s \in Streams, cb \in Callbacks :
             Subscribe({<<s, cb>>}) \/ Unsubscribe({<<s, cb>>})
    \/ SocketStep

StreamSpec == StreamInit /\ [][StreamNext]_streamVars

\* Timers fire, closing sockets close, Binance answers a handshake one way or the
\* other and obeys its control messages.
StreamFairness ==
    /\ WF_streamVars(Reconnect)
    /\ WF_streamVars(ws \in {"connecting", "closing"} /\ (Open \/ Close))
    /\ WF_streamVars(BinanceObeys)

FairStreamSpec == StreamSpec /\ StreamFairness

-----------------------------------------------------------------------------
\* Properties

\* While connected, what Binance sends once it has obeyed the messages in flight is
\* exactly what has subscribers: the last message that mentions a stream decides,
\* and if none does the stream stays as it is.  This has to survive subscriptions
\* made while the socket is connecting, closing or gone.
Mentions(s) == {i \in DOMAIN wire : s \in wire[i].streams}

WillSend(s) ==
    \/ /\ Mentions(s) = {}
       /\ s \in upstream
    \/ \E i \in Mentions(s) : /\ \A j \in Mentions(s) : j <= i
                              /\ wire[i].method = "SUBSCRIBE"

DemandMirrored == IsOpen => \A s \in Streams : WillSend(s) <=> subscribers[s] # {}

\* There is one reconnect chain: until the service is destroyed there is either a
\* socket or a pending timer, never both (two would double the connections at
\* every loss), never neither (the feed would stay down); afterwards there is none.
OneConnectionChain ==
    /\ ~destroyed => (ws # "none" <=> reconnectTimer = 0)
    /\ destroyed  => ws = "none" /\ reconnectTimer = 0

\* The status told to the listeners is that of the socket: up from 'open' to 'close'.
StatusFollowsSocket ==
    ~destroyed => (upstreamConnected <=> ws \in {"open", "closing"})

\* A connection starts with nothing on its way and nothing sent.
FreshStart == ws \in {"none", "connecting"} => wire = <<>> /\ upstream = {}

\* After a close for exceeding the rate limit, and until a socket is open again, no attempt
\* is made within 2.5 s: half of the floor of 5 s, the other half being jitter.
FloorKept == rateLimited /\ reconnectTimer > 0 => reconnectTimer >= 5

\* The inductive invariant of the service: after any sequence of losses, timers, late
\* 'open's and shutdown there is one chain, the status is the socket's and nothing of
\* an earlier connection is left, and the delays are between floor and cap (connect,
\* scheduleReconnect, onModuleDestroy).
StreamInv == StreamTypeOK /\ OneConnectionChain /\ StatusFollowsSocket /\ FreshStart /\ FloorKept

\* The loop never gives up: a lost connection is followed by another attempt.
KeepsTrying == (ws = "none" /\ ~destroyed) ~> (ws = "connecting" \/ destroyed)

\* A stream someone keeps demanding on a connection that stays open is sent, and one
\* nobody demands any more stops.
DemandServed ==
    \A s \in Streams :
        /\ <>[](IsOpen /\ subscribers[s] # {}) => <>[](s \in upstream)
        /\ <>[](IsOpen /\ subscribers[s] = {}) => <>[](s \notin upstream)
=============================================================================
