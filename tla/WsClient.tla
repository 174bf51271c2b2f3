------------------------------- MODULE WsClient -------------------------------
(***************************************************************************)
(* ExchangeWebSocketClient, the browser's one socket to the API, with the  *)
(* two React hooks that use it (useKlineStream and useAllTickersStream)    *)
(* and the gateway's side of the session at the other end of two FIFO      *)
(* wires.                                                                  *)
(*                                                                         *)
(* The wires end with the connection: what is on them is lost.  A loss the *)
(* server has not noticed leaves a session behind that keeps its slot of   *)
(* the address until the heartbeat ends it.  The server refuses a session  *)
(* by completing the handshake and closing, so the browser sees 'open'     *)
(* before it sees the close.                                               *)
(***************************************************************************)
EXTENDS Integers, Sequences, FiniteSets

CONSTANTS
    Klines,         \* kline channels the chart may show
    Tickers,        \* the ticker channels of the active pairs
    None,           \* no chart mounted
    MaxChannels,    \* MAX_CHANNELS_PER_CLIENT, also the schema's limit per message
    MaxPerIp,       \* MAX_CONNECTIONS_PER_IP
    MaxAttempts,    \* reconnectAttempts saturates here: 2^5 s is past the 30 s cap
    MaxWire         \* bound of the model on the messages on a wire

Channels == Klines \cup Tickers

\* The chart's channel and the tickers fit in one message and one session: the seed
\* has five pairs.
ASSUME WsClientConstants ==
    /\ IsFiniteSet(Tickers)
    /\ Klines \cap Tickers = {}
    /\ None \notin Channels
    /\ MaxChannels \in Nat /\ Cardinality(Tickers) + 1 <= MaxChannels
    /\ MaxPerIp \in Nat \ {0}
    /\ MaxAttempts \in 0..5
    /\ MaxWire \in Nat

VARIABLES
    \* the hooks
    chart,              \* the channel of the mounted useKlineStream effect
    pairs,              \* the channels of the pairs in the tickers query
    listed,             \* the channels of the mounted useAllTickersStream effect
    changed,            \* the query has new data, the effect has not run
    \* ExchangeWebSocketClient and ws-store
    socket,             \* this.socket: its readyState, or "upgraded" when the
                        \*   handshake is done and onopen has not fired
    activeSubscriptions,
    reconnectAttempts,
    reconnectIn,        \* 0, or the delay of the pending timer in seconds
    pingTimer,
    state,
    latencyShown,
    upstreamShown,      \* upstreamConnected: "null", "up" or "down"
    \* the gateway
    session,            \* what the gateway made of the current connection
    serverChannels,     \* keys of its channels map for this session
    lingering,          \* earlier sessions still registered at this address
    feed,               \* binanceStream.isConnected, as it was last told to clients
    \* the connection
    toServer,
    toBrowser

hookVars    == <<chart, pairs, listed, changed>>
storeVars   == <<state, latencyShown, upstreamShown>>
timerVars   == <<reconnectAttempts, reconnectIn, pingTimer>>
serverVars  == <<session, serverChannels, lingering, feed>>
wires       == <<toServer, toBrowser>>
vars        == <<hookVars, socket, activeSubscriptions, timerVars, storeVars,
                 serverVars, wires>>

Requests == [type : {"subscribe", "unsubscribe"}, channels : SUBSET Channels]
                \cup [type : {"ping"}]
Told(up) == IF up THEN "up" ELSE "down"

TypeOK ==
    /\ chart \in Klines \cup {None}
    /\ pairs \subseteq Tickers
    /\ listed \subseteq Tickers
    /\ changed \in BOOLEAN
    /\ socket \in {"none", "connecting", "upgraded", "open", "closing"}
    /\ activeSubscriptions \subseteq Channels
    /\ reconnectAttempts \in 0..MaxAttempts
    /\ reconnectIn \in 0..30
    /\ pingTimer \in BOOLEAN
    /\ state \in {"connecting", "open", "reconnecting"}
    /\ latencyShown \in BOOLEAN
    /\ upstreamShown \in {"null", "up", "down"}
    /\ session \in {"none", "accepted", "refused"}
    /\ serverChannels \subseteq Channels
    /\ lingering \in 0..MaxPerIp
    /\ feed \in BOOLEAN
    /\ toServer \in Seq(Requests)
    /\ toBrowser \in Seq({"up", "down", "pong", "ticker", "close"})

\* The first hook has called getWsClient().connect().
Init ==
    /\ chart = None
    /\ pairs = {}
    /\ listed = {}
    /\ changed = FALSE
    /\ socket = "connecting"
    /\ activeSubscriptions = {}
    /\ reconnectAttempts = 0
    /\ reconnectIn = 0
    /\ pingTimer = FALSE
    /\ state = "connecting"
    /\ latencyShown = FALSE
    /\ upstreamShown = "null"
    /\ session = "none"
    /\ serverChannels = {}
    /\ lingering = 0
    /\ feed \in BOOLEAN
    /\ toServer = <<>>
    /\ toBrowser = <<>>

-----------------------------------------------------------------------------
\* The status footer, from ws-store: its summary and its two rows.

aggregateStatus ==
    CASE state = "connecting"   -> "Connecting"
      [] state = "reconnecting" -> "Reconnecting"
      [] state = "open"         -> IF upstreamShown = "down" THEN "Feed offline" ELSE "Connected"

serverWsStatus ==
    CASE state = "open"         -> "Connected"
      [] state = "connecting"   -> "Connecting"
      [] state = "reconnecting" -> "Reconnecting"

marketFeedStatus ==
    IF state # "open" \/ upstreamShown = "null" THEN "Unknown"
    ELSE IF upstreamShown = "up" THEN "Connected" ELSE "Disconnected"

-----------------------------------------------------------------------------
\* subscribe and unsubscribe of the client

Message(type, channels) ==
    IF channels = {} THEN <<>> ELSE <<[type |-> type, channels |-> channels]>>

\* sendRaw; what is written to a connection the server has dropped goes nowhere.
SendRaw(messages) ==
    toServer' = IF socket = "open" /\ session = "accepted" THEN toServer \o messages
                ELSE toServer

\* Mutant: the new effect runs before the cleanup of the old one.
ExchangeEffectFirst(old, new) ==
    LET kept == activeSubscriptions \ old
    IN  /\ activeSubscriptions' = kept \cup new
        /\ SendRaw(Message("subscribe", new \ kept)
                   \o Message("unsubscribe", old \cap activeSubscriptions))

\* An effect runs again: React runs its cleanup, which unsubscribes the old channels,
\* and then the effect, which subscribes the new ones.
Exchange(old, new) ==
    LET kept == activeSubscriptions \ old
    IN  /\ activeSubscriptions' = kept \cup new
        /\ SendRaw(Message("unsubscribe", old \cap activeSubscriptions)
                   \o Message("subscribe", new \ kept))

QuietClient == UNCHANGED <<socket, timerVars, storeVars>>

\* useKlineStream: mounted, moved to another symbol or interval, or unmounted.
Chart(channel) == IF channel = None THEN {} ELSE {channel}

ShowChart ==
    /\ Len(toServer) < MaxWire
    /\ \E channel \in Klines \cup {None} :
          /\ channel # chart
          /\ chart' = channel
          /\ Exchange(Chart(chart), Chart(channel))
    /\ UNCHANGED <<pairs, listed, changed, serverVars, toBrowser>>
    /\ QuietClient

\* GET /tickers answers, first and then every 30 s: a pair without statistics is left out.
TickersFetched ==
    /\ pairs' \in SUBSET Tickers
    /\ changed' = TRUE
    /\ UNCHANGED <<chart, listed, activeSubscriptions, serverVars, wires>>
    /\ QuietClient

\* useAllTickersStream depends on the tickers array, which every answer and every
\* ticker message replaces: each time its cleanup and the effect run.
ListTickers ==
    /\ Len(toServer) < MaxWire
    /\ listed = {} \/ changed
    /\ listed' = pairs
    /\ changed' = FALSE
    /\ Exchange(listed, pairs)
    /\ UNCHANGED <<chart, pairs, serverVars, toBrowser>>
    /\ QuietClient

\* The page is left: only the cleanup runs.
UnlistTickers ==
    /\ Len(toServer) < MaxWire
    /\ listed # {}
    /\ listed' = {}
    /\ changed' = FALSE
    /\ Exchange(listed, {})
    /\ UNCHANGED <<chart, pairs, serverVars, toBrowser>>
    /\ QuietClient

-----------------------------------------------------------------------------
\* The life of the socket

\* onopen sends what is wanted now; the mutant counts on the hooks to do it.
HooksResubscribe == <<>>
OnOpenMessages == Message("subscribe", activeSubscriptions)

OnOpen ==
    /\ socket = "upgraded"
    /\ socket' = "open"
    /\ reconnectAttempts' = 0
    /\ pingTimer' = TRUE
    /\ state' = "open"
    /\ toServer' = IF session = "accepted" THEN toServer \o OnOpenMessages ELSE toServer
    /\ UNCHANGED <<hookVars, activeSubscriptions, reconnectIn, latencyShown,
                   upstreamShown, serverVars, toBrowser>>

\* onmessage, in the order sent.  The close frame makes readyState CLOSING.
OnMessage ==
    /\ socket = "open"
    /\ toBrowser # <<>>
    /\ toBrowser' = Tail(toBrowser)
    /\ LET message == Head(toBrowser)
       IN  /\ socket' = IF message = "close" THEN "closing" ELSE socket
           /\ latencyShown' = (latencyShown \/ message = "pong")
           /\ upstreamShown' = IF message \in {"up", "down"} THEN message ELSE upstreamShown
           /\ changed' = (changed \/ (message = "ticker" /\ listed # {}))
    /\ UNCHANGED <<chart, pairs, listed, activeSubscriptions, timerVars, state, serverVars, toServer>>

\* Mutant of the delay: a client that gives up.
DelayOrNever(n)  == IF n >= MaxAttempts THEN 0 ELSE 2^n
Delay(n) == IF 2^n < 30 THEN 2^n ELSE 30

\* Mutant: the interval keeps running.
StopPingLoopLate == UNCHANGED pingTimer
StopPingLoop == pingTimer' = FALSE

\* onclose and scheduleReconnect.
OnClose ==
    /\ socket' = "none"
    /\ StopPingLoop
    /\ latencyShown' = FALSE
    /\ upstreamShown' = "null"
    /\ state' = "reconnecting"
    /\ reconnectIn' = Delay(reconnectAttempts)
    /\ session' = "none"
    /\ serverChannels' = {}
    /\ toServer' = <<>>
    /\ toBrowser' = <<>>
    /\ UNCHANGED <<hookVars, activeSubscriptions, reconnectAttempts, feed>>

\* The close handshake ends.
CloseEvent ==
    /\ socket = "closing"
    /\ OnClose
    /\ UNCHANGED lingering

\* The network fails, or the server cannot be reached.  A session the server still
\* holds stays behind.
Loss ==
    /\ socket \in {"connecting", "upgraded", "open"}
    /\ OnClose
    /\ lingering' = IF session = "accepted" THEN lingering + 1 ELSE lingering

\* The timer's callback: connect().
Reconnect ==
    /\ reconnectIn > 0
    /\ reconnectIn' = 0
    /\ reconnectAttempts' = IF reconnectAttempts < MaxAttempts THEN reconnectAttempts + 1
                            ELSE reconnectAttempts
    /\ socket' = "connecting"
    /\ state' = "connecting"
    /\ UNCHANGED <<hookVars, activeSubscriptions, pingTimer, latencyShown, upstreamShown,
                   serverVars, wires>>

\* The interval of startPingLoop.
Ping ==
    /\ pingTimer /\ socket = "open"
    /\ Len(toServer) + Len(toBrowser) < MaxWire
    /\ SendRaw(<<[type |-> "ping"]>>)
    /\ UNCHANGED <<hookVars, activeSubscriptions, serverVars, toBrowser>>
    /\ QuietClient

-----------------------------------------------------------------------------
\* The gateway's side

QuietBrowser == UNCHANGED <<hookVars, activeSubscriptions, timerVars, storeVars>>

\* handleConnection: the handshake is complete either way.  The mutant does not send
\* the status.
NoGreeting(up) == <<>>
Greeting(up) == <<Told(up)>>

Handshake ==
    /\ socket = "connecting"
    /\ socket' = "upgraded"
    /\ \/ /\ lingering < MaxPerIp
          /\ session' = "accepted"
          /\ toBrowser' = Greeting(feed)
       \/ /\ lingering >= MaxPerIp
          /\ session' = "refused"
          /\ toBrowser' = <<"close">>
    /\ UNCHANGED <<serverChannels, lingering, feed, toServer>>
    /\ QuietBrowser

\* addSubscription of each channel in turn, as far as the limit allows.
Added(channels) ==
    {serverChannels \cup taken : taken \in
        {t \in SUBSET (channels \ serverChannels) :
            LET room  == MaxChannels - Cardinality(serverChannels)
                fresh == Cardinality(channels \ serverChannels)
            IN  Cardinality(t) = IF fresh < room THEN fresh ELSE room}}

\* onClientMessage.
ServerReceives ==
    /\ session = "accepted"
    /\ toServer # <<>>
    /\ toServer' = Tail(toServer)
    /\ LET message == Head(toServer) IN
       \/ /\ message.type = "subscribe"
          /\ serverChannels' \in Added(message.channels)
          /\ UNCHANGED toBrowser
       \/ /\ message.type = "unsubscribe"
          /\ serverChannels' = serverChannels \ message.channels
          /\ UNCHANGED toBrowser
       \/ /\ message.type = "ping"
          /\ toBrowser' = Append(toBrowser, "pong")
          /\ UNCHANGED serverChannels
    /\ UNCHANGED <<socket, session, lingering, feed>>
    /\ QuietBrowser

\* dispatchToClient of a ticker update; klines change nothing modelled here.
ServerSendsTicker ==
    /\ session = "accepted" /\ feed
    /\ serverChannels \cap Tickers # {}
    /\ Len(toBrowser) < MaxWire
    /\ toBrowser' = Append(toBrowser, "ticker")
    /\ UNCHANGED <<socket, serverVars, toServer>>
    /\ QuietBrowser

\* broadcastUpstreamStatus.
FeedChanges ==
    /\ Len(toBrowser) < MaxWire
    /\ feed' = ~feed
    /\ toBrowser' = IF session = "accepted" THEN Append(toBrowser, Told(feed')) ELSE toBrowser
    /\ UNCHANGED <<socket, session, serverChannels, lingering, toServer>>
    /\ QuietBrowser

\* The server ends the session: shutdown, or the heartbeat.
ServerDrops ==
    /\ session = "accepted"
    /\ session' = "none"
    /\ serverChannels' = {}
    /\ toServer' = <<>>
    /\ toBrowser' = Append(toBrowser, "close")
    /\ UNCHANGED <<socket, lingering, feed>>
    /\ QuietBrowser

\* The heartbeat, or TCP, ends a session whose browser is long gone.
LingeringEnds ==
    /\ lingering > 0
    /\ lingering' = lingering - 1
    /\ UNCHANGED <<socket, session, serverChannels, feed, wires>>
    /\ QuietBrowser

-----------------------------------------------------------------------------
Browser == OnOpen \/ OnMessage \/ CloseEvent \/ Reconnect
Server  == Handshake \/ ServerReceives \/ LingeringEnds
Lossy   == Loss \/ ServerDrops

Next ==
    \/ ShowChart \/ ListTickers \/ TickersFetched \/ UnlistTickers
    \/ Browser \/ Ping
    \/ Server \/ ServerSendsTicker \/ FeedChanges
    \/ Lossy

Spec == Init /\ [][Next]_vars

\* Event loops run what is ready, timers fire, React runs the effects of new data, a
\* server that can be reached answers a handshake.  Nothing is assumed of the network
\* (Loss) or of what the user and the feed do.
Fairness ==
    /\ WF_vars(OnOpen) /\ WF_vars(OnMessage) /\ WF_vars(CloseEvent) /\ WF_vars(Reconnect)
    /\ WF_vars(Handshake) /\ WF_vars(ServerReceives) /\ WF_vars(LingeringEnds)
    /\ WF_vars(changed /\ ListTickers)

FairSpec == Spec /\ Fairness

-----------------------------------------------------------------------------
\* Properties

Wanted == Chart(chart) \cup listed

\* What the session holds once the messages on the wire are handled: the last one that
\* mentions a channel decides.
Mentions(ch) == {i \in DOMAIN toServer : toServer[i].type # "ping" /\ ch \in toServer[i].channels}

WillHold(ch) ==
    \/ Mentions(ch) = {} /\ ch \in serverChannels
    \/ \E i \in Mentions(ch) : /\ \A j \in Mentions(ch) : j <= i
                               /\ toServer[i].type = "subscribe"

\* The client's set is what the mounted hooks want, and an accepted, open session holds
\* exactly that once the messages on the wire are handled, whatever was mounted,
\* moved and unmounted while the socket was connecting, closing or gone.  The session
\* is never asked for more than its limit on the way.
SubscriptionsInFlight ==
    /\ activeSubscriptions = Wanted
    /\ socket = "open" /\ session = "accepted" =>
          \A ch \in Channels : WillHold(ch) <=> ch \in Wanted

\* What the status footer says of the feed is, up to the messages still on the wire,
\* what the gateway knows of it, in its summary and in its row; a refused session is
\* told nothing, and without a connection nothing of the last one is left on screen.
FeedTruthInFlight ==
    LET news == {i \in DOMAIN toBrowser : toBrowser[i] \in {"up", "down"}}
    IN  /\ session = "accepted" /\ socket = "open" =>
              \/ /\ news = {}
                 /\ marketFeedStatus = IF feed THEN "Connected" ELSE "Disconnected"
                 /\ aggregateStatus = IF feed THEN "Connected" ELSE "Feed offline"
              \/ \E i \in news : /\ \A j \in news : j <= i
                                 /\ toBrowser[i] = Told(feed)
        /\ session = "refused" => marketFeedStatus = "Unknown"
        /\ socket \in {"none", "connecting", "upgraded"} =>
              /\ marketFeedStatus = "Unknown" /\ ~latencyShown
              /\ "Connected" \notin {aggregateStatus, serverWsStatus}

\* One reconnect chain and one ping loop: a pending timer exactly while there is no
\* socket, an interval exactly from 'open' to 'close'; and a session was accepted
\* only if its slot was free, so that forgotten sessions never exceed the limit.
\* With the types it is inductive.
OneChain ==
    /\ socket = "none" <=> reconnectIn > 0
    /\ pingTimer <=> socket \in {"open", "closing"}
    /\ state = "open" <=> socket \in {"open", "closing"}
    /\ session = "accepted" => lingering < MaxPerIp

ClientInv == TypeOK /\ OneChain

\* Once the network holds, the browser gets a session for good, also if its own
\* forgotten sessions filled the address's slots and it was refused until they ended.
Recovers == <>[][~Lossy]_vars => <>[](session = "accepted" /\ socket = "open")

\* Then a chart that stays gets its candles for good, and the tickers come back each
\* time the hook drops and retakes them.
ChannelsServed ==
    /\ \A ch \in Klines :
          <>[][~Lossy]_vars /\ <>[](chart = ch) => <>[](ch \in serverChannels)
    /\ \A ch \in Tickers :
          <>[][~Lossy]_vars /\ <>[](ch \in listed) => []<>(ch \in serverChannels)
=============================================================================
