--------------------------- MODULE WsClient_proofs ---------------------------
(***************************************************************************)
(* Theorems about WsClient, for every set of charts and tickers that fits  *)
(* in a session, and wires of any length.                                  *)
(***************************************************************************)
EXTENDS WsClient, SequenceTheorems, FiniteSetTheorems, TLAPS

-----------------------------------------------------------------------------
\* Types

LEMMA DelayType ==
    ASSUME NEW n \in 0..MaxAttempts
    PROVE  Delay(n) \in 1..30
  <1>1. n \in 0..5
    BY WsClientConstants
  <1>2. n = 0 \/ n = 1 \/ n = 2 \/ n = 3 \/ n = 4 \/ n = 5
    BY <1>1
  <1>3. 2^0 = 1 /\ 2^1 = 2 /\ 2^2 = 4 /\ 2^3 = 8 /\ 2^4 = 16 /\ 2^5 = 32
    OBVIOUS
  <1>4. 2^n \in {1, 2, 4, 8, 16, 32}
    <2>1. CASE n = 0
      BY <1>3, <2>1
    <2>2. CASE n = 1
      BY <1>3, <2>2
    <2>3. CASE n = 2
      BY <1>3, <2>3
    <2>4. CASE n = 3
      BY <1>3, <2>4
    <2>5. CASE n = 4
      BY <1>3, <2>5
    <2>6. CASE n = 5
      BY <1>3, <2>6
    <2>. QED  BY <1>2, <2>1, <2>2, <2>3, <2>4, <2>5, <2>6
  <1>. QED  BY <1>4 DEF Delay

LEMMA MessageType ==
    ASSUME NEW type \in {"subscribe", "unsubscribe"}, NEW channels \in SUBSET Channels
    PROVE  Message(type, channels) \in Seq(Requests)
  <1>1. [type |-> type, channels |-> channels] \in Requests
    BY DEF Requests
  <1>. QED  BY <1>1 DEF Message

LEMMA SendRawType ==
    ASSUME toServer \in Seq(Requests), NEW messages \in Seq(Requests), SendRaw(messages)
    PROVE  toServer' \in Seq(Requests)
BY DEF SendRaw

LEMMA ChannelSets ==
    /\ \A ch \in Klines \cup {None} : Chart(ch) \in SUBSET Channels
    /\ \A set \in SUBSET Tickers : set \in SUBSET Channels
BY DEF Chart, Channels

LEMMA ExchangeType ==
    ASSUME TypeOK, NEW old \in SUBSET Channels, NEW new \in SUBSET Channels, Exchange(old, new)
    PROVE  toServer' \in Seq(Requests) /\ activeSubscriptions' \in SUBSET Channels
  <1>. DEFINE kept == activeSubscriptions \ old
  <1>1. activeSubscriptions \in SUBSET Channels /\ toServer \in Seq(Requests)
    BY DEF TypeOK
  <1>2. /\ old \cap activeSubscriptions \in SUBSET Channels
        /\ new \ kept \in SUBSET Channels
        /\ kept \cup new \in SUBSET Channels
    BY <1>1
  <1>3. /\ Message("unsubscribe", old \cap activeSubscriptions) \in Seq(Requests)
        /\ Message("subscribe", new \ kept) \in Seq(Requests)
    BY <1>2, MessageType
  <1>4. Message("unsubscribe", old \cap activeSubscriptions)
            \o Message("subscribe", new \ kept) \in Seq(Requests)
    BY <1>3, ConcatProperties
  <1>. QED  BY <1>1, <1>2, <1>4, SendRawType DEF Exchange

-----------------------------------------------------------------------------
\* One chain

\* The actions of the hooks and the ping loop write to the wire and to the client's set.
HookStep == ShowChart \/ ListTickers \/ TickersFetched \/ UnlistTickers \/ Ping

Frames == {"up", "down", "pong", "ticker", "close"}

LEMMA EmptyWires == <<>> \in Seq(Requests) /\ <<>> \in Seq(Frames)
OBVIOUS

LEMMA Bounds ==
    MaxAttempts \in Nat /\ MaxPerIp \in Nat /\ MaxPerIp > 0
  <1>. QED  BY WsClientConstants

LEMMA InitClientInv == Init => ClientInv
  <1>. SUFFICES ASSUME Init PROVE ClientInv
    OBVIOUS
  <1>1. TypeOK
    <2>1. 0 \in 0..MaxAttempts /\ 0 \in 0..MaxPerIp /\ 0 \in 0..30
      BY Bounds
    <2>2. toServer \in Seq(Requests) /\ toBrowser \in Seq(Frames)
      BY EmptyWires DEF Init
    <2>. QED  BY <2>1, <2>2 DEF Init, TypeOK, Frames
  <1>2. OneChain
    BY DEF Init, OneChain
  <1>. QED  BY <1>1, <1>2 DEF ClientInv

LEMMA HooksKeep ==
    ASSUME ClientInv, HookStep
    PROVE  ClientInv'
  <1>. USE DEF ClientInv
  <1>1. UNCHANGED <<socket, timerVars, storeVars, serverVars, toBrowser>>
    BY DEF HookStep, ShowChart, ListTickers, TickersFetched, UnlistTickers, Ping, QuietClient,
           wires
  <1>2. OneChain'
    BY <1>1 DEF OneChain, timerVars, storeVars, serverVars
  <1>3. /\ chart' \in Klines \cup {None} /\ pairs' \subseteq Tickers /\ listed' \subseteq Tickers
        /\ changed' \in BOOLEAN
    BY DEF HookStep, ShowChart, ListTickers, TickersFetched, UnlistTickers, Ping, hookVars, TypeOK
  <1>4. toServer' \in Seq(Requests) /\ activeSubscriptions' \in SUBSET Channels
    <2>1. CASE ShowChart
      <3>1. PICK channel \in Klines \cup {None} : Exchange(Chart(chart), Chart(channel))
        BY <2>1 DEF ShowChart
      <3>2. chart \in Klines \cup {None}
        BY DEF TypeOK
      <3>. QED  BY <3>1, <3>2, ExchangeType, ChannelSets
    <2>2. CASE ListTickers \/ UnlistTickers
      <3>1. Exchange(listed, pairs) \/ Exchange(listed, {})
        BY <2>2 DEF ListTickers, UnlistTickers
      <3>2. listed \in SUBSET Channels /\ pairs \in SUBSET Channels /\ {} \in SUBSET Channels
        BY ChannelSets DEF TypeOK
      <3>. QED  BY <3>1, <3>2, ExchangeType
    <2>3. CASE TickersFetched
      BY <2>3 DEF TickersFetched, wires, TypeOK
    <2>4. CASE Ping
      <3>1. <<[type |-> "ping"]>> \in Seq(Requests)
        BY DEF Requests
      <3>. QED  BY <2>4, <3>1, SendRawType DEF Ping, TypeOK
    <2>. QED  BY <2>1, <2>2, <2>3, <2>4 DEF HookStep
  <1>5. TypeOK'
    BY <1>1, <1>3, <1>4 DEF TypeOK, timerVars, storeVars, serverVars
  <1>. QED  BY <1>2, <1>5

\* The end of a socket starts the one timer; a session left behind had its slot.
LEMMA CloseKeeps ==
    ASSUME ClientInv, OnClose,
           \/ UNCHANGED lingering
           \/ session = "accepted" /\ lingering' = lingering + 1
    PROVE  ClientInv'
  <1>. USE DEF ClientInv
  <1>1. /\ socket' = "none" /\ pingTimer' = FALSE /\ latencyShown' = FALSE
        /\ upstreamShown' = "null" /\ state' = "reconnecting"
        /\ reconnectIn' = Delay(reconnectAttempts)
        /\ session' = "none" /\ serverChannels' = {}
        /\ toServer' = <<>> /\ toBrowser' = <<>>
        /\ UNCHANGED <<hookVars, activeSubscriptions, reconnectAttempts, feed>>
    BY DEF OnClose, StopPingLoop
  <1>2. reconnectIn' \in 1..30 /\ reconnectIn' > 0 /\ reconnectIn' \in 0..30
    <2>1. reconnectIn' \in 1..30
      BY <1>1, DelayType DEF TypeOK
    <2>. QED  BY <2>1
  <1>3. lingering' \in 0..MaxPerIp
    <2>1. /\ lingering \in 0..MaxPerIp /\ MaxPerIp \in Nat
          /\ session = "accepted" => lingering < MaxPerIp
      BY WsClientConstants DEF TypeOK, OneChain
    <2>. QED  BY <2>1
  <1>4. TypeOK'
    BY <1>1, <1>2, <1>3, EmptyWires DEF TypeOK, hookVars, Frames
  <1>5. OneChain'
    BY <1>1, <1>2 DEF OneChain
  <1>. QED  BY <1>4, <1>5

LEMMA SocketKeeps ==
    ASSUME ClientInv, OnOpen \/ OnMessage \/ Reconnect
    PROVE  ClientInv'
  <1>. USE DEF ClientInv
  <1>1. CASE OnOpen
    <2>1. toServer' \in Seq(Requests)
      <3>1. OnOpenMessages \in Seq(Requests) /\ toServer \in Seq(Requests)
        BY MessageType DEF OnOpenMessages, TypeOK
      <3>. QED  BY <1>1, <3>1, ConcatProperties DEF OnOpen
    <2>2. /\ socket = "upgraded" /\ socket' = "open" /\ reconnectAttempts' = 0
          /\ pingTimer' = TRUE /\ state' = "open"
          /\ UNCHANGED <<hookVars, activeSubscriptions, reconnectIn, latencyShown,
                         upstreamShown, serverVars, toBrowser>>
      BY <1>1 DEF OnOpen
    <2>3. TypeOK'
      BY <2>1, <2>2, Bounds DEF TypeOK, hookVars, serverVars
    <2>4. OneChain'
      BY <2>2 DEF OneChain, serverVars
    <2>. QED  BY <2>3, <2>4
  <1>2. CASE OnMessage
    <2>1. Head(toBrowser) \in {"up", "down", "pong", "ticker", "close"}
      BY <1>2, HeadTailProperties DEF OnMessage, TypeOK
    <2>2. toBrowser' \in Seq({"up", "down", "pong", "ticker", "close"})
      BY <1>2, HeadTailProperties DEF OnMessage, TypeOK
    <2>3. TypeOK'
      BY <1>2, <2>1, <2>2 DEF OnMessage, TypeOK, timerVars, serverVars
    <2>4. OneChain'
      BY <1>2 DEF OnMessage, OneChain, timerVars, serverVars
    <2>. QED  BY <2>3, <2>4
  <1>3. CASE Reconnect
    <2>1. reconnectAttempts' \in 0..MaxAttempts
      BY <1>3, WsClientConstants DEF Reconnect, TypeOK
    <2>2. TypeOK'
      BY <1>3, <2>1 DEF Reconnect, TypeOK, hookVars, serverVars, wires
    <2>3. OneChain'
      BY <1>3 DEF Reconnect, OneChain, TypeOK, serverVars
    <2>. QED  BY <2>2, <2>3
  <1>. QED  BY <1>1, <1>2, <1>3

LEMMA ServerKeeps ==
    ASSUME ClientInv,
           \/ Handshake \/ ServerReceives \/ LingeringEnds \/ ServerSendsTicker
           \/ FeedChanges \/ ServerDrops
    PROVE  ClientInv'
  <1>. USE DEF ClientInv
  <1>1. UNCHANGED <<hookVars, activeSubscriptions, timerVars, storeVars>>
    BY DEF Handshake, ServerReceives, LingeringEnds, ServerSendsTicker, FeedChanges, ServerDrops,
           QuietBrowser
  <1>2. /\ socket' = socket \/ (socket = "connecting" /\ socket' = "upgraded")
        /\ feed' = feed \/ feed' = ~feed
        /\ \/ session' = session \/ session' \in {"none", "refused"}
           \/ session' = "accepted" /\ lingering < MaxPerIp
        /\ lingering' = lingering \/ (lingering > 0 /\ lingering' = lingering - 1)
    BY DEF Handshake, ServerReceives, LingeringEnds, ServerSendsTicker, FeedChanges, ServerDrops,
           serverVars
  <1>2a. feed' \in BOOLEAN
    BY <1>2 DEF TypeOK
  <1>2b. lingering' \in 0..MaxPerIp /\ (session' = "accepted" => lingering' < MaxPerIp)
    <2>1. /\ lingering \in 0..MaxPerIp
          /\ session = "accepted" => lingering < MaxPerIp
      BY DEF TypeOK, OneChain
    <2>. QED  BY <1>2, <2>1, Bounds
  <1>2c. session' \in {"none", "accepted", "refused"}
    BY <1>2 DEF TypeOK
  <1>3. toBrowser' \in Seq(Frames)
    <2>1. Told(feed) \in Frames /\ Told(feed') \in Frames /\ toBrowser \in Seq(Frames)
      BY DEF Told, TypeOK, Frames
    <2>2. CASE Handshake
      <3>1. toBrowser' = <<Told(feed)>> \/ toBrowser' = <<"close">>
        BY <2>2 DEF Handshake, Greeting
      <3>2. \A frame \in Frames : <<frame>> \in Seq(Frames)
        OBVIOUS
      <3>3. "close" \in Frames
        BY DEF Frames
      <3>. QED  BY <2>1, <3>1, <3>2, <3>3
    <2>3. CASE ServerReceives \/ ServerSendsTicker \/ ServerDrops
      BY <2>1, <2>3 DEF ServerReceives, ServerSendsTicker, ServerDrops, Frames
    <2>4. CASE FeedChanges
      BY <2>1, <2>4 DEF FeedChanges
    <2>5. CASE LingeringEnds
      BY <2>1, <2>5 DEF LingeringEnds, wires
    <2>. QED  BY <2>2, <2>3, <2>4, <2>5
  <1>4. toServer' \in Seq(Requests)
    <2>1. toServer \in Seq(Requests)
      BY DEF TypeOK
    <2>2. \/ toServer' = toServer \/ toServer' = <<>>
          \/ toServer # <<>> /\ toServer' = Tail(toServer)
      BY DEF Handshake, ServerReceives, LingeringEnds, ServerSendsTicker, FeedChanges,
             ServerDrops, wires
    <2>. QED  BY <2>1, <2>2, EmptyWires, HeadTailProperties
  <1>5. serverChannels' \in SUBSET Channels
    <2>1. CASE ServerReceives
      <3>1. Head(toServer) \in Requests
        BY <2>1, HeadTailProperties DEF ServerReceives, TypeOK
      <3>2. serverChannels' \in SUBSET (serverChannels \cup Head(toServer).channels)
            \/ serverChannels' \subseteq serverChannels
        BY <2>1 DEF ServerReceives, Added
      <3>3. CASE Head(toServer).type = "ping"
        BY <2>1, <3>3 DEF ServerReceives, TypeOK
      <3>4. CASE Head(toServer).type # "ping"
        <4>1. Head(toServer).channels \in SUBSET Channels
          BY <3>1, <3>4 DEF Requests
        <4>. QED  BY <3>2, <4>1 DEF TypeOK
      <3>. QED  BY <3>3, <3>4
    <2>. QED
      BY <2>1 DEF Handshake, LingeringEnds, ServerSendsTicker, FeedChanges, ServerDrops,
                  serverVars, TypeOK
  <1>6. TypeOK'
    BY <1>1, <1>2, <1>2a, <1>2b, <1>2c, <1>3, <1>4, <1>5
       DEF TypeOK, Frames, hookVars, timerVars, storeVars
  <1>7. OneChain'
    BY <1>1, <1>2, <1>2b DEF OneChain, timerVars, storeVars
  <1>. QED  BY <1>6, <1>7

LEMMA NextClientInv == ClientInv /\ [Next]_vars => ClientInv'
  <1>. SUFFICES ASSUME ClientInv, [Next]_vars PROVE ClientInv'
    OBVIOUS
  <1>1. CASE CloseEvent \/ Loss
    BY <1>1, CloseKeeps DEF CloseEvent, Loss
  <1>2. CASE UNCHANGED vars
    BY <1>2 DEF vars, hookVars, timerVars, storeVars, serverVars, wires, ClientInv, TypeOK, OneChain
  <1>. QED
    BY <1>1, <1>2, HooksKeep, SocketKeeps, ServerKeeps
       DEF Next, Browser, Server, Lossy, HookStep

\* The browser has one socket, one timer and one ping loop at a time, whatever is lost,
\* and its forgotten sessions never take more slots than its address has.
THEOREM Invariance == Spec => []ClientInv
  <1>. QED  BY InitClientInv, NextClientInv, PTL DEF Spec

-----------------------------------------------------------------------------
\* What the browser believes of the feed

News == {"up", "down"}

NoNews(wire) == \A i \in DOMAIN wire : wire[i] \notin News

LastNews(wire, news) ==
    \E i \in DOMAIN wire : wire[i] = news /\ \A j \in DOMAIN wire : j > i => wire[j] \notin News

LEMMA AppendNews ==
    ASSUME NEW wire \in Seq(Frames), NEW frame \in Frames, NEW news \in News
    PROVE  /\ frame = news => LastNews(Append(wire, frame), news)
           /\ frame \notin News /\ LastNews(wire, news) => LastNews(Append(wire, frame), news)
           /\ frame \notin News /\ NoNews(wire) => NoNews(Append(wire, frame))
  <1>. DEFINE n == Len(wire)
              longer == Append(wire, frame)
  <1>1. /\ n \in Nat /\ DOMAIN wire = 1..n /\ DOMAIN longer = 1..n + 1
        /\ longer[n + 1] = frame /\ \A i \in 1..n : longer[i] = wire[i]
    OBVIOUS
  <1>. HIDE DEF n, longer
  <1>2. ASSUME frame = news PROVE LastNews(longer, news)
    <2>1. n + 1 \in DOMAIN longer /\ \A j \in DOMAIN longer : ~(j > n + 1)
      BY <1>1
    <2>. QED  BY <1>1, <1>2, <2>1 DEF LastNews
  <1>3. ASSUME frame \notin News, LastNews(wire, news) PROVE LastNews(longer, news)
    <2>1. PICK i \in 1..n : wire[i] = news /\ \A j \in 1..n : j > i => wire[j] \notin News
      BY <1>1, <1>3 DEF LastNews
    <2>2. i \in 1..n + 1
      BY <1>1
    <2>3. ASSUME NEW j \in 1..n + 1, j > i PROVE longer[j] \notin News
      <3>1. j = n + 1 \/ j \in 1..n
        BY <1>1
      <3>. QED  BY <1>1, <1>3, <2>1, <2>3, <3>1
    <2>. QED  BY <1>1, <2>1, <2>2, <2>3 DEF LastNews
  <1>4. ASSUME frame \notin News, NoNews(wire) PROVE NoNews(longer)
    <2>1. \A j \in 1..n + 1 : j = n + 1 \/ j \in 1..n
      BY <1>1
    <2>. QED  BY <1>1, <1>4, <2>1 DEF NoNews
  <1>. QED  BY <1>2, <1>3, <1>4 DEF longer

LEMMA TailNews ==
    ASSUME NEW wire \in Seq(Frames), wire # <<>>, NEW news \in News
    PROVE  /\ NoNews(wire) => Head(wire) \notin News /\ NoNews(Tail(wire))
           /\ LastNews(wire, news) =>
                 \/ Head(wire) = news /\ NoNews(Tail(wire))
                 \/ LastNews(Tail(wire), news)
  <1>. DEFINE n == Len(wire)
              rest == Tail(wire)
  <1>1. /\ n \in Nat \ {0} /\ DOMAIN wire = 1..n /\ DOMAIN rest = 1..n - 1
        /\ Head(wire) = wire[1] /\ \A i \in 1..n - 1 : rest[i] = wire[i + 1]
    OBVIOUS
  <1>. HIDE DEF n, rest
  <1>2. 1 \in 1..n /\ \A i \in 1..n - 1 : i + 1 \in 1..n /\ i + 1 > 1
    BY <1>1
  <1>3. ASSUME NoNews(wire) PROVE Head(wire) \notin News /\ NoNews(rest)
    BY <1>1, <1>2, <1>3 DEF NoNews
  <1>4. ASSUME LastNews(wire, news)
        PROVE  (Head(wire) = news /\ NoNews(rest)) \/ LastNews(rest, news)
    <2>1. PICK i \in 1..n : wire[i] = news /\ \A j \in 1..n : j > i => wire[j] \notin News
      BY <1>1, <1>4 DEF LastNews
    <2>2. CASE i = 1
      BY <1>1, <1>2, <2>1, <2>2 DEF NoNews
    <2>3. CASE i # 1
      <3>1. i - 1 \in 1..n - 1 /\ (i - 1) + 1 = i
        BY <1>1, <2>3
      <3>2. \A j \in 1..n - 1 : j > i - 1 => j + 1 > i
        BY <1>1
      <3>3. rest[i - 1] = news /\ \A j \in 1..n - 1 : j > i - 1 => rest[j] \notin News
        BY <1>1, <1>2, <2>1, <3>1, <3>2
      <3>. QED  BY <1>1, <3>1, <3>3 DEF LastNews
    <2>. QED  BY <2>2, <2>3
  <1>. QED  BY <1>3, <1>4 DEF rest

\* The news a session brings ends with the truth, from its first moment on; a refused
\* session brings none; and a socket that is not open shows nothing.
FeedInv ==
    /\ session = "accepted" /\ socket \in {"upgraded", "open"} =>
          \/ LastNews(toBrowser, Told(feed))
          \/ socket = "open" /\ NoNews(toBrowser) /\ upstreamShown = Told(feed)
    /\ session = "refused" => upstreamShown = "null" /\ NoNews(toBrowser)
    /\ socket \in {"none", "connecting"} => session = "none"
    /\ socket \in {"none", "connecting", "upgraded"} => upstreamShown = "null" /\ latencyShown = FALSE

LEMMA ToldType ==
    ASSUME TypeOK
    PROVE  /\ Told(feed) \in News /\ Told(~feed) \in News /\ Told(feed) # Told(~feed)
           /\ News \subseteq Frames
           /\ toBrowser \in Seq(Frames)
BY DEF Told, News, Frames, TypeOK

LEMMA FeedNext == ClientInv /\ FeedInv /\ [Next]_vars => FeedInv'
  <1>. SUFFICES ASSUME ClientInv, FeedInv, [Next]_vars PROVE FeedInv'
    OBVIOUS
  <1>. DEFINE truth == Told(feed)
  <1>0. /\ truth \in News /\ News \subseteq Frames /\ toBrowser \in Seq(Frames) /\ TypeOK
    BY ToldType DEF ClientInv
  <1>1. CASE UNCHANGED <<socket, storeVars, session, feed, toBrowser>>
    BY <1>1 DEF FeedInv, storeVars
  <1>2. CASE CloseEvent \/ Loss
    BY <1>2 DEF CloseEvent, Loss, OnClose, FeedInv
  <1>3. CASE OnOpen
    BY <1>3 DEF OnOpen, FeedInv, serverVars
  <1>4. CASE OnMessage
    <2>1. /\ socket = "open" /\ toBrowser # <<>> /\ toBrowser' = Tail(toBrowser)
          /\ socket' = IF Head(toBrowser) = "close" THEN "closing" ELSE socket
          /\ upstreamShown' = IF Head(toBrowser) \in News THEN Head(toBrowser) ELSE upstreamShown
          /\ UNCHANGED <<session, feed>>
      BY <1>4 DEF OnMessage, News, serverVars
    <2>2. socket' \notin {"none", "connecting", "upgraded"}
      BY <2>1
    <2>3. ASSUME session = "refused" PROVE upstreamShown' = "null" /\ NoNews(toBrowser')
      BY <1>0, <2>1, <2>3, TailNews DEF FeedInv
    <2>4. ASSUME session = "accepted", socket' = "open"
          PROVE  \/ LastNews(toBrowser', truth)
                 \/ NoNews(toBrowser') /\ upstreamShown' = truth
      <3>1. \/ LastNews(toBrowser, truth)
            \/ NoNews(toBrowser) /\ upstreamShown = truth
        BY <2>1, <2>4 DEF FeedInv
      <3>. QED  BY <1>0, <2>1, <3>1, TailNews
    <2>. QED  BY <2>1, <2>2, <2>3, <2>4 DEF FeedInv
  <1>5. CASE Reconnect
    <2>1. socket = "none" /\ socket' = "connecting"
      BY <1>5 DEF Reconnect, ClientInv, OneChain
    <2>. QED  BY <1>5, <2>1 DEF Reconnect, FeedInv, serverVars
  <1>6. CASE Handshake
    <2>1. /\ socket = "connecting" /\ socket' = "upgraded"
          /\ UNCHANGED <<feed, upstreamShown, latencyShown>>
          /\ \/ session' = "accepted" /\ toBrowser' = <<truth>>
             \/ session' = "refused" /\ toBrowser' = <<"close">>
      BY <1>6 DEF Handshake, Greeting, QuietBrowser, storeVars
    <2>2. LastNews(<<truth>>, truth) /\ NoNews(<<"close">>)
      BY DEF LastNews, NoNews, News
    <2>. QED  BY <2>1, <2>2 DEF FeedInv
  <1>7. ASSUME NEW frame \in Frames \ News, toBrowser' = Append(toBrowser, frame),
               UNCHANGED <<socket, storeVars, session, feed>>, session = "accepted"
        PROVE  FeedInv'
    <2>1. /\ LastNews(toBrowser, truth) => LastNews(toBrowser', truth)
          /\ NoNews(toBrowser) => NoNews(toBrowser')
      BY <1>0, <1>7, AppendNews
    <2>. QED  BY <1>7, <2>1 DEF FeedInv, storeVars
  <1>8. CASE ServerReceives
    <2>1. CASE toBrowser' = Append(toBrowser, "pong")
      BY <1>7, <1>8, <2>1 DEF ServerReceives, QuietBrowser, Frames, News
    <2>2. CASE UNCHANGED toBrowser
      BY <1>1, <1>8, <2>2 DEF ServerReceives, QuietBrowser
    <2>. QED  BY <1>8, <2>1, <2>2 DEF ServerReceives
  <1>9. CASE ServerSendsTicker
    BY <1>7, <1>9 DEF ServerSendsTicker, QuietBrowser, serverVars, Frames, News
  <1>10. CASE FeedChanges
    <2>1. /\ feed' = ~feed /\ UNCHANGED <<socket, session, upstreamShown, latencyShown>>
          /\ toBrowser' = IF session = "accepted" THEN Append(toBrowser, Told(~feed))
                          ELSE toBrowser
      BY <1>10 DEF FeedChanges, QuietBrowser, storeVars
    <2>2. session = "accepted" => LastNews(toBrowser', Told(~feed))
      BY <1>0, <2>1, ToldType, AppendNews
    <2>3. Told(feed)' = Told(~feed)
      BY <2>1 DEF Told
    <2>. QED  BY <2>1, <2>2, <2>3 DEF FeedInv
  <1>11. CASE ServerDrops
    BY <1>11 DEF ServerDrops, QuietBrowser, storeVars, FeedInv
  <1>12. CASE \/ HookStep \/ LingeringEnds \/ UNCHANGED vars
    BY <1>1, <1>12 DEF HookStep, ShowChart, ListTickers, TickersFetched, UnlistTickers, Ping,
                       LingeringEnds, QuietClient, QuietBrowser, serverVars, wires, vars
  <1>. QED
    BY <1>2, <1>3, <1>4, <1>5, <1>6, <1>8, <1>9, <1>10, <1>11, <1>12
       DEF Next, Browser, Server, Lossy, HookStep

LEMMA InitFeed == Init => FeedInv
BY DEF Init, FeedInv

\* What the status footer says of the feed is what the gateway last said or is about to
\* say; a refused session and a socket that is not open show nothing.
THEOREM FeedIsTrue == Spec => []FeedTruthInFlight
  <1>1. ASSUME ClientInv, FeedInv PROVE FeedTruthInFlight
    <2>. DEFINE news == {i \in DOMAIN toBrowser : toBrowser[i] \in {"up", "down"}}
    <2>1. /\ socket = "open" => state = "open"
          /\ socket \in {"none", "connecting", "upgraded"} => state # "open"
          /\ state \in {"connecting", "open", "reconnecting"}
          /\ toBrowser \in Seq(Frames)
      BY <1>1, ToldType DEF ClientInv, OneChain, TypeOK
    <2>2. ASSUME session = "accepted", socket = "open"
          PROVE  \/ /\ news = {}
                    /\ marketFeedStatus = IF feed THEN "Connected" ELSE "Disconnected"
                    /\ aggregateStatus = IF feed THEN "Connected" ELSE "Feed offline"
                 \/ \E i \in news : /\ \A j \in news : j <= i
                                    /\ toBrowser[i] = Told(feed)
      <3>1. CASE LastNews(toBrowser, Told(feed))
        <4>1. PICK i \in DOMAIN toBrowser :
                 /\ toBrowser[i] = Told(feed)
                 /\ \A j \in DOMAIN toBrowser : j > i => toBrowser[j] \notin News
          BY <3>1 DEF LastNews
        <4>2. i \in news
          BY <4>1 DEF Told
        <4>3. ASSUME NEW j \in news PROVE j <= i
          <5>1. i \in Int /\ j \in Int
            BY <2>1
          <5>. QED  BY <4>1, <5>1 DEF News
        <4>. QED  BY <4>1, <4>2, <4>3
      <3>2. CASE NoNews(toBrowser) /\ upstreamShown = Told(feed)
        <4>1. news = {}
          BY <3>2 DEF NoNews, News
        <4>. QED  BY <2>1, <2>2, <3>2, <4>1 DEF marketFeedStatus, aggregateStatus, Told
      <3>. QED  BY <1>1, <2>2, <3>1, <3>2 DEF FeedInv
    <2>3. session = "refused" => marketFeedStatus = "Unknown"
      BY <1>1 DEF FeedInv, marketFeedStatus
    <2>4. ASSUME socket \in {"none", "connecting", "upgraded"}
          PROVE  /\ marketFeedStatus = "Unknown" /\ ~latencyShown
                 /\ "Connected" \notin {aggregateStatus, serverWsStatus}
      BY <1>1, <2>1, <2>4 DEF FeedInv, marketFeedStatus, aggregateStatus, serverWsStatus
    <2>. QED  BY <2>2, <2>3, <2>4 DEF FeedTruthInFlight
  <1>. QED
    BY <1>1, InitClientInv, InitFeed, NextClientInv, FeedNext, PTL DEF Spec

-----------------------------------------------------------------------------
\* What a session holds after a number of the messages under way

Asks(message, ch) == message.type # "ping" /\ ch \in message.channels

HeldAfter(held, wire, k, ch) ==
    \/ ch \in held /\ \A i \in 1..k : ~Asks(wire[i], ch)
    \/ \E i \in 1..k : /\ Asks(wire[i], ch) /\ wire[i].type = "subscribe"
                       /\ \A j \in 1..k : j > i => ~Asks(wire[j], ch)

OneChart(S) == \A a, b \in Klines \cap S : a = b

\* In the end the session holds S, and on the way never more than one chart: with the
\* tickers that is within its limit.
LeadsTo(held, wire, S) ==
    /\ \A ch \in Channels : HeldAfter(held, wire, Len(wire), ch) <=> ch \in S
    /\ \A k \in 0..Len(wire) : OneChart({ch \in Channels : HeldAfter(held, wire, k, ch)})

LEMMA AppendHeld ==
    ASSUME NEW wire \in Seq(Requests), NEW m \in Requests, NEW held, NEW ch
    PROVE  /\ \A k \in 0..Len(wire) :
                 HeldAfter(held, Append(wire, m), k, ch) <=> HeldAfter(held, wire, k, ch)
           /\ HeldAfter(held, Append(wire, m), Len(wire) + 1, ch) <=>
                 IF Asks(m, ch) THEN m.type = "subscribe"
                 ELSE HeldAfter(held, wire, Len(wire), ch)
  <1>. DEFINE n == Len(wire)
              longer == Append(wire, m)
  <1>1. n \in Nat /\ longer[n + 1] = m /\ \A i \in 1..n : longer[i] = wire[i]
    OBVIOUS
  <1>. HIDE DEF n, longer
  <1>2. \A k \in 0..n : \A i \in 1..k : i \in 1..n /\ longer[i] = wire[i]
    BY <1>1
  <1>3. \A k \in 0..n : HeldAfter(held, longer, k, ch) <=> HeldAfter(held, wire, k, ch)
    BY <1>2 DEF HeldAfter
  <1>4. \A i \in 1..n + 1 : i = n + 1 \/ i \in 1..n
    BY <1>1
  <1>5. /\ n + 1 \in 1..n + 1 /\ \A i \in 1..n : i \in 1..n + 1 /\ n + 1 > i
        /\ \A j \in 1..n + 1 : ~(j > n + 1)
    BY <1>1
  <1>6. CASE Asks(m, ch)
    <2>1. ASSUME HeldAfter(held, longer, n + 1, ch) PROVE m.type = "subscribe"
      <3>1. PICK i \in 1..n + 1 : /\ Asks(longer[i], ch) /\ longer[i].type = "subscribe"
                                  /\ \A j \in 1..n + 1 : j > i => ~Asks(longer[j], ch)
        BY <1>1, <1>5, <1>6, <2>1 DEF HeldAfter
      <3>2. i = n + 1
        BY <1>1, <1>4, <1>5, <1>6, <3>1
      <3>. QED  BY <1>1, <3>1, <3>2
    <2>2. ASSUME m.type = "subscribe" PROVE HeldAfter(held, longer, n + 1, ch)
      BY <1>1, <1>5, <1>6, <2>2 DEF HeldAfter
    <2>. QED  BY <1>3, <1>6, <2>1, <2>2 DEF n, longer
  <1>7. CASE ~Asks(m, ch)
    <2>1. \A i \in 1..n + 1 : Asks(longer[i], ch) <=> i \in 1..n /\ Asks(wire[i], ch)
      BY <1>1, <1>4, <1>7
    <2>2. ASSUME HeldAfter(held, longer, n + 1, ch) PROVE HeldAfter(held, wire, n, ch)
      BY <1>1, <1>5, <2>1, <2>2 DEF HeldAfter
    <2>3. ASSUME HeldAfter(held, wire, n, ch) PROVE HeldAfter(held, longer, n + 1, ch)
      BY <1>1, <1>5, <2>1, <2>3 DEF HeldAfter
    <2>. QED  BY <1>3, <1>7, <2>2, <2>3 DEF n, longer
  <1>. QED  BY <1>6, <1>7

LEMMA TailHeld ==
    ASSUME NEW wire \in Seq(Requests), wire # <<>>, NEW held, NEW next, NEW ch,
           ch \in next <=> HeldAfter(held, wire, 1, ch)
    PROVE  \A k \in 0..Len(wire) - 1 :
              HeldAfter(next, Tail(wire), k, ch) <=> HeldAfter(held, wire, k + 1, ch)
  <1>. DEFINE n == Len(wire)
              rest == Tail(wire)
  <1>1. n \in Nat \ {0} /\ \A i \in 1..n - 1 : rest[i] = wire[i + 1]
    OBVIOUS
  <1>. HIDE DEF n, rest
  <1>2. SUFFICES ASSUME NEW k \in 0..n - 1
                 PROVE  HeldAfter(next, rest, k, ch) <=> HeldAfter(held, wire, k + 1, ch)
    BY DEF n, rest
  <1>3. /\ \A i \in 1..k : i + 1 \in 1..k + 1 /\ i + 1 > 1 /\ rest[i] = wire[i + 1]
        /\ \A i \in 1..k + 1 : i = 1 \/ (i - 1 \in 1..k /\ (i - 1) + 1 = i)
        /\ 1 \in 1..k + 1
    BY <1>1
  <1>4. \A i, j \in 1..k : j > i <=> j + 1 > i + 1
    OBVIOUS
  <1>5. ch \in next <=> \/ ch \in held /\ ~Asks(wire[1], ch)
                        \/ Asks(wire[1], ch) /\ wire[1].type = "subscribe"
    <2>1. 1..1 = {1} /\ ~(1 > 1)
      OBVIOUS
    <2>. QED  BY <2>1 DEF HeldAfter
  <1>6. ASSUME HeldAfter(next, rest, k, ch) PROVE HeldAfter(held, wire, k + 1, ch)
    <2>1. CASE ch \in next /\ \A i \in 1..k : ~Asks(rest[i], ch)
      <3>1. \A i \in 1..k + 1 : i = 1 \/ ~Asks(wire[i], ch)
        BY <1>3, <2>1
      <3>2. CASE Asks(wire[1], ch)
        <4>1. \A j \in 1..k + 1 : j > 1 => ~Asks(wire[j], ch)
          BY <3>1
        <4>. QED  BY <1>3, <1>5, <2>1, <3>2, <4>1 DEF HeldAfter
      <3>3. CASE ~Asks(wire[1], ch)
        BY <1>5, <2>1, <3>1, <3>3 DEF HeldAfter
      <3>. QED  BY <3>2, <3>3
    <2>2. CASE \E i \in 1..k : /\ Asks(rest[i], ch) /\ rest[i].type = "subscribe"
                               /\ \A j \in 1..k : j > i => ~Asks(rest[j], ch)
      <3>1. PICK i \in 1..k : /\ Asks(rest[i], ch) /\ rest[i].type = "subscribe"
                              /\ \A j \in 1..k : j > i => ~Asks(rest[j], ch)
        BY <2>2
      <3>2. ASSUME NEW j \in 1..k + 1, j > i + 1 PROVE ~Asks(wire[j], ch)
        <4>1. j - 1 \in 1..k /\ (j - 1) + 1 = j /\ j - 1 > i
          BY <3>2
        <4>. QED  BY <1>3, <3>1, <4>1
      <3>. QED  BY <1>3, <3>1, <3>2 DEF HeldAfter
    <2>. QED  BY <1>6, <2>1, <2>2 DEF HeldAfter
  <1>7. ASSUME HeldAfter(held, wire, k + 1, ch) PROVE HeldAfter(next, rest, k, ch)
    <2>1. CASE ch \in held /\ \A i \in 1..k + 1 : ~Asks(wire[i], ch)
      BY <1>3, <1>5, <2>1 DEF HeldAfter
    <2>2. CASE \E i \in 1..k + 1 : /\ Asks(wire[i], ch) /\ wire[i].type = "subscribe"
                                   /\ \A j \in 1..k + 1 : j > i => ~Asks(wire[j], ch)
      <3>1. PICK i \in 1..k + 1 : /\ Asks(wire[i], ch) /\ wire[i].type = "subscribe"
                                  /\ \A j \in 1..k + 1 : j > i => ~Asks(wire[j], ch)
        BY <2>2
      <3>2. CASE i = 1
        <4>1. \A j \in 1..k : ~Asks(rest[j], ch)
          BY <1>3, <3>1, <3>2
        <4>. QED  BY <1>5, <3>1, <3>2, <4>1 DEF HeldAfter
      <3>3. CASE i # 1
        <4>1. i - 1 \in 1..k /\ rest[i - 1] = wire[i]
          BY <1>3, <3>3
        <4>2. ASSUME NEW j \in 1..k, j > i - 1 PROVE ~Asks(rest[j], ch)
          <5>1. j + 1 > i
            BY <4>2
          <5>. QED  BY <1>3, <3>1, <5>1
        <4>. QED  BY <3>1, <4>1, <4>2 DEF HeldAfter
      <3>. QED  BY <3>2, <3>3
    <2>. QED  BY <1>7, <2>1, <2>2 DEF HeldAfter
  <1>. QED  BY <1>6, <1>7

LEMMA AppendLeads ==
    ASSUME NEW wire \in Seq(Requests), NEW m \in Requests, NEW held, NEW S, NEW T,
           LeadsTo(held, wire, S), OneChart(T),
           \A ch \in Channels : ch \in T <=> IF Asks(m, ch) THEN m.type = "subscribe" ELSE ch \in S
    PROVE  LeadsTo(held, Append(wire, m), T)
  <1>. DEFINE longer == Append(wire, m)
  <1>1. /\ Len(wire) \in Nat /\ Len(longer) = Len(wire) + 1
        /\ \A k \in 0..Len(longer) : k = Len(wire) + 1 \/ k \in 0..Len(wire)
    OBVIOUS
  <1>2. \A ch \in Channels :
           /\ \A k \in 0..Len(wire) : HeldAfter(held, longer, k, ch) <=> HeldAfter(held, wire, k, ch)
           /\ HeldAfter(held, longer, Len(wire) + 1, ch) <=>
                 IF Asks(m, ch) THEN m.type = "subscribe" ELSE HeldAfter(held, wire, Len(wire), ch)
    BY AppendHeld
  <1>. HIDE DEF longer
  <1>3. \A ch \in Channels : HeldAfter(held, longer, Len(longer), ch) <=> ch \in T
    BY <1>1, <1>2 DEF LeadsTo
  <1>4. ASSUME NEW k \in 0..Len(longer)
        PROVE  OneChart({ch \in Channels : HeldAfter(held, longer, k, ch)})
    <2>1. CASE k \in 0..Len(wire)
      BY <1>2, <2>1 DEF LeadsTo, OneChart
    <2>2. CASE k = Len(wire) + 1
      BY <1>1, <1>3, <2>2 DEF OneChart
    <2>. QED  BY <1>1, <2>1, <2>2
  <1>. QED  BY <1>3, <1>4 DEF LeadsTo, longer

\* The client's messages: none when there is nothing to ask for.
LEMMA MessageLeads ==
    ASSUME NEW wire \in Seq(Requests), NEW held, NEW S, NEW T,
           NEW type \in {"subscribe", "unsubscribe"}, NEW X \in SUBSET Channels,
           LeadsTo(held, wire, S), OneChart(T),
           T = IF type = "subscribe" THEN S \cup X ELSE S \ X
    PROVE  LeadsTo(held, wire \o Message(type, X), T)
  <1>1. CASE X = {}
    <2>1. T = S
      BY <1>1
    <2>2. wire \o Message(type, X) = wire
      BY <1>1 DEF Message
    <2>. QED  BY <2>1, <2>2
  <1>2. CASE X # {}
    <2>. DEFINE m == [type |-> type, channels |-> X]
    <2>1. m \in Requests /\ m.type = type /\ m.type # "ping" /\ m.channels = X
      BY DEF Requests
    <2>2. wire \o Message(type, X) = Append(wire, m)
      BY <1>2, <2>1 DEF Message
    <2>3. \A ch \in Channels : ch \in T <=> IF Asks(m, ch) THEN m.type = "subscribe" ELSE ch \in S
      BY <2>1 DEF Asks
    <2>. HIDE DEF m
    <2>. QED  BY <2>1, <2>2, <2>3, AppendLeads
  <1>. QED  BY <1>1, <1>2

\* A cleanup and the effect that follows, written to the wire.
LEMMA ExchangeLeads ==
    ASSUME TypeOK, NEW old \in SUBSET Channels, NEW new \in SUBSET Channels,
           Exchange(old, new), socket = "open", session = "accepted",
           LeadsTo(serverChannels, toServer, activeSubscriptions),
           OneChart(activeSubscriptions), OneChart(activeSubscriptions')
    PROVE  LeadsTo(serverChannels, toServer', activeSubscriptions')
  <1>. DEFINE kept == activeSubscriptions \ old
              gone == old \cap activeSubscriptions
              drop == Message("unsubscribe", gone)
              take == Message("subscribe", new \ kept)
  <1>1. /\ activeSubscriptions' = kept \cup (new \ kept)
        /\ kept = activeSubscriptions \ gone
        /\ toServer' = toServer \o (drop \o take)
    BY DEF Exchange, SendRaw
  <1>2. /\ toServer \in Seq(Requests) /\ activeSubscriptions \in SUBSET Channels
        /\ gone \in SUBSET Channels /\ new \ kept \in SUBSET Channels
    BY DEF TypeOK
  <1>3. drop \in Seq(Requests) /\ take \in Seq(Requests)
    BY <1>2, MessageType
  <1>4. toServer' = (toServer \o drop) \o take /\ toServer \o drop \in Seq(Requests)
    BY <1>1, <1>2, <1>3, ConcatAssociative, ConcatProperties
  <1>5. OneChart(kept)
    BY DEF OneChart
  <1>. HIDE DEF kept, gone
  <1>6. LeadsTo(serverChannels, toServer \o drop, kept)
    BY <1>1, <1>2, <1>5, MessageLeads
  <1>7. LeadsTo(serverChannels, (toServer \o drop) \o take, activeSubscriptions')
    BY <1>1, <1>2, <1>4, <1>6, MessageLeads
  <1>. QED  BY <1>4, <1>7

\* One chart and the tickers are within the limit, so a subscription adds all it names.
LEMMA AddsAll ==
    ASSUME serverChannels \in SUBSET Channels, NEW channels \in SUBSET Channels,
           OneChart(serverChannels \cup channels), NEW added \in Added(channels)
    PROVE  added = serverChannels \cup channels
  <1>. DEFINE all == serverChannels \cup channels
              fresh == channels \ serverChannels
  <1>1. IsFiniteSet(all) /\ Cardinality(all) <= MaxChannels
    <2>1. /\ IsFiniteSet(Tickers) /\ Cardinality(Tickers) \in Nat /\ MaxChannels \in Nat
          /\ Cardinality(Tickers) + 1 <= MaxChannels
      BY WsClientConstants, FS_CardinalityType
    <2>2. \E ch : all \subseteq Tickers \cup {ch}
      <3>1. CASE Klines \cap all = {}
        BY <3>1 DEF Channels
      <3>2. CASE Klines \cap all # {}
        <4>1. PICK ch \in Klines \cap all : TRUE
          BY <3>2
        <4>2. all \subseteq Tickers \cup {ch}
          BY <4>1 DEF OneChart, Channels
        <4>. QED  BY <4>2
      <3>. QED  BY <3>1, <3>2
    <2>3. PICK ch : all \subseteq Tickers \cup {ch}
      BY <2>2
    <2>4. /\ IsFiniteSet(Tickers \cup {ch})
          /\ \/ Cardinality(Tickers \cup {ch}) = Cardinality(Tickers)
             \/ Cardinality(Tickers \cup {ch}) = Cardinality(Tickers) + 1
      BY <2>1, FS_AddElement
    <2>5. IsFiniteSet(all) /\ Cardinality(all) <= Cardinality(Tickers \cup {ch})
      BY <2>3, <2>4, FS_Subset
    <2>6. Cardinality(all) \in Nat
      BY <2>5, FS_CardinalityType
    <2>. QED  BY <2>1, <2>4, <2>5, <2>6
  <1>2. IsFiniteSet(serverChannels) /\ IsFiniteSet(fresh)
    BY <1>1, FS_Subset
  <1>3. Cardinality(all) = Cardinality(serverChannels) + Cardinality(fresh)
    <2>1. all = serverChannels \cup fresh /\ serverChannels \cap fresh = {}
      OBVIOUS
    <2>2. Cardinality({}) = 0
      BY FS_EmptySet
    <2>3. Cardinality(serverChannels) \in Nat /\ Cardinality(fresh) \in Nat
      BY <1>2, FS_CardinalityType
    <2>4. Cardinality(serverChannels \cup fresh) =
             Cardinality(serverChannels) + Cardinality(fresh)
                - Cardinality(serverChannels \cap fresh)
      BY <1>2, FS_Union
    <2>. HIDE DEF all, fresh
    <2>5. Cardinality(all) = Cardinality(serverChannels \cup fresh)
      BY <2>1
    <2>6. Cardinality(serverChannels \cap fresh) = 0
      BY <2>1, <2>2
    <2>. QED  BY <2>3, <2>4, <2>5, <2>6
  <1>4. PICK t \in SUBSET fresh :
           /\ added = serverChannels \cup t
           /\ LET room == MaxChannels - Cardinality(serverChannels)
              IN  Cardinality(t) = IF Cardinality(fresh) < room THEN Cardinality(fresh) ELSE room
    BY DEF Added
  <1>5. Cardinality(t) = Cardinality(fresh)
    <2>1. /\ Cardinality(serverChannels) \in Nat /\ Cardinality(fresh) \in Nat
          /\ MaxChannels \in Nat
      BY <1>2, FS_CardinalityType, WsClientConstants
    <2>. HIDE DEF all, fresh
    <2>. QED  BY <1>1, <1>3, <1>4, <2>1
  <1>6. t = fresh
    BY <1>2, <1>4, <1>5, FS_Subset
  <1>. QED  BY <1>4, <1>6

\* The server handles a message: what follows leads to where it did.
LEMMA ReceivingLeads ==
    ASSUME TypeOK, ServerReceives, NEW S, LeadsTo(serverChannels, toServer, S)
    PROVE  LeadsTo(serverChannels', toServer', S)
  <1>1. /\ toServer \in Seq(Requests) /\ toServer # <<>> /\ toServer' = Tail(toServer)
        /\ serverChannels \in SUBSET Channels
    BY DEF ServerReceives, TypeOK
  <1>. DEFINE m == Head(toServer)
  <1>2. /\ m \in Requests /\ m = toServer[1] /\ Len(toServer) \in Nat \ {0}
        /\ Len(Tail(toServer)) = Len(toServer) - 1
    BY <1>1
  <1>3. \A ch : HeldAfter(serverChannels, toServer, 1, ch) <=>
                   IF Asks(m, ch) THEN m.type = "subscribe" ELSE ch \in serverChannels
    <2>1. 1..1 = {1} /\ ~(1 > 1)
      OBVIOUS
    <2>. QED  BY <1>2, <2>1 DEF HeldAfter
  <1>. HIDE DEF m
  <1>4. \A ch \in Channels : ch \in serverChannels' <=>
                                HeldAfter(serverChannels, toServer, 1, ch)
    <2>1. CASE m.type = "subscribe"
      <3>1. m.channels \in SUBSET Channels
        BY <1>2, <2>1 DEF Requests
      <3>2. serverChannels' \in Added(m.channels)
        BY <2>1 DEF ServerReceives, m
      <3>3. OneChart(serverChannels \cup m.channels)
        <4>1. 1 \in 0..Len(toServer)
          BY <1>2
        <4>2. OneChart({ch \in Channels : HeldAfter(serverChannels, toServer, 1, ch)})
          BY <4>1 DEF LeadsTo
        <4>3. \A ch \in serverChannels \cup m.channels :
                 HeldAfter(serverChannels, toServer, 1, ch)
          BY <1>3, <2>1 DEF Asks
        <4>. QED  BY <1>1, <3>1, <4>2, <4>3 DEF OneChart
      <3>4. serverChannels' = serverChannels \cup m.channels
        BY <1>1, <3>1, <3>2, <3>3, AddsAll
      <3>. QED  BY <1>3, <2>1, <3>4 DEF Asks
    <2>2. CASE m.type = "unsubscribe"
      <3>1. serverChannels' = serverChannels \ m.channels
        BY <2>2 DEF ServerReceives, m
      <3>. QED  BY <1>3, <2>2, <3>1 DEF Asks
    <2>3. CASE m.type = "ping"
      <3>1. serverChannels' = serverChannels
        BY <2>3 DEF ServerReceives, m
      <3>. QED  BY <1>3, <2>3, <3>1 DEF Asks
    <2>. QED  BY <1>2, <2>1, <2>2, <2>3 DEF Requests
  <1>5. \A ch \in Channels : \A k \in 0..Len(toServer) - 1 :
           HeldAfter(serverChannels', toServer', k, ch) <=>
              HeldAfter(serverChannels, toServer, k + 1, ch)
    BY <1>1, <1>4, TailHeld
  <1>6. /\ Len(toServer') = Len(toServer) - 1 /\ (Len(toServer) - 1) + 1 = Len(toServer)
        /\ Len(toServer) - 1 \in 0..Len(toServer) - 1
        /\ \A k \in 0..Len(toServer) - 1 : k + 1 \in 0..Len(toServer)
    BY <1>1, <1>2
  <1>7. \A ch \in Channels : HeldAfter(serverChannels', toServer', Len(toServer'), ch) <=> ch \in S
    BY <1>5, <1>6 DEF LeadsTo
  <1>8. ASSUME NEW k \in 0..Len(toServer')
        PROVE  OneChart({ch \in Channels : HeldAfter(serverChannels', toServer', k, ch)})
    <2>1. OneChart({ch \in Channels : HeldAfter(serverChannels, toServer, k + 1, ch)})
      BY <1>6 DEF LeadsTo
    <2>. QED  BY <1>5, <1>6, <2>1 DEF OneChart
  <1>. QED  BY <1>7, <1>8 DEF LeadsTo

-----------------------------------------------------------------------------
\* Subscriptions

SubsInv ==
    /\ activeSubscriptions = Wanted
    /\ session # "accepted" \/ socket \in {"none", "connecting", "upgraded"} =>
          serverChannels = {} /\ toServer = <<>>
    /\ socket = "open" /\ session = "accepted" =>
          LeadsTo(serverChannels, toServer, activeSubscriptions)

LEMMA WantedIsOneChart ==
    \A ch \in Klines \cup {None} : \A list \in SUBSET Tickers : OneChart(Chart(ch) \cup list)
BY WsClientConstants DEF OneChart, Chart, Channels

LEMMA InitSubs == Init => SubsInv
BY DEF Init, SubsInv, Wanted, Chart

\* The hooks: what React cleans up and sets up again is what they want.
LEMMA HooksLead ==
    ASSUME ClientInv, ClientInv', SubsInv, HookStep
    PROVE  SubsInv'
  <1>1. TypeOK /\ OneChart(Wanted) /\ OneChart(Wanted')
    BY WantedIsOneChart DEF ClientInv, TypeOK, Wanted
  <1>2. UNCHANGED <<socket, session, serverChannels>>
    BY DEF HookStep, ShowChart, ListTickers, TickersFetched, UnlistTickers, Ping, QuietClient,
           serverVars
  <1>3. ASSUME NEW old \in SUBSET Channels, NEW new \in SUBSET Channels, Exchange(old, new),
               (Wanted \ old) \cup new = Wanted'
        PROVE  SubsInv'
    <2>1. activeSubscriptions' = Wanted'
      BY <1>3 DEF Exchange, SubsInv
    <2>2. ASSUME session # "accepted" \/ socket \in {"none", "connecting", "upgraded"}
          PROVE  serverChannels' = {} /\ toServer' = <<>>
      <3>1. ~(socket = "open" /\ session = "accepted")
        BY <2>2
      <3>. QED  BY <1>2, <1>3, <2>2, <3>1 DEF Exchange, SendRaw, SubsInv
    <2>3. ASSUME socket = "open", session = "accepted"
          PROVE  LeadsTo(serverChannels', toServer', activeSubscriptions')
      BY <1>1, <1>2, <1>3, <2>1, <2>3, ExchangeLeads DEF SubsInv
    <2>. QED  BY <1>2, <2>1, <2>2, <2>3 DEF SubsInv
  <1>4. CASE ShowChart
    <2>1. PICK channel \in Klines \cup {None} :
             chart' = channel /\ Exchange(Chart(chart), Chart(channel))
      BY <1>4 DEF ShowChart
    <2>2. /\ Chart(chart) \in SUBSET Channels /\ Chart(channel) \in SUBSET Channels
          /\ Chart(chart) \cap listed = {}
      BY <1>1, ChannelSets, WsClientConstants DEF TypeOK, Chart
    <2>3. (Wanted \ Chart(chart)) \cup Chart(channel) = Wanted'
      BY <1>4, <2>1, <2>2 DEF ShowChart, Wanted
    <2>. QED  BY <1>3, <2>1, <2>2, <2>3
  <1>5. CASE ListTickers \/ UnlistTickers
    <2>1. PICK new \in {pairs, {}} : listed' = new /\ chart' = chart /\ Exchange(listed, new)
      BY <1>5 DEF ListTickers, UnlistTickers
    <2>2. /\ listed \in SUBSET Channels /\ new \in SUBSET Channels
          /\ Chart(chart) \cap listed = {}
      BY <1>1, <2>1, ChannelSets, WsClientConstants DEF TypeOK, Chart
    <2>3. (Wanted \ listed) \cup new = Wanted'
      BY <2>1, <2>2 DEF Wanted
    <2>. QED  BY <1>3, <2>1, <2>2, <2>3
  <1>6. CASE TickersFetched
    BY <1>2, <1>6 DEF TickersFetched, wires, SubsInv, Wanted
  <1>7. CASE Ping
    <2>. DEFINE m == [type |-> "ping"]
    <2>1. socket = "open" /\ UNCHANGED <<chart, listed, activeSubscriptions>>
      BY <1>7 DEF Ping, hookVars
    <2>2. CASE session = "accepted"
      <3>1. toServer' = Append(toServer, m)
        BY <1>7, <2>1, <2>2 DEF Ping, SendRaw
      <3>2. m \in Requests /\ \A ch : ~Asks(m, ch)
        BY DEF Requests, Asks
      <3>3. OneChart(activeSubscriptions) /\ toServer \in Seq(Requests)
        BY <1>1 DEF SubsInv, TypeOK
      <3>. HIDE DEF m
      <3>4. LeadsTo(serverChannels, Append(toServer, m), activeSubscriptions)
        BY <2>1, <2>2, <3>2, <3>3, AppendLeads DEF SubsInv
      <3>. QED  BY <1>2, <2>1, <2>2, <3>1, <3>4 DEF SubsInv, Wanted
    <2>3. CASE session # "accepted"
      <3>1. UNCHANGED toServer
        BY <1>7, <2>3 DEF Ping, SendRaw
      <3>. QED  BY <1>2, <2>1, <2>3, <3>1 DEF SubsInv, Wanted
    <2>. QED  BY <2>2, <2>3
  <1>. QED  BY <1>4, <1>5, <1>6, <1>7 DEF HookStep

LEMMA NextSubs == ClientInv /\ ClientInv' /\ SubsInv /\ [Next]_vars => SubsInv'
  <1>. SUFFICES ASSUME ClientInv, ClientInv', SubsInv, [Next]_vars PROVE SubsInv'
    OBVIOUS
  <1>1. CASE HookStep
    BY <1>1, HooksLead
  <1>2. ASSUME ~HookStep, ~(UNCHANGED vars)
        PROVE  UNCHANGED <<chart, listed, activeSubscriptions>>
    BY <1>2 DEF Next, HookStep, Browser, Server, Lossy, OnOpen, OnMessage, CloseEvent, Loss,
                OnClose, Reconnect, Handshake, ServerReceives, LingeringEnds, ServerSendsTicker,
                FeedChanges, ServerDrops, QuietBrowser, hookVars
  <1>3. UNCHANGED <<chart, listed, activeSubscriptions>> =>
           activeSubscriptions' = Wanted' /\ Wanted' = Wanted
    BY DEF SubsInv, Wanted
  <1>4. CASE OnOpen
    <2>1. /\ UNCHANGED <<chart, listed, activeSubscriptions, session, serverChannels>>
          /\ socket = "upgraded" /\ socket' = "open"
          /\ serverChannels = {} /\ toServer = <<>>
          /\ toServer' = IF session = "accepted" THEN toServer \o OnOpenMessages ELSE toServer
      BY <1>4 DEF OnOpen, hookVars, serverVars, SubsInv
    <2>2. LeadsTo({}, <<>>, {})
      <3>1. Len(<<>>) = 0 /\ \A k \in 0..Len(<<>>) : k = 0 /\ 1..k = {}
        OBVIOUS
      <3>2. 1..0 = {}
        OBVIOUS
      <3>3. \A ch : ~HeldAfter({}, <<>>, 0, ch)
        BY <3>2 DEF HeldAfter
      <3>. QED  BY <3>1, <3>3 DEF LeadsTo, OneChart
    <2>3. /\ activeSubscriptions \in SUBSET Channels /\ OneChart(activeSubscriptions)
          /\ activeSubscriptions = {} \cup activeSubscriptions
      BY WantedIsOneChart DEF ClientInv, TypeOK, SubsInv, Wanted
    <2>4. LeadsTo({}, <<>> \o OnOpenMessages, activeSubscriptions)
      BY <2>2, <2>3, EmptyWires, MessageLeads DEF OnOpenMessages
    <2>. QED  BY <1>3, <2>1, <2>4 DEF SubsInv
  <1>5. CASE CloseEvent \/ Loss
    BY <1>3, <1>5 DEF CloseEvent, Loss, OnClose, SubsInv, hookVars
  <1>6. CASE Reconnect
    <2>1. /\ UNCHANGED <<chart, listed, activeSubscriptions, session, serverChannels, toServer>>
          /\ socket = "none" /\ socket' = "connecting"
      BY <1>6 DEF Reconnect, ClientInv, OneChain, hookVars, serverVars, wires
    <2>. QED  BY <1>3, <2>1 DEF SubsInv
  <1>7. CASE Handshake
    <2>1. /\ UNCHANGED <<chart, listed, activeSubscriptions, serverChannels, toServer>>
          /\ socket = "connecting" /\ socket' = "upgraded"
      BY <1>7 DEF Handshake, QuietBrowser, hookVars
    <2>. QED  BY <1>3, <2>1 DEF SubsInv
  <1>8. CASE ServerReceives
    <2>1. /\ UNCHANGED <<chart, listed, activeSubscriptions, socket, session>>
          /\ session = "accepted" /\ toServer # <<>>
      BY <1>8 DEF ServerReceives, QuietBrowser, hookVars
    <2>2. socket \notin {"none", "connecting", "upgraded"}
      BY <2>1 DEF SubsInv
    <2>3. socket = "open" => LeadsTo(serverChannels', toServer', activeSubscriptions)
      BY <1>8, <2>1, ReceivingLeads DEF ClientInv, SubsInv
    <2>. QED  BY <1>3, <2>1, <2>2, <2>3 DEF SubsInv
  <1>9. CASE ServerDrops
    BY <1>3, <1>9 DEF ServerDrops, QuietBrowser, SubsInv, hookVars
  <1>10. CASE UNCHANGED <<chart, listed, activeSubscriptions, session, serverChannels, toServer>>
              /\ (socket' = socket \/ (socket = "open" /\ socket' = "closing"))
    BY <1>3, <1>10 DEF SubsInv
  <1>11. CASE OnMessage \/ LingeringEnds \/ ServerSendsTicker \/ FeedChanges \/ UNCHANGED vars
    BY <1>10, <1>11 DEF OnMessage, LingeringEnds, ServerSendsTicker, FeedChanges, QuietBrowser,
                        hookVars, serverVars, wires, vars
  <1>. QED
    BY <1>1, <1>4, <1>5, <1>6, <1>7, <1>8, <1>9, <1>11
       DEF Next, HookStep, Browser, Server, Lossy

\* Whatever was mounted, moved and unmounted while the socket was connecting, closing or
\* gone, an open session will hold what the hooks want, and nothing else.
THEOREM Subscribed == Spec => []SubscriptionsInFlight
  <1>1. ASSUME ClientInv, SubsInv PROVE SubscriptionsInFlight
    <2>. SUFFICES ASSUME socket = "open", session = "accepted", NEW ch \in Channels
                  PROVE  WillHold(ch) <=> ch \in Wanted
      BY <1>1 DEF SubscriptionsInFlight, SubsInv
    <2>1. HeldAfter(serverChannels, toServer, Len(toServer), ch) <=> ch \in Wanted
      BY <1>1 DEF SubsInv, LeadsTo
    <2>2. Len(toServer) \in Nat /\ DOMAIN toServer = 1..Len(toServer)
      BY <1>1 DEF ClientInv, TypeOK
    <2>3. Mentions(ch) = {i \in 1..Len(toServer) : Asks(toServer[i], ch)}
      BY <2>2 DEF Mentions, Asks
    <2>4. \A i, j \in 1..Len(toServer) : ~(j > i) <=> j <= i
      BY <2>2
    <2>5. HeldAfter(serverChannels, toServer, Len(toServer), ch) <=> WillHold(ch)
      <3>1. CASE Mentions(ch) = {}
        BY <2>3, <3>1 DEF HeldAfter, WillHold
      <3>2. CASE Mentions(ch) # {}
        BY <2>3, <2>4, <3>2 DEF HeldAfter, WillHold
      <3>. QED  BY <3>1, <3>2
    <2>. QED  BY <2>1, <2>5
  <1>. QED
    BY <1>1, InitClientInv, InitSubs, NextClientInv, NextSubs, PTL DEF Spec
=============================================================================
