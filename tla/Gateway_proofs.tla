---------------------------- MODULE Gateway_proofs ----------------------------
(***************************************************************************)
(* The stream service for any streams and callbacks: one reconnect chain,  *)
(* a status that is the socket's, and a demand that is mirrored in what is *)
(* sent and on its way.  Then the gateway on top of it, for any sockets,   *)
(* addresses, channels and limits: what the service calls back, what the   *)
(* addresses are counted as and what the clients were told are exact.      *)
(*                                                                         *)
(* Every handler of the gateway is a step of the service or leaves it      *)
(* alone, so the lemmas about the service are about its actions and serve  *)
(* both.                                                                   *)
(***************************************************************************)
EXTENDS Gateway, SequenceTheorems, FiniteSetTheorems, TLAPS

-----------------------------------------------------------------------------
\* The stream service

Pairs == SUBSET (Streams \X Callbacks)

\* Any step a user of the service can make it take.
StreamStep ==
    \/ \E pairs \in Pairs : Subscribe(pairs) \/ Unsubscribe(pairs)
    \/ SocketStep

LEMMA DelayType ==
    ASSUME NEW n \in 0..5, NEW limited \in BOOLEAN, NEW delay \in Delays(n, limited)
    PROVE  delay \in 1..60 /\ (limited => delay >= 5)
  <1>1. Exponential(n) \in 2..60
    <2>1. n = 0 \/ n = 1 \/ n = 2 \/ n = 3 \/ n = 4 \/ n = 5
      OBVIOUS
    <2>2. /\ 2^(0 + 1) = 2 /\ 2^(1 + 1) = 4 /\ 2^(2 + 1) = 8
          /\ 2^(3 + 1) = 16 /\ 2^(4 + 1) = 32 /\ 2^(5 + 1) = 64
      OBVIOUS
    <2>3. Exponential(n) = IF 2^(n + 1) < 60 THEN 2^(n + 1) ELSE 60
      BY DEF Exponential
    <2>4. 2^(n + 1) \in {2, 4, 8, 16, 32, 64}
      <3>1. CASE n = 0
        BY <2>2, <3>1
      <3>2. CASE n = 1
        BY <2>2, <3>2
      <3>3. CASE n = 2
        BY <2>2, <3>3
      <3>4. CASE n = 3
        BY <2>2, <3>4
      <3>5. CASE n = 4
        BY <2>2, <3>5
      <3>6. CASE n = 5
        BY <2>2, <3>6
      <3>. QED  BY <2>1, <3>1, <3>2, <3>3, <3>4, <3>5, <3>6
    <2>. QED  BY <2>3, <2>4
  <1>2. Base(n, limited) \in 2..60 /\ (limited => Base(n, limited) >= 10)
    BY <1>1 DEF Base
  <1>3. /\ Base(n, limited) \div 2 \in 1..60
        /\ limited => Base(n, limited) \div 2 >= 5 /\ Base(n, limited) >= 5
    BY <1>2
  <1>. QED  BY <1>2, <1>3 DEF Delays

LEMMA ScheduleType ==
    ASSUME UpstreamConstants, reconnectAttempt \in 0..MaxAttempt,
           NEW limited \in BOOLEAN, ScheduleReconnect(limited)
    PROVE  /\ reconnectTimer' \in 1..60 /\ reconnectAttempt' \in 0..MaxAttempt
           /\ limited => reconnectTimer' >= 5
  <1>1. reconnectAttempt \in 0..5
    BY DEF UpstreamConstants
  <1>. QED  BY <1>1, DelayType DEF ScheduleReconnect, UpstreamConstants

LEMMA AnnounceType ==
    ASSUME StreamTypeOK, NEW method \in {"SUBSCRIBE", "UNSUBSCRIBE"},
           NEW streams \in SUBSET Streams, Announce(method, streams)
    PROVE  wire' \in Seq(Control)
  <1>1. [method |-> method, streams |-> streams] \in Control
    BY DEF Control
  <1>. QED  BY <1>1 DEF Announce, StreamTypeOK

\* Subscribing and unsubscribing touch the callbacks and the wire only.
LEMMA SubscriptionKeeps ==
    ASSUME StreamInv, NEW pairs \in Pairs, Subscribe(pairs) \/ Unsubscribe(pairs)
    PROVE  StreamInv'
  <1>1. subscribers' \in [Streams -> SUBSET Callbacks]
    BY DEF StreamInv, StreamTypeOK, Subscribe, Unsubscribe, Registered, Removed, Pairs
  <1>2. wire' \in Seq(Control)
    <2>1. CASE Subscribe(pairs)
      <3>1. {s \in Streams : subscribers[s] = {} /\ subscribers'[s] # {}} \in SUBSET Streams
        OBVIOUS
      <3>. QED  BY <2>1, <3>1, AnnounceType DEF Subscribe, StreamInv
    <2>2. CASE Unsubscribe(pairs)
      <3>1. {s \in Streams : subscribers[s] # {} /\ subscribers'[s] = {}} \in SUBSET Streams
        OBVIOUS
      <3>. QED  BY <2>2, <3>1, AnnounceType DEF Unsubscribe, StreamInv
    <2>. QED  BY <2>1, <2>2
  <1>3. UNCHANGED <<connectionVars, upstream>>
    BY DEF Subscribe, Unsubscribe
  <1>4. ws \in {"none", "connecting"} => wire' = wire
    BY DEF Subscribe, Unsubscribe, Announce, IsOpen
  <1>. QED
    BY <1>1, <1>2, <1>3, <1>4
    DEF StreamInv, StreamTypeOK, OneConnectionChain, StatusFollowsSocket, FreshStart, FloorKept,
        connectionVars

LEMMA SocketKeeps ==
    ASSUME UpstreamConstants, StreamInv, SocketStep
    PROVE  StreamInv'
  <1>. USE DEF StreamInv, StreamTypeOK, OneConnectionChain, StatusFollowsSocket, FreshStart, FloorKept,
               SetUpstreamConnected
  <1>1. CASE Open
    <2>1. Resubscribe \in Seq(Control)
      <3>1. Demanded \in SUBSET Streams
        BY DEF Demanded
      <3>2. [method |-> "SUBSCRIBE", streams |-> Demanded] \in Control
        BY <3>1 DEF Control
      <3>. QED  BY <3>2 DEF Resubscribe
    <2>2. 0 \in 0..MaxAttempt
      BY DEF UpstreamConstants
    <2>. QED  BY <1>1, <2>1, <2>2 DEF Open
  <1>2. CASE PeerCloses
    BY <1>2 DEF PeerCloses
  <1>3. CASE Close
    <2>1. rateLimited' \in BOOLEAN
      BY <1>3 DEF Close
    <2>2. /\ reconnectTimer' \in 1..60 /\ reconnectAttempt' \in 0..MaxAttempt
          /\ rateLimited' => reconnectTimer' >= 5
      BY <1>3, <2>1, ScheduleType DEF Close
    <2>3. <<>> \in Seq(Control) /\ {} \in SUBSET Streams
      OBVIOUS
    <2>4. ~destroyed
      BY <1>3 DEF Close
    <2>5. /\ ws' = "none" /\ upstreamConnected' = FALSE /\ wire' = <<>> /\ upstream' = {}
          /\ subscribers' = subscribers /\ destroyed' = destroyed
      BY <1>3 DEF Close
    <2>6. reconnectTimer' \in 0..60 /\ reconnectTimer' # 0
      BY <2>2
    <2>. QED  BY <2>1, <2>2, <2>3, <2>4, <2>5, <2>6
  <1>4. CASE Reconnect
    BY <1>4 DEF Reconnect, binanceVars
  <1>5. CASE Destroy
    BY <1>5 DEF Destroy
  <1>6. CASE BinanceObeys
    <2>1. wire' \in Seq(Control)
      BY <1>6 DEF BinanceObeys
    <2>2. Head(wire) \in Control
      BY <1>6 DEF BinanceObeys
    <2>3. upstream' \in SUBSET Streams
      BY <1>6, <2>2 DEF BinanceObeys, Control
    <2>. QED  BY <1>6, <2>1, <2>3 DEF BinanceObeys, connectionVars
  <1>. QED  BY <1>1, <1>2, <1>3, <1>4, <1>5, <1>6 DEF SocketStep

LEMMA StreamStepKeeps ==
    ASSUME UpstreamConstants, StreamInv, StreamStep \/ UNCHANGED streamVars
    PROVE  StreamInv'
  <1>1. CASE UNCHANGED streamVars
    BY <1>1 DEF streamVars, StreamInv, StreamTypeOK, OneConnectionChain,
                StatusFollowsSocket, FreshStart, FloorKept
  <1>2. CASE StreamStep
    BY <1>2, SubscriptionKeeps, SocketKeeps DEF StreamStep
  <1>. QED  BY <1>1, <1>2

LEMMA InitStreamInv == UpstreamConstants /\ StreamInit => StreamInv
  <1>. SUFFICES ASSUME UpstreamConstants, StreamInit  PROVE StreamInv
    OBVIOUS
  <1>1. [s \in Streams |-> {}] \in [Streams -> SUBSET Callbacks]
    OBVIOUS
  <1>2. 0 \in 0..MaxAttempt /\ 0 \in 0..60
    BY DEF UpstreamConstants
  <1>3. <<>> \in Seq(Control) /\ {} \in SUBSET Streams
    OBVIOUS
  <1>4. StreamTypeOK
    BY <1>1, <1>2, <1>3 DEF StreamInit, StreamTypeOK
  <1>. QED
    BY <1>4 DEF StreamInit, StreamInv, OneConnectionChain, StatusFollowsSocket, FreshStart,
                FloorKept

-----------------------------------------------------------------------------
\* What is sent once the messages on the wire are obeyed

\* A message appended decides for the streams it names and for no other.
LEMMA AppendDecides ==
    ASSUME wire \in Seq(Control), NEW m \in Control, wire' = Append(wire, m),
           upstream' = upstream, NEW s \in Streams
    PROVE  /\ s \in m.streams => (WillSend(s)' <=> m.method = "SUBSCRIBE")
           /\ s \notin m.streams => (WillSend(s)' <=> WillSend(s))
  <1>. DEFINE n == Len(wire)
  <1>1. n \in Nat /\ DOMAIN wire = 1..n /\ DOMAIN wire' = 1..n + 1
    OBVIOUS
  <1>2. \A j \in 1..n : wire'[j] = wire[j]
    OBVIOUS
  <1>3. wire'[n + 1] = m
    OBVIOUS
  <1>. HIDE DEF n
  <1>4. ASSUME s \in m.streams PROVE WillSend(s)' <=> m.method = "SUBSCRIBE"
    <2>1. n + 1 \in Mentions(s)' /\ \A j \in Mentions(s)' : j <= n + 1 /\ j \in Nat
      BY <1>1, <1>3, <1>4 DEF Mentions
    <2>2. Mentions(s)' # {}
      BY <2>1
    <2>3. ASSUME NEW i \in Mentions(s)', \A j \in Mentions(s)' : j <= i
          PROVE  i = n + 1
      BY <1>1, <2>1, <2>3
    <2>. QED  BY <1>3, <2>1, <2>2, <2>3 DEF WillSend
  <1>5. ASSUME s \notin m.streams PROVE WillSend(s)' <=> WillSend(s)
    <2>1. Mentions(s)' = Mentions(s)
      BY <1>1, <1>2, <1>3, <1>5 DEF Mentions
    <2>2. \A i \in Mentions(s) : wire'[i] = wire[i]
      BY <1>1, <1>2 DEF Mentions
    <2>. QED  BY <2>1, <2>2 DEF WillSend
  <1>. QED  BY <1>4, <1>5

\* Obeying the oldest message changes nothing of that.
LEMMA ObeyingKeeps ==
    ASSUME wire \in Seq(Control), wire # <<>>, wire' = Tail(wire),
           upstream' = IF Head(wire).method = "SUBSCRIBE"
                       THEN upstream \cup Head(wire).streams
                       ELSE upstream \ Head(wire).streams,
           NEW s \in Streams
    PROVE  WillSend(s)' <=> WillSend(s)
  <1>. DEFINE n == Len(wire)
  <1>1. n \in Nat \ {0} /\ DOMAIN wire = 1..n /\ DOMAIN wire' = 1..n - 1
    OBVIOUS
  <1>2. \A j \in 1..n - 1 : wire'[j] = wire[j + 1]
    OBVIOUS
  <1>3. Head(wire) = wire[1]
    OBVIOUS
  <1>. HIDE DEF n
  <1>4. Mentions(s) \subseteq 1..n /\ Mentions(s)' \subseteq 1..n - 1
    BY <1>1 DEF Mentions
  <1>5. \A j \in 1..n - 1 : j \in Mentions(s)' <=> j + 1 \in Mentions(s)
    BY <1>1, <1>2 DEF Mentions
  <1>6. 1 \in Mentions(s) <=> s \in wire[1].streams
    BY <1>1 DEF Mentions
  <1>7. CASE Mentions(s) \subseteq {1}
    <2>1. Mentions(s)' = {}
      BY <1>1, <1>4, <1>5, <1>7
    <2>2. WillSend(s)' <=> s \in upstream'
      BY <2>1 DEF WillSend
    <2>3. CASE 1 \in Mentions(s)
      <3>1. WillSend(s) <=> wire[1].method = "SUBSCRIBE"
        BY <1>7, <2>3 DEF WillSend
      <3>. QED  BY <1>3, <1>6, <2>2, <2>3, <3>1
    <2>4. CASE 1 \notin Mentions(s)
      <3>1. Mentions(s) = {}
        BY <1>7, <2>4
      <3>2. WillSend(s) <=> s \in upstream
        BY <3>1 DEF WillSend
      <3>. QED  BY <1>3, <1>6, <2>2, <2>4, <3>2
    <2>. QED  BY <2>3, <2>4
  <1>8. CASE ~(Mentions(s) \subseteq {1})
    <2>1. PICK k \in Mentions(s) : k # 1
      BY <1>8
    <2>2. k \in 2..n /\ k - 1 \in 1..n - 1 /\ (k - 1) + 1 = k
      BY <1>1, <1>4, <2>1
    <2>3. k - 1 \in Mentions(s)'
      BY <1>5, <2>1, <2>2
    <2>4. Mentions(s) # {} /\ Mentions(s)' # {}
      BY <2>1, <2>3
    <2>5. ASSUME WillSend(s) PROVE WillSend(s)'
      <3>1. PICK i \in Mentions(s) : /\ \A j \in Mentions(s) : j <= i
                                     /\ wire[i].method = "SUBSCRIBE"
        BY <2>4, <2>5 DEF WillSend
      <3>2. k <= i
        BY <2>1, <3>1
      <3>3. i \in 2..n /\ i - 1 \in 1..n - 1 /\ (i - 1) + 1 = i
        BY <1>1, <1>4, <2>2, <3>1, <3>2
      <3>4. i - 1 \in Mentions(s)' /\ wire'[i - 1] = wire[i]
        BY <1>2, <1>5, <3>1, <3>3
      <3>5. ASSUME NEW j \in Mentions(s)' PROVE j <= i - 1
        <4>1. j \in 1..n - 1 /\ j + 1 \in Mentions(s)
          BY <1>4, <1>5
        <4>2. j + 1 <= i
          BY <3>1, <4>1
        <4>. QED  BY <3>3, <4>1, <4>2
      <3>. QED  BY <3>1, <3>4, <3>5 DEF WillSend
    <2>6. ASSUME WillSend(s)' PROVE WillSend(s)
      <3>1. PICK i \in Mentions(s)' : /\ \A j \in Mentions(s)' : j <= i
                                      /\ wire'[i].method = "SUBSCRIBE"
        BY <2>4, <2>6 DEF WillSend
      <3>2. i \in 1..n - 1 /\ i + 1 \in Mentions(s) /\ wire'[i] = wire[i + 1]
        BY <1>2, <1>4, <1>5, <3>1
      <3>3. ASSUME NEW j \in Mentions(s) PROVE j <= i + 1
        <4>1. j \in 1..n
          BY <1>4
        <4>2. CASE j = 1
          BY <3>2, <4>2
        <4>3. CASE j # 1
          <5>1. j - 1 \in 1..n - 1 /\ (j - 1) + 1 = j
            BY <1>1, <4>1, <4>3
          <5>2. j - 1 \in Mentions(s)'
            BY <1>5, <5>1
          <5>3. j - 1 <= i
            BY <3>1, <5>2
          <5>. QED  BY <3>2, <4>1, <5>3
        <4>. QED  BY <4>2, <4>3
      <3>. QED  BY <3>1, <3>2, <3>3 DEF WillSend
    <2>. QED  BY <2>5, <2>6
  <1>. QED  BY <1>7, <1>8

LEMMA DemandKept ==
    ASSUME UpstreamConstants, StreamInv, DemandMirrored, StreamStep \/ UNCHANGED streamVars
    PROVE  DemandMirrored'
  <1>. SUFFICES ASSUME IsOpen', NEW s \in Streams
                PROVE  WillSend(s)' <=> subscribers'[s] # {}
    BY DEF DemandMirrored
  <1>1. wire \in Seq(Control) /\ subscribers \in [Streams -> SUBSET Callbacks]
    BY DEF StreamInv, StreamTypeOK
  <1>2. ASSUME NEW pairs \in Pairs, Subscribe(pairs)
        PROVE  WillSend(s)' <=> subscribers'[s] # {}
    <2>. DEFINE new == {t \in Streams : subscribers[t] = {} /\ subscribers'[t] # {}}
                m   == [method |-> "SUBSCRIBE", streams |-> new]
    <2>1. IsOpen /\ upstream' = upstream
      BY <1>2 DEF Subscribe, connectionVars, IsOpen
    <2>2. subscribers[s] # {} => subscribers'[s] # {}
      BY <1>1, <1>2 DEF Subscribe, Registered
    <2>3. WillSend(s) <=> subscribers[s] # {}
      BY <2>1 DEF DemandMirrored
    <2>4. m \in Control
      BY DEF Control
    <2>5. wire' = IF new # {} THEN Append(wire, m) ELSE wire
      BY <1>2, <2>1 DEF Subscribe, Announce
    <2>6. CASE new = {}
      <3>1. WillSend(s)' <=> WillSend(s)
        BY <2>1, <2>5, <2>6 DEF WillSend, Mentions
      <3>. QED  BY <2>2, <2>3, <2>6, <3>1
    <2>7. CASE new # {}
      <3>1. /\ s \in new => WillSend(s)'
            /\ s \notin new => (WillSend(s)' <=> WillSend(s))
        <4>1. wire' = Append(wire, m)
          BY <2>5, <2>7
        <4>2. m.method = "SUBSCRIBE" /\ m.streams = new
          OBVIOUS
        <4>. HIDE DEF m, new
        <4>. QED  BY <1>1, <2>1, <2>4, <4>1, <4>2, AppendDecides
      <3>. QED  BY <2>2, <2>3, <3>1
    <2>. QED  BY <2>6, <2>7
  <1>3. ASSUME NEW pairs \in Pairs, Unsubscribe(pairs)
        PROVE  WillSend(s)' <=> subscribers'[s] # {}
    <2>. DEFINE gone == {t \in Streams : subscribers[t] # {} /\ subscribers'[t] = {}}
                m    == [method |-> "UNSUBSCRIBE", streams |-> gone]
    <2>1. IsOpen /\ upstream' = upstream
      BY <1>3 DEF Unsubscribe, connectionVars, IsOpen
    <2>2. subscribers'[s] # {} => subscribers[s] # {}
      BY <1>1, <1>3 DEF Unsubscribe, Removed
    <2>3. WillSend(s) <=> subscribers[s] # {}
      BY <2>1 DEF DemandMirrored
    <2>4. m \in Control
      BY DEF Control
    <2>5. wire' = IF gone # {} THEN Append(wire, m) ELSE wire
      BY <1>3, <2>1 DEF Unsubscribe, Announce
    <2>6. CASE gone = {}
      <3>1. WillSend(s)' <=> WillSend(s)
        BY <2>1, <2>5, <2>6 DEF WillSend, Mentions
      <3>. QED  BY <2>2, <2>3, <2>6, <3>1
    <2>7. CASE gone # {}
      <3>1. /\ s \in gone => ~WillSend(s)'
            /\ s \notin gone => (WillSend(s)' <=> WillSend(s))
        <4>1. wire' = Append(wire, m)
          BY <2>5, <2>7
        <4>2. m.method # "SUBSCRIBE" /\ m.streams = gone
          OBVIOUS
        <4>. HIDE DEF m, gone
        <4>. QED  BY <1>1, <2>1, <2>4, <4>1, <4>2, AppendDecides
      <3>. QED  BY <2>2, <2>3, <3>1
    <2>. QED  BY <2>6, <2>7
  <1>4. CASE Open
    <2>1. /\ upstream' = {} /\ subscribers' = subscribers /\ wire' = Resubscribe
      BY <1>4 DEF Open, StreamInv, FreshStart
    <2>2. CASE Demanded = {}
      <3>1. ~WillSend(s)'
        BY <2>1, <2>2 DEF WillSend, Mentions, Resubscribe
      <3>. QED  BY <2>1, <2>2, <3>1 DEF Demanded
    <2>3. CASE Demanded # {}
      <3>. DEFINE m == [method |-> "SUBSCRIBE", streams |-> Demanded]
      <3>1. wire' = <<m>>
        BY <2>1, <2>3 DEF Resubscribe
      <3>2. DOMAIN wire' = {1} /\ wire'[1] = m
        BY <3>1
      <3>3. Mentions(s)' = IF s \in Demanded THEN {1} ELSE {}
        BY <3>2 DEF Mentions
      <3>4. WillSend(s)' <=> s \in Demanded
        BY <2>1, <3>2, <3>3 DEF WillSend
      <3>. QED  BY <2>1, <3>4 DEF Demanded
    <2>. QED  BY <2>2, <2>3
  <1>5. CASE BinanceObeys
    <2>1. IsOpen /\ subscribers' = subscribers
      BY <1>5 DEF BinanceObeys, IsOpen, connectionVars
    <2>2. WillSend(s)' <=> WillSend(s)
      BY <1>1, <1>5, ObeyingKeeps DEF BinanceObeys
    <2>. QED  BY <2>1, <2>2 DEF DemandMirrored
  <1>6. CASE UNCHANGED streamVars
    BY <1>6 DEF streamVars, DemandMirrored, IsOpen, WillSend, Mentions
  <1>7. CASE PeerCloses \/ Close \/ Reconnect \/ Destroy
    <2>1. CASE ~Reconnect
      BY <1>7, <2>1 DEF PeerCloses, Close, Destroy, IsOpen
    <2>2. CASE Reconnect
      <3>1. ~destroyed /\ ws' = "connecting"
        BY <2>2 DEF Reconnect, StreamInv, OneConnectionChain, StreamTypeOK
      <3>. QED  BY <3>1 DEF IsOpen
    <2>. QED  BY <2>1, <2>2
  <1>. QED  BY <1>2, <1>3, <1>4, <1>5, <1>6, <1>7 DEF StreamStep, SocketStep

LEMMA InitDemand == StreamInit => DemandMirrored
  BY DEF StreamInit, DemandMirrored, IsOpen

-----------------------------------------------------------------------------
\* The service by itself

LEMMA NextIsStreamStep == StreamNext => StreamStep
  <1>. SUFFICES ASSUME StreamNext PROVE StreamStep
    OBVIOUS
  <1>1. ASSUME NEW s \in Streams, NEW cb \in Callbacks PROVE {<<s, cb>>} \in Pairs
    BY DEF Pairs
  <1>. QED  BY <1>1 DEF StreamNext, StreamStep

\* One chain, the right status and a clean start, for any streams and callbacks.
THEOREM StreamInvariance == StreamSpec => []StreamInv
  <1>1. StreamInit => StreamInv
    BY UpstreamConstants, InitStreamInv
  <1>2. StreamInv /\ [StreamNext]_streamVars => StreamInv'
    BY UpstreamConstants, NextIsStreamStep, StreamStepKeeps
  <1>. QED  BY <1>1, <1>2, PTL DEF StreamSpec

\* What is demanded is what is sent once the messages on their way are obeyed.
THEOREM Mirrored == StreamSpec => []DemandMirrored
  <1>1. StreamInit => DemandMirrored
    BY InitDemand
  <1>2. StreamInv /\ DemandMirrored /\ [StreamNext]_streamVars => DemandMirrored'
    BY UpstreamConstants, NextIsStreamStep, DemandKept
  <1>. QED  BY <1>1, <1>2, StreamInvariance, PTL DEF StreamSpec

-----------------------------------------------------------------------------
\* The service's half of the gateway's steps

LEMMA CallbacksType ==
    ASSUME GatewayConstants, NEW c \in Clients, NEW chs \in SUBSET ActiveChannels
    PROVE  CallbacksOf(c, chs) \in Pairs
  BY DEF GatewayConstants, CallbacksOf, Pairs

LEMMA GatewayStepIsStreamStep ==
    ASSUME GatewayConstants, GatewayTypeOK, [Next]_vars
    PROVE  StreamStep \/ UNCHANGED streamVars
  <1>1. ASSUME NEW c \in Clients, ClientSubscribes(c) PROVE StreamStep
    <2>1. PICK taken \in SUBSET ActiveChannels : Subscribe(CallbacksOf(c, taken))
      BY <1>1 DEF ClientSubscribes
    <2>2. CallbacksOf(c, taken) \in Pairs
      BY <2>1, CallbacksType
    <2>. QED  BY <2>1, <2>2 DEF StreamStep
  <1>2. ASSUME NEW c \in Clients, ClientUnsubscribes(c) PROVE StreamStep
    <2>1. PICK asked \in ValidLists : Unsubscribe(CallbacksOf(c, asked \cap channels[c]))
      BY <1>2 DEF ClientUnsubscribes
    <2>2. asked \cap channels[c] \in SUBSET ActiveChannels
      BY DEF GatewayTypeOK
    <2>3. CallbacksOf(c, asked \cap channels[c]) \in Pairs
      BY <2>2, CallbacksType
    <2>. QED  BY <2>1, <2>3 DEF StreamStep
  <1>3. ASSUME NEW c \in Clients, Disconnect(c) PROVE StreamStep \/ UNCHANGED streamVars
    <2>1. CASE Unregister(c)
      <3>1. channels[c] \in SUBSET ActiveChannels
        BY DEF GatewayTypeOK
      <3>2. CallbacksOf(c, channels[c]) \in Pairs
        BY <3>1, CallbacksType
      <3>. QED  BY <2>1, <3>2 DEF StreamStep, Unregister
    <2>2. CASE Stranger(c)
      BY <2>2 DEF Stranger
    <2>. QED  BY <1>3, <2>1, <2>2 DEF Disconnect
  <1>4. ASSUME NEW c \in Clients, Connect(c) \/ StartClosing(c) PROVE UNCHANGED streamVars
    BY <1>4 DEF Connect, StartClosing
  <1>5. CASE UpstreamStep
    BY <1>5 DEF UpstreamStep, UpstreamOpens, UpstreamCloses, SocketStep, StreamStep
  <1>6. CASE Shutdown
    BY <1>6 DEF Shutdown
  <1>7. CASE UNCHANGED vars
    BY <1>7 DEF vars
  <1>. QED  BY <1>1, <1>2, <1>3, <1>4, <1>5, <1>6, <1>7 DEF Next

-----------------------------------------------------------------------------
\* The types

LEMMA ConnectTypes ==
    ASSUME GatewayConstants, GatewayTypeOK, NEW c \in Clients, Connect(c)
    PROVE  /\ sock' \in [Clients -> {"none", "open", "closing", "rejected"}]
           /\ clients' \in SUBSET Clients
           /\ channels' \in [Clients -> SUBSET ActiveChannels]
           /\ ipConnections' \in [Ips -> Nat]
           /\ told' \in [Clients -> BOOLEAN]
           /\ gatewayUp' \in BOOLEAN
  <1>. USE DEF GatewayTypeOK
  <1>1. CASE Refused(c)
    BY <1>1 DEF Connect, Refused
  <1>2. CASE Accepted(c)
    <2>1. IpOf[c] \in Ips
      BY DEF GatewayConstants
    <2>2. ipConnections' \in [Ips -> Nat]
      BY <1>2, <2>1 DEF Accepted
    <2>3. told' \in [Clients -> BOOLEAN]
      BY <1>2 DEF Accepted, IsOpen
    <2>4. channels' \in [Clients -> SUBSET ActiveChannels]
      BY <1>2 DEF Accepted
    <2>5. sock' \in [Clients -> {"none", "open", "closing", "rejected"}]
      BY <1>2 DEF Accepted
    <2>. QED  BY <1>2, <2>2, <2>3, <2>4, <2>5 DEF Accepted, Connect
  <1>. QED  BY <1>1, <1>2 DEF Connect

LEMMA DisconnectTypes ==
    ASSUME GatewayConstants, GatewayTypeOK, NEW c \in Clients, Disconnect(c)
    PROVE  /\ sock' \in [Clients -> {"none", "open", "closing", "rejected"}]
           /\ clients' \in SUBSET Clients
           /\ channels' \in [Clients -> SUBSET ActiveChannels]
           /\ ipConnections' \in [Ips -> Nat]
           /\ told' \in [Clients -> BOOLEAN]
           /\ gatewayUp' \in BOOLEAN
  <1>. USE DEF GatewayTypeOK
  <1>1. sock' \in [Clients -> {"none", "open", "closing", "rejected"}]
    BY DEF Disconnect
  <1>2. CASE Unregister(c)
    <2>1. IpOf[c] \in Ips
      BY DEF GatewayConstants
    <2>2. ipConnections[IpOf[c]] \in Nat
      BY <2>1
    <2>3. (IF ipConnections[IpOf[c]] <= 1 THEN 0 ELSE ipConnections[IpOf[c]] - 1) \in Nat
      BY <2>2
    <2>4. ipConnections' \in [Ips -> Nat]
      BY <1>2, <2>3 DEF Unregister
    <2>5. channels' \in [Clients -> SUBSET ActiveChannels]
      BY <1>2 DEF Unregister
    <2>. QED  BY <1>1, <1>2, <2>4, <2>5 DEF Unregister, Disconnect
  <1>3. CASE Stranger(c)
    BY <1>1, <1>3 DEF Stranger, Disconnect
  <1>. QED  BY <1>2, <1>3 DEF Disconnect

LEMMA RequestTypes ==
    ASSUME GatewayConstants, GatewayTypeOK, NEW c \in Clients,
           ClientSubscribes(c) \/ ClientUnsubscribes(c)
    PROVE  channels' \in [Clients -> SUBSET ActiveChannels]
  <1>. USE DEF GatewayTypeOK
  <1>1. CASE ClientSubscribes(c)
    <2>1. PICK taken \in SUBSET ActiveChannels : channels' = [channels EXCEPT ![c] = @ \cup taken]
      BY <1>1 DEF ClientSubscribes
    <2>. QED  BY <2>1
  <1>2. CASE ClientUnsubscribes(c)
    <2>1. PICK gone \in SUBSET ActiveChannels : channels' = [channels EXCEPT ![c] = @ \ gone]
      BY <1>2 DEF ClientUnsubscribes
    <2>. QED  BY <2>1
  <1>. QED  BY <1>1, <1>2

\* A step of the service touches the told statuses only.
LEMMA UpstreamTypes ==
    ASSUME GatewayTypeOK, UpstreamStep
    PROVE  told' \in [Clients -> BOOLEAN] /\ QuietGateway
  <1>1. \A connected \in BOOLEAN : Broadcast(connected) => told' \in [Clients -> BOOLEAN]
    BY DEF Broadcast, GatewayTypeOK
  <1>. QED  BY <1>1 DEF UpstreamStep, UpstreamOpens, UpstreamCloses, GatewayTypeOK

LEMMA GatewayInvNext ==
    ASSUME UpstreamConstants, GatewayConstants, GatewayInv, [Next]_vars
    PROVE  GatewayInv'
  <1>1. StreamInv'
    BY GatewayStepIsStreamStep, StreamStepKeeps DEF GatewayInv
  <1>2. StreamTypeOK'
    BY <1>1 DEF StreamInv
  <1>3. ASSUME NEW c \in Clients, Connect(c)
        PROVE  GatewayTypeOK' /\ \A d \in clients' : sock'[d] \in {"open", "closing"}
    <2>1. GatewayTypeOK'
      BY <1>2, <1>3, ConnectTypes DEF GatewayInv, GatewayTypeOK
    <2>2. \A d \in clients' : sock'[d] \in {"open", "closing"}
      BY <1>3 DEF GatewayInv, GatewayTypeOK, Connect, Refused, Accepted
    <2>. QED  BY <2>1, <2>2
  <1>4. ASSUME NEW c \in Clients, Disconnect(c)
        PROVE  GatewayTypeOK' /\ \A d \in clients' : sock'[d] \in {"open", "closing"}
    <2>1. GatewayTypeOK'
      BY <1>2, <1>4, DisconnectTypes DEF GatewayInv, GatewayTypeOK
    <2>2. \A d \in clients' : sock'[d] \in {"open", "closing"}
      BY <1>4 DEF GatewayInv, GatewayTypeOK, Disconnect, Unregister, Stranger
    <2>. QED  BY <2>1, <2>2
  <1>5. ASSUME NEW c \in Clients, ClientSubscribes(c) \/ ClientUnsubscribes(c)
        PROVE  GatewayTypeOK' /\ \A d \in clients' : sock'[d] \in {"open", "closing"}
    <2>1. UNCHANGED <<sock, clients, ipConnections, told, gatewayUp>>
      BY <1>5 DEF ClientSubscribes, ClientUnsubscribes
    <2>. QED  BY <1>2, <1>5, <2>1, RequestTypes DEF GatewayInv, GatewayTypeOK
  <1>6. ASSUME NEW c \in Clients, StartClosing(c)
        PROVE  GatewayTypeOK' /\ \A d \in clients' : sock'[d] \in {"open", "closing"}
    BY <1>2, <1>6 DEF StartClosing, GatewayInv, GatewayTypeOK
  <1>7. CASE UpstreamStep
    BY <1>1, <1>2, <1>7, UpstreamTypes DEF GatewayInv, GatewayTypeOK, QuietGateway
  <1>8. CASE Shutdown
    <2>1. 0 \in Nat
      OBVIOUS
    <2>. QED  BY <1>1, <1>2, <1>8, <2>1 DEF Shutdown, GatewayInv, GatewayTypeOK
  <1>9. CASE UNCHANGED vars
    BY <1>1, <1>2, <1>9 DEF vars, gatewayVars, GatewayInv, GatewayTypeOK
  <1>. QED  BY <1>1, <1>3, <1>4, <1>5, <1>6, <1>7, <1>8, <1>9 DEF Next, GatewayInv

LEMMA InitGatewayInv == UpstreamConstants /\ Init => GatewayInv
  <1>. SUFFICES ASSUME UpstreamConstants, Init PROVE GatewayInv
    OBVIOUS
  <1>1. StreamInv
    BY InitStreamInv DEF Init
  <1>2. 0 \in Nat
    OBVIOUS
  <1>. QED  BY <1>1, <1>2 DEF Init, GatewayInv, GatewayTypeOK, StreamInv

\* The service under the gateway, and what the gateway knows of its sockets.
THEOREM GatewayInvariance == Spec => []GatewayInv
  <1>1. Init => GatewayInv
    BY UpstreamConstants, InitGatewayInv
  <1>2. GatewayInv /\ [Next]_vars => GatewayInv'
    BY UpstreamConstants, GatewayConstants, GatewayInvNext
  <1>. QED  BY <1>1, <1>2, PTL DEF Spec

-----------------------------------------------------------------------------
\* The callbacks are the channels held

Held(s) == {cb \in Callbacks : cb[2] \in channels[cb[1]] /\ StreamOf[cb[2]] = s}

\* The callbacks of some channels of a client on one stream.
Own(c, chs, s) == {<<c, ch>> : ch \in {x \in chs : StreamOf[x] = s}}

LEMMA CallbacksOnStream ==
    \A c, chs, s : {p[2] : p \in {q \in CallbacksOf(c, chs) : q[1] = s}} = Own(c, chs, s)
  <1>. TAKE c, chs, s
  <1>. DEFINE left  == {p[2] : p \in {q \in CallbacksOf(c, chs) : q[1] = s}}
              right == Own(c, chs, s)
  <1>1. ASSUME NEW cb \in left PROVE cb \in right
    <2>1. PICK q \in CallbacksOf(c, chs) : q[1] = s /\ q[2] = cb
      OBVIOUS
    <2>2. PICK ch \in chs : q = <<StreamOf[ch], <<c, ch>>>>
      BY <2>1 DEF CallbacksOf
    <2>3. StreamOf[ch] = s /\ cb = <<c, ch>>
      BY <2>1, <2>2
    <2>. QED  BY <2>3 DEF Own
  <1>2. ASSUME NEW cb \in right PROVE cb \in left
    <2>1. PICK ch \in chs : StreamOf[ch] = s /\ cb = <<c, ch>>
      BY DEF Own
    <2>. DEFINE q == <<StreamOf[ch], <<c, ch>>>>
    <2>2. q \in CallbacksOf(c, chs) /\ q[1] = s /\ q[2] = cb
      BY <2>1 DEF CallbacksOf
    <2>. HIDE DEF q
    <2>. QED  BY <2>2
  <1>. HIDE DEF left, right
  <1>3. left = right
    BY <1>1, <1>2
  <1>. QED  BY <1>3 DEF left, right

LEMMA SubscribingHolds ==
    ASSUME GatewayConstants, GatewayTypeOK, NEW s \in Streams, subscribers[s] = Held(s),
           NEW c \in Clients, NEW taken \in SUBSET ActiveChannels,
           channels' = [channels EXCEPT ![c] = @ \cup taken],
           Subscribe(CallbacksOf(c, taken))
    PROVE  subscribers'[s] = Held(s)'
  <1>. DEFINE new == Own(c, taken, s)
  <1>1. subscribers'[s] = subscribers[s] \cup new
    <2>1. subscribers'[s] = subscribers[s] \cup
             {p[2] : p \in {q \in CallbacksOf(c, taken) : q[1] = s}}
      BY DEF Subscribe, Registered
    <2>2. {p[2] : p \in {q \in CallbacksOf(c, taken) : q[1] = s}} = new
      BY CallbacksOnStream
    <2>. QED  BY <2>1, <2>2
  <1>2. ASSUME NEW d \in Clients, NEW ch \in ActiveChannels
        PROVE  <<d, ch>> \in Held(s)' <=> <<d, ch>> \in Held(s) \/ <<d, ch>> \in new
    <2>1. ch \in channels'[d] <=> ch \in channels[d] \/ (d = c /\ ch \in taken)
      BY DEF GatewayTypeOK
    <2>2. <<d, ch>> \in new <=> d = c /\ ch \in taken /\ StreamOf[ch] = s
      BY DEF Own
    <2>. QED  BY <2>1, <2>2 DEF Held, GatewayConstants
  <1>3. new \subseteq Clients \X ActiveChannels
    BY DEF Own
  <1>4. Held(s) \subseteq Clients \X ActiveChannels /\ Held(s)' \subseteq Clients \X ActiveChannels
    BY DEF Held, GatewayConstants
  <1>. HIDE DEF new
  <1>. QED  BY <1>1, <1>2, <1>3, <1>4

LEMMA UnsubscribingHolds ==
    ASSUME GatewayConstants, GatewayTypeOK, NEW s \in Streams, subscribers[s] = Held(s),
           NEW c \in Clients, NEW gone \in SUBSET ActiveChannels,
           channels' = [channels EXCEPT ![c] = @ \ gone],
           Unsubscribe(CallbacksOf(c, gone))
    PROVE  subscribers'[s] = Held(s)'
  <1>. DEFINE old == Own(c, gone, s)
  <1>1. subscribers'[s] = subscribers[s] \ old
    <2>1. subscribers'[s] = subscribers[s] \
             {p[2] : p \in {q \in CallbacksOf(c, gone) : q[1] = s}}
      BY DEF Unsubscribe, Removed
    <2>2. {p[2] : p \in {q \in CallbacksOf(c, gone) : q[1] = s}} = old
      BY CallbacksOnStream
    <2>. QED  BY <2>1, <2>2
  <1>2. ASSUME NEW d \in Clients, NEW ch \in ActiveChannels
        PROVE  <<d, ch>> \in Held(s)' <=> <<d, ch>> \in Held(s) /\ <<d, ch>> \notin old
    <2>1. ch \in channels'[d] <=> ch \in channels[d] /\ ~(d = c /\ ch \in gone)
      BY DEF GatewayTypeOK
    <2>2. <<d, ch>> \in old <=> d = c /\ ch \in gone /\ StreamOf[ch] = s
      BY DEF Own
    <2>. QED  BY <2>1, <2>2 DEF Held, GatewayConstants
  <1>4. Held(s) \subseteq Clients \X ActiveChannels /\ Held(s)' \subseteq Clients \X ActiveChannels
    BY DEF Held, GatewayConstants
  <1>. HIDE DEF old
  <1>. QED  BY <1>1, <1>2, <1>4

\* No more than the room left is taken, so the limit holds.
LEMMA WithinLimit ==
    ASSUME GatewayConstants, NEW held \in SUBSET ActiveChannels, NEW taken \in SUBSET ActiveChannels,
           taken \cap held = {}, Cardinality(held) <= MaxChannels, NEW fresh \in Nat,
           Cardinality(taken) = Smaller(fresh, MaxChannels - Cardinality(held))
    PROVE  Cardinality(held \cup taken) <= MaxChannels
  <1>1. IsFiniteSet(held) /\ IsFiniteSet(taken)
    BY FS_Subset DEF GatewayConstants
  <1>2. Cardinality(held \cup taken) = Cardinality(held) + Cardinality(taken) - Cardinality({})
    BY <1>1, FS_Union
  <1>3. Cardinality({}) = 0 /\ Cardinality(held) \in Nat /\ Cardinality(taken) \in Nat
    BY <1>1, FS_EmptySet, FS_CardinalityType
  <1>4. MaxChannels \in Nat
    BY DEF GatewayConstants
  <1>5. Cardinality(taken) <= MaxChannels - Cardinality(held)
    BY <1>3, <1>4 DEF Smaller
  <1>. QED  BY <1>2, <1>3, <1>4, <1>5

LEMMA FanoutNext ==
    ASSUME GatewayConstants, GatewayInv, FanoutExact, gatewayUp', [Next]_vars
    PROVE  /\ \A s \in Streams : subscribers'[s] = Held(s)'
           /\ \A c \in Clients : c \notin clients' => channels'[c] = {}
           /\ \A c \in Clients : Cardinality(channels'[c]) <= MaxChannels
  <1>. USE DEF GatewayInv
  <1>1. gatewayUp
    <2>1. UpstreamStep => UNCHANGED gatewayUp
      BY UpstreamTypes DEF QuietGateway
    <2>. QED  BY <2>1 DEF Next, Connect, ClientSubscribes, ClientUnsubscribes, StartClosing,
                        Disconnect, Shutdown, vars, gatewayVars
  <1>2. /\ \A s \in Streams : subscribers[s] = Held(s)
        /\ \A c \in Clients : c \notin clients => channels[c] = {}
        /\ \A c \in Clients : Cardinality(channels[c]) <= MaxChannels
    BY <1>1 DEF FanoutExact, Held
  <1>3. channels \in [Clients -> SUBSET ActiveChannels] /\ clients \in SUBSET Clients
    BY DEF GatewayTypeOK
  <1>4. Cardinality({}) = 0 /\ MaxChannels \in Nat /\ 0 <= MaxChannels
    BY FS_EmptySet DEF GatewayConstants
  <1>5. ASSUME NEW c \in Clients, ClientSubscribes(c)
        PROVE  /\ \A s \in Streams : subscribers'[s] = Held(s)'
               /\ \A d \in Clients : d \notin clients' => channels'[d] = {}
               /\ \A d \in Clients : Cardinality(channels'[d]) <= MaxChannels
    <2>1. PICK asked \in ValidLists :
            LET fresh == (asked \cap ActiveChannels) \ channels[c]
                room  == MaxChannels - Cardinality(channels[c])
            IN  \E taken \in SUBSET fresh :
                   /\ Cardinality(taken) = Smaller(Cardinality(fresh), room)
                   /\ channels' = [channels EXCEPT ![c] = @ \cup taken]
                   /\ Subscribe(CallbacksOf(c, taken))
      BY <1>5 DEF ClientSubscribes
    <2>. DEFINE fresh == (asked \cap ActiveChannels) \ channels[c]
    <2>2. PICK taken \in SUBSET fresh :
                   /\ Cardinality(taken) = Smaller(Cardinality(fresh), MaxChannels - Cardinality(channels[c]))
                   /\ channels' = [channels EXCEPT ![c] = @ \cup taken]
                   /\ Subscribe(CallbacksOf(c, taken))
      BY <2>1
    <2>3. taken \in SUBSET ActiveChannels /\ taken \cap channels[c] = {}
      OBVIOUS
    <2>4. \A s \in Streams : subscribers'[s] = Held(s)'
      BY <1>2, <2>2, <2>3, SubscribingHolds
    <2>5. fresh \in SUBSET Channels /\ IsFiniteSet(Channels)
      BY DEF GatewayConstants
    <2>6. Cardinality(fresh) \in Nat
      BY <2>5, FS_Subset, FS_CardinalityType
    <2>. HIDE DEF fresh
    <2>7. Cardinality(channels[c] \cup taken) <= MaxChannels
      BY <1>2, <1>3, <2>2, <2>3, <2>6, WithinLimit
    <2>8. clients' = clients /\ c \in clients
      BY <1>5 DEF ClientSubscribes
    <2>9. \A d \in Clients : channels'[d] = IF d = c THEN channels[c] \cup taken ELSE channels[d]
      BY <1>3, <2>2
    <2>. QED  BY <1>2, <2>4, <2>7, <2>8, <2>9
  <1>6. ASSUME NEW c \in Clients, NEW gone \in SUBSET ActiveChannels,
               channels' = [channels EXCEPT ![c] = @ \ gone],
               Unsubscribe(CallbacksOf(c, gone)),
               \A d \in Clients : d \notin clients' => d \notin clients \/ (d = c /\ gone = channels[c])
        PROVE  /\ \A s \in Streams : subscribers'[s] = Held(s)'
               /\ \A d \in Clients : d \notin clients' => channels'[d] = {}
               /\ \A d \in Clients : Cardinality(channels'[d]) <= MaxChannels
    <2>1. \A s \in Streams : subscribers'[s] = Held(s)'
      BY <1>2, <1>6, UnsubscribingHolds
    <2>2. \A d \in Clients : channels'[d] = IF d = c THEN channels[c] \ gone ELSE channels[d]
      BY <1>3, <1>6
    <2>3. Cardinality(channels[c] \ gone) <= MaxChannels
      <3>1. IsFiniteSet(channels[c])
        BY <1>3, FS_Subset DEF GatewayConstants
      <3>2. /\ IsFiniteSet(channels[c] \ gone)
            /\ Cardinality(channels[c] \ gone) <= Cardinality(channels[c])
        BY <3>1, FS_Subset
      <3>3. Cardinality(channels[c]) \in Nat /\ Cardinality(channels[c] \ gone) \in Nat
        BY <3>1, <3>2, FS_CardinalityType
      <3>. QED  BY <1>2, <1>4, <3>2, <3>3
    <2>. QED  BY <1>2, <1>6, <2>1, <2>2, <2>3
  <1>7. ASSUME NEW c \in Clients, ClientUnsubscribes(c)
        PROVE  /\ \A s \in Streams : subscribers'[s] = Held(s)'
               /\ \A d \in Clients : d \notin clients' => channels'[d] = {}
               /\ \A d \in Clients : Cardinality(channels'[d]) <= MaxChannels
    <2>1. PICK asked \in ValidLists :
            /\ channels' = [channels EXCEPT ![c] = @ \ (asked \cap channels[c])]
            /\ Unsubscribe(CallbacksOf(c, asked \cap channels[c]))
      BY <1>7 DEF ClientUnsubscribes
    <2>2. clients' = clients /\ asked \cap channels[c] \in SUBSET ActiveChannels
      BY <1>3, <1>7 DEF ClientUnsubscribes
    <2>. QED  BY <1>6, <2>1, <2>2
  <1>8. ASSUME NEW c \in Clients, Disconnect(c)
        PROVE  /\ \A s \in Streams : subscribers'[s] = Held(s)'
               /\ \A d \in Clients : d \notin clients' => channels'[d] = {}
               /\ \A d \in Clients : Cardinality(channels'[d]) <= MaxChannels
    <2>1. CASE Unregister(c)
      <3>1. channels' = [channels EXCEPT ![c] = @ \ channels[c]]
        BY <1>3, <2>1 DEF Unregister
      <3>2. channels[c] \in SUBSET ActiveChannels /\ clients' = clients \ {c}
        BY <1>3, <2>1 DEF Unregister
      <3>. QED  BY <1>6, <2>1, <3>1, <3>2 DEF Unregister
    <2>2. CASE Stranger(c)
      BY <1>2, <2>2 DEF Stranger, streamVars, Held
    <2>. QED  BY <1>8, <2>1, <2>2 DEF Disconnect
  <1>9. ASSUME NEW c \in Clients, Connect(c)
        PROVE  /\ \A s \in Streams : subscribers'[s] = Held(s)'
               /\ \A d \in Clients : d \notin clients' => channels'[d] = {}
               /\ \A d \in Clients : Cardinality(channels'[d]) <= MaxChannels
    <2>1. channels' = channels /\ subscribers' = subscribers /\ clients \subseteq clients'
      <3>1. c \notin clients /\ channels[c] = {}
        BY <1>2, <1>9 DEF Connect
      <3>2. CASE Refused(c)
        BY <1>9, <3>2 DEF Connect, Refused, streamVars
      <3>3. CASE Accepted(c)
        <4>1. channels' = [channels EXCEPT ![c] = {}]
          BY <3>3 DEF Accepted
        <4>2. channels' = channels
          BY <1>3, <3>1, <4>1
        <4>. QED  BY <1>9, <3>3, <4>2 DEF Connect, Accepted, streamVars
      <3>. QED  BY <1>9, <3>2, <3>3 DEF Connect
    <2>. QED  BY <1>2, <2>1 DEF Held
  <1>10. CASE UpstreamStep
    <2>1. subscribers' = subscribers /\ channels' = channels /\ clients' = clients
      BY <1>10 DEF UpstreamStep, UpstreamOpens, UpstreamCloses, Open, Close, PeerCloses, Reconnect,
                   Destroy, BinanceObeys, QuietGateway
    <2>. QED  BY <1>2, <2>1 DEF Held
  <1>11. CASE (\E c \in Clients : StartClosing(c)) \/ UNCHANGED vars
    <2>1. subscribers' = subscribers /\ channels' = channels /\ clients' = clients
      BY <1>11 DEF StartClosing, vars, streamVars, gatewayVars
    <2>. QED  BY <1>2, <2>1 DEF Held
  <1>12. ~Shutdown
    BY DEF Shutdown
  <1>. QED  BY <1>5, <1>7, <1>8, <1>9, <1>10, <1>11, <1>12 DEF Next

\* Each stream is called back for exactly the channels held, and the limit holds.
THEOREM Fanout == Spec => []FanoutExact
  <1>1. Init => FanoutExact
    <2>1. Cardinality({}) = 0 /\ MaxChannels \in Nat
      BY GatewayConstants, FS_EmptySet DEF GatewayConstants
    <2>2. Callbacks = Clients \X ActiveChannels
      BY GatewayConstants DEF GatewayConstants
    <2>. QED  BY <2>1, <2>2 DEF Init, StreamInit, FanoutExact
  <1>2. GatewayInv /\ FanoutExact /\ [Next]_vars => FanoutExact'
    BY GatewayConstants, FanoutNext DEF FanoutExact, Held
  <1>. QED  BY <1>1, <1>2, GatewayInvariance, PTL DEF Spec

\* While the service is connected, what Binance sends once the messages on their way
\* are obeyed is what the clients hold channels of: nothing is streamed for a client
\* that left, and no client waits for a stream nobody asked for.
EndToEnd ==
    gatewayUp /\ IsOpen =>
        \A s \in Streams :
            WillSend(s) <=> \E c \in Clients, ch \in ActiveChannels :
                                ch \in channels[c] /\ StreamOf[ch] = s

\* The two mirrors one after the other: demand at Binance, callbacks at the gateway.
THEOREM ServedFromEndToEnd == Spec => []EndToEnd
  <1>1. Init => DemandMirrored
    BY InitDemand DEF Init
  <1>2. GatewayInv /\ DemandMirrored /\ [Next]_vars => DemandMirrored'
    BY UpstreamConstants, GatewayConstants, GatewayStepIsStreamStep, DemandKept DEF GatewayInv
  <1>3. FanoutExact /\ DemandMirrored => EndToEnd
    <2>. SUFFICES ASSUME FanoutExact, DemandMirrored, gatewayUp, IsOpen, NEW s \in Streams
                  PROVE  WillSend(s) <=> \E c \in Clients, ch \in ActiveChannels :
                                            ch \in channels[c] /\ StreamOf[ch] = s
      BY DEF EndToEnd
    <2>1. WillSend(s) <=> subscribers[s] # {}
      BY DEF DemandMirrored
    <2>2. subscribers[s] = Held(s)
      BY DEF FanoutExact, Held
    <2>3. Callbacks = Clients \X ActiveChannels
      BY GatewayConstants DEF GatewayConstants
    <2>4. Held(s) # {} <=> \E c \in Clients, ch \in ActiveChannels :
                              ch \in channels[c] /\ StreamOf[ch] = s
      <3>1. ASSUME NEW cb \in Held(s)
            PROVE  \E c \in Clients, ch \in ActiveChannels :
                              ch \in channels[c] /\ StreamOf[ch] = s
        BY <2>3, <3>1 DEF Held
      <3>2. ASSUME NEW c \in Clients, NEW ch \in ActiveChannels,
                   ch \in channels[c], StreamOf[ch] = s
            PROVE  <<c, ch>> \in Held(s)
        BY <2>3, <3>2 DEF Held
      <3>. QED  BY <3>1, <3>2
    <2>. QED  BY <2>1, <2>2, <2>4
  <1>. QED  BY <1>1, <1>2, <1>3, GatewayInvariance, Fanout, PTL DEF Spec

-----------------------------------------------------------------------------
\* The count of an address

From(ip) == {c \in clients : IpOf[c] = ip}

LEMMA IpCountNext ==
    ASSUME GatewayConstants, GatewayInv, IpCountExact, [Next]_vars
    PROVE  IpCountExact'
  <1>. SUFFICES ASSUME NEW ip \in Ips
                PROVE  ipConnections'[ip] = Cardinality(From(ip)') /\ ipConnections'[ip] <= MaxPerIp
    BY DEF IpCountExact, From
  <1>1. /\ ipConnections[ip] = Cardinality(From(ip))
        /\ ipConnections[ip] <= MaxPerIp
    BY DEF IpCountExact, From
  <1>2. /\ ipConnections \in [Ips -> Nat] /\ clients \in SUBSET Clients
        /\ IpOf \in [Clients -> Ips] /\ MaxPerIp \in Nat /\ ipConnections[ip] \in Nat
    BY DEF GatewayInv, GatewayTypeOK, GatewayConstants
  <1>3. IsFiniteSet(From(ip))
    BY <1>2, FS_Subset DEF From, GatewayConstants
  <1>4. ASSUME NEW c \in Clients, Connect(c)
        PROVE  ipConnections'[ip] = Cardinality(From(ip)') /\ ipConnections'[ip] <= MaxPerIp
    <2>1. CASE Refused(c)
      BY <1>1, <2>1 DEF Refused, From
    <2>2. CASE Accepted(c)
      <3>1. c \notin clients
        BY <1>4 DEF Connect, GatewayInv
      <3>2. /\ ipConnections[IpOf[c]] < MaxPerIp /\ clients' = clients \cup {c}
            /\ ipConnections'[ip] = IF ip = IpOf[c] THEN ipConnections[ip] + 1 ELSE ipConnections[ip]
        BY <1>2, <2>2 DEF Accepted
      <3>3. CASE ip = IpOf[c]
        <4>1. From(ip)' = From(ip) \cup {c} /\ c \notin From(ip)
          BY <3>1, <3>2, <3>3 DEF From
        <4>2. Cardinality(From(ip)') = Cardinality(From(ip)) + 1
          BY <1>3, <4>1, FS_AddElement
        <4>. QED  BY <1>1, <1>2, <3>2, <3>3, <4>2
      <3>4. CASE ip # IpOf[c]
        <4>1. From(ip)' = From(ip)
          BY <3>2, <3>4 DEF From
        <4>. QED  BY <1>1, <3>2, <3>4, <4>1
      <3>. QED  BY <3>3, <3>4
    <2>. QED  BY <1>4, <2>1, <2>2 DEF Connect
  <1>5. ASSUME NEW c \in Clients, Disconnect(c)
        PROVE  ipConnections'[ip] = Cardinality(From(ip)') /\ ipConnections'[ip] <= MaxPerIp
    <2>1. CASE Stranger(c)
      BY <1>1, <2>1 DEF Stranger, From
    <2>2. CASE Unregister(c)
      <3>1. c \in clients /\ clients' = clients \ {c}
        BY <2>2 DEF Unregister
      <3>2. ipConnections'[ip] = IF ip = IpOf[c]
                                 THEN IF ipConnections[ip] <= 1 THEN 0 ELSE ipConnections[ip] - 1
                                 ELSE ipConnections[ip]
        BY <1>2, <2>2 DEF Unregister
      <3>3. CASE ip = IpOf[c]
        <4>1. From(ip)' = From(ip) \ {c} /\ c \in From(ip)
          BY <3>1, <3>3 DEF From
        <4>2. Cardinality(From(ip)') = Cardinality(From(ip)) - 1
          BY <1>3, <4>1, FS_RemoveElement
        <4>3. Cardinality(From(ip)) # 0
          BY <1>3, <4>1, FS_EmptySet
        <4>. QED  BY <1>1, <1>2, <3>2, <3>3, <4>2, <4>3
      <3>4. CASE ip # IpOf[c]
        <4>1. From(ip)' = From(ip)
          BY <3>1, <3>4 DEF From
        <4>. QED  BY <1>1, <3>2, <3>4, <4>1
      <3>. QED  BY <3>3, <3>4
    <2>. QED  BY <1>5, <2>1, <2>2 DEF Disconnect
  <1>6. CASE Shutdown
    <2>1. From(ip)' = {} /\ ipConnections'[ip] = 0
      BY <1>6 DEF Shutdown, From
    <2>. QED  BY <1>2, <2>1, FS_EmptySet
  <1>7. ASSUME UNCHANGED <<clients, ipConnections>>
        PROVE  ipConnections'[ip] = Cardinality(From(ip)') /\ ipConnections'[ip] <= MaxPerIp
    BY <1>1, <1>7 DEF From
  <1>8. ASSUME NEW c \in Clients, ClientSubscribes(c) \/ ClientUnsubscribes(c) \/ StartClosing(c)
        PROVE  UNCHANGED <<clients, ipConnections>>
    BY <1>8 DEF ClientSubscribes, ClientUnsubscribes, StartClosing
  <1>9. UpstreamStep \/ UNCHANGED vars => UNCHANGED <<clients, ipConnections>>
    BY UpstreamTypes DEF QuietGateway, vars, gatewayVars, GatewayInv
  <1>. QED  BY <1>4, <1>5, <1>6, <1>7, <1>8, <1>9 DEF Next

\* Every address is counted for the sockets registered from it, never past its limit.
THEOREM Counted == Spec => []IpCountExact
  <1>1. Init => IpCountExact
    BY GatewayConstants, FS_EmptySet DEF Init, IpCountExact, GatewayConstants
  <1>2. GatewayInv /\ IpCountExact /\ [Next]_vars => IpCountExact'
    BY GatewayConstants, IpCountNext
  <1>. QED  BY <1>1, <1>2, GatewayInvariance, PTL DEF Spec

-----------------------------------------------------------------------------
\* What the clients were told

LEMMA ToldNext ==
    ASSUME GatewayConstants, GatewayInv, StreamInv', ToldTheTruth, [Next]_vars
    PROVE  ToldTheTruth'
  <1>. SUFFICES ASSUME gatewayUp', ~destroyed', NEW d \in clients', sock'[d] = "open"
                PROVE  (told'[d] => upstreamConnected') /\ (IsOpen' => told'[d])
    BY DEF ToldTheTruth
  <1>. USE DEF IsOpen
  <1>1. /\ clients \in SUBSET Clients /\ sock \in [Clients -> {"none", "open", "closing", "rejected"}]
        /\ told \in [Clients -> BOOLEAN] /\ upstreamConnected \in BOOLEAN
        /\ ~destroyed => (upstreamConnected <=> ws \in {"open", "closing"})
    BY DEF GatewayInv, GatewayTypeOK, StreamInv, StreamTypeOK, StatusFollowsSocket
  <1>2. ASSUME gatewayUp, ~destroyed, d \in clients, sock[d] = "open"
        PROVE  (told[d] => upstreamConnected) /\ (IsOpen => told[d])
    BY <1>2 DEF ToldTheTruth
  <1>3. ASSUME NEW c \in Clients, Connect(c)
        PROVE  (told'[d] => upstreamConnected') /\ (IsOpen' => told'[d])
    <2>1. /\ ws' = ws /\ upstreamConnected' = upstreamConnected /\ ~destroyed /\ gatewayUp
      BY <1>3 DEF Connect, streamVars
    <2>2. CASE Refused(c)
      <3>1. d \in clients /\ d # c /\ sock[d] = "open" /\ told'[d] = told[d]
        BY <1>1, <2>2 DEF Refused
      <3>. QED  BY <1>2, <2>1, <3>1
    <2>3. CASE Accepted(c)
      <3>1. CASE d = c
        <4>1. told'[d] <=> IsOpen
          BY <1>1, <2>3, <3>1 DEF Accepted
        <4>. QED  BY <1>1, <2>1, <4>1
      <3>2. CASE d # c
        <4>1. d \in clients /\ sock[d] = "open" /\ told'[d] = told[d]
          BY <1>1, <2>3, <3>2 DEF Accepted
        <4>. QED  BY <1>2, <2>1, <4>1
      <3>. QED  BY <3>1, <3>2
    <2>. QED  BY <1>3, <2>2, <2>3 DEF Connect
  <1>4. ASSUME d \in clients, sock[d] = "open", gatewayUp,
               UNCHANGED <<told, upstreamConnected, destroyed>>, IsOpen' => IsOpen
        PROVE  (told'[d] => upstreamConnected') /\ (IsOpen' => told'[d])
    BY <1>2, <1>4
  <1>5. ASSUME NEW c \in Clients, ClientSubscribes(c) \/ ClientUnsubscribes(c)
        PROVE  (told'[d] => upstreamConnected') /\ (IsOpen' => told'[d])
    <2>1. UNCHANGED <<sock, clients, told, gatewayUp>> /\ UNCHANGED connectionVars
      BY <1>5 DEF ClientSubscribes, ClientUnsubscribes, Subscribe, Unsubscribe
    <2>. QED  BY <1>4, <2>1 DEF connectionVars
  <1>6. ASSUME NEW c \in Clients, Disconnect(c)
        PROVE  (told'[d] => upstreamConnected') /\ (IsOpen' => told'[d])
    <2>1. UNCHANGED <<told, gatewayUp>> /\ UNCHANGED connectionVars
      BY <1>6 DEF Disconnect, Unregister, Stranger, Unsubscribe, streamVars, connectionVars
    <2>2. d \in clients /\ sock[d] = "open"
      BY <1>1, <1>6 DEF Disconnect, Unregister, Stranger
    <2>. QED  BY <1>4, <2>1, <2>2 DEF connectionVars
  <1>7. ASSUME NEW c \in Clients, StartClosing(c)
        PROVE  (told'[d] => upstreamConnected') /\ (IsOpen' => told'[d])
    <2>1. UNCHANGED <<told, gatewayUp, upstreamConnected, destroyed, ws>>
      BY <1>7 DEF StartClosing, streamVars
    <2>2. d \in clients /\ sock[d] = "open"
      BY <1>1, <1>7 DEF StartClosing
    <2>. QED  BY <1>4, <2>1, <2>2
  <1>8. CASE UpstreamOpens
    <2>1. ws = "connecting" /\ ~destroyed /\ ~upstreamConnected /\ upstreamConnected'
      BY <1>1, <1>8 DEF UpstreamOpens, Open, SetUpstreamConnected
    <2>2. d \in clients /\ sock[d] = "open" /\ gatewayUp
      BY <1>8 DEF UpstreamOpens, QuietGateway
    <2>3. told'[d] = TRUE
      <3>1. TRUE # upstreamConnected
        BY <1>1, <2>1
      <3>. QED  BY <1>1, <1>8, <2>2, <3>1 DEF UpstreamOpens, Broadcast
    <2>. QED  BY <2>1, <2>3
  <1>9. CASE UpstreamCloses
    <2>1. ws' = "none" /\ ~upstreamConnected' /\ ~destroyed
      BY <1>9 DEF UpstreamCloses, Close, SetUpstreamConnected
    <2>2. d \in clients /\ sock[d] = "open" /\ gatewayUp
      BY <1>9 DEF UpstreamCloses, QuietGateway
    <2>3. CASE upstreamConnected
      <3>1. FALSE # upstreamConnected
        BY <1>1, <2>3
      <3>2. told'[d] = FALSE
        BY <1>1, <1>9, <2>2, <3>1 DEF UpstreamCloses, Broadcast
      <3>. QED  BY <2>1, <3>2
    <2>4. CASE ~upstreamConnected
      <3>1. FALSE = upstreamConnected
        BY <1>1, <2>4
      <3>2. told'[d] = told[d]
        BY <1>9, <3>1 DEF UpstreamCloses, Broadcast
      <3>. QED  BY <1>2, <2>1, <2>2, <2>4, <3>2
    <2>. QED  BY <2>3, <2>4
  <1>10. CASE (PeerCloses \/ Reconnect \/ Destroy \/ BinanceObeys) /\ UNCHANGED told /\ QuietGateway
    <2>1. d \in clients /\ sock[d] = "open" /\ gatewayUp
      BY <1>10 DEF QuietGateway
    <2>2. ~Destroy
      BY DEF Destroy
    <2>3. UNCHANGED <<told, upstreamConnected, destroyed>> /\ (IsOpen' => IsOpen)
      BY <1>10, <2>2 DEF PeerCloses, Reconnect, BinanceObeys, connectionVars
    <2>. QED  BY <1>4, <2>1, <2>3
  <1>11. ~Shutdown
    BY DEF Shutdown
  <1>12. CASE UNCHANGED vars
    <2>1. UNCHANGED <<told, gatewayUp, upstreamConnected, destroyed, ws, sock, clients>>
      BY <1>12 DEF vars, streamVars, gatewayVars
    <2>. QED  BY <1>4, <2>1
  <1>. QED  BY <1>3, <1>5, <1>6, <1>7, <1>8, <1>9, <1>10, <1>11, <1>12 DEF Next, UpstreamStep

\* No open client believes in a feed that is down, or misses one that is up.
THEOREM Told == Spec => []ToldTheTruth
  <1>1. Init => ToldTheTruth
    BY DEF Init, ToldTheTruth
  <1>2. GatewayInv' => StreamInv'
    BY DEF GatewayInv
  <1>3. GatewayInv /\ GatewayInv' /\ ToldTheTruth /\ [Next]_vars => ToldTheTruth'
    BY <1>2, GatewayConstants, ToldNext
  <1>. QED  BY <1>1, <1>3, GatewayInvariance, PTL DEF Spec
=============================================================================
