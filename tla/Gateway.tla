------------------------------- MODULE Gateway -------------------------------
(***************************************************************************)
(* ExchangeGateway on top of BinanceStreamService: browser sockets come    *)
(* and go, each with its set of channels, and every channel is a callback  *)
(* registered with the stream service.  The gateway calls the service      *)
(* synchronously, so a handler of the gateway and what it makes the        *)
(* service do are one step; the service's own events (a connection that    *)
(* opens or closes) call back into the gateway in one step too.            *)
(*                                                                         *)
(* When a client falls silent is the business of module Heartbeat: here a  *)
(* socket may start closing at any moment.                                 *)
(***************************************************************************)
EXTENDS UpstreamStream, FiniteSets

CONSTANTS
    Clients,            \* client sockets
    Ips,
    IpOf,               \* extractIp of each socket's upgrade request
    Channels,           \* raw channel strings a client may send
    ActiveChannels,     \* those that parse and name a symbol in activeSymbols
    StreamOf,           \* channelToBinanceStream of the parsed channel
    MaxChannels,        \* MAX_CHANNELS_PER_CLIENT
    MaxPerMessage,      \* .max(20) of SubscribeMessageSchema and UnsubscribeMessageSchema
    MaxPerIp            \* MAX_CONNECTIONS_PER_IP

ASSUME GatewayConstants ==
    /\ IpOf \in [Clients -> Ips]
    /\ ActiveChannels \subseteq Channels
    /\ StreamOf \in [ActiveChannels -> Streams]
    /\ Callbacks = Clients \X ActiveChannels
    /\ MaxChannels \in Nat \ {0}
    /\ MaxPerMessage \in Nat \ {0}
    /\ MaxPerIp \in Nat \ {0}
    /\ IsFiniteSet(Clients) /\ IsFiniteSet(Channels)

VARIABLES
    sock,               \* each client's socket as the server sees it
    clients,            \* keys of the clients map
    channels,           \* channels[c]: keys of the channels map of client c
    ipConnections,      \* 0 where the map has no key
    told,               \* the last upstream_status sent on a socket
    gatewayUp           \* onModuleDestroy has not run, the status listener is set

gatewayVars == <<sock, clients, channels, ipConnections, told, gatewayUp>>
vars == <<streamVars, gatewayVars>>

GatewayTypeOK ==
    /\ StreamTypeOK
    /\ sock \in [Clients -> {"none", "open", "closing", "rejected"}]
    /\ clients \in SUBSET Clients
    /\ channels \in [Clients -> SUBSET ActiveChannels]
    /\ ipConnections \in [Ips -> Nat]
    /\ told \in [Clients -> BOOLEAN]
    /\ gatewayUp \in BOOLEAN

Init ==
    /\ StreamInit
    /\ sock = [c \in Clients |-> "none"]
    /\ clients = {}
    /\ channels = [c \in Clients |-> {}]
    /\ ipConnections = [ip \in Ips |-> 0]
    /\ told = [c \in Clients |-> FALSE]
    /\ gatewayUp = TRUE

\* The callbacks a client holds for some of its channels, with their streams.
CallbacksOf(c, chs) == {<<StreamOf[ch], <<c, ch>>>> : ch \in chs}

-----------------------------------------------------------------------------
\* handleConnection: refused with code 4029, or counted and registered.

\* Mutant: the socket is counted before the limit is looked at.
RefusedButCounted(c) ==
    /\ ipConnections[IpOf[c]] >= MaxPerIp
    /\ sock' = [sock EXCEPT ![c] = "rejected"]
    /\ ipConnections' = [ipConnections EXCEPT ![IpOf[c]] = @ + 1]
    /\ UNCHANGED <<clients, channels, told>>

Refused(c) ==
    /\ ipConnections[IpOf[c]] >= MaxPerIp
    /\ sock' = [sock EXCEPT ![c] = "rejected"]
    /\ UNCHANGED <<clients, channels, ipConnections, told>>

Accepted(c) ==
    /\ ipConnections[IpOf[c]] < MaxPerIp
    /\ sock' = [sock EXCEPT ![c] = "open"]
    /\ ipConnections' = [ipConnections EXCEPT ![IpOf[c]] = @ + 1]
    /\ clients' = clients \cup {c}
    /\ channels' = [channels EXCEPT ![c] = {}]
    /\ told' = [told EXCEPT ![c] = IsOpen]

Connect(c) ==
    /\ sock[c] = "none"
    /\ Refused(c) \/ Accepted(c)
    /\ UNCHANGED <<streamVars, gatewayUp>>

-----------------------------------------------------------------------------
\* onClientMessage.  The channels of a message are taken in the order the client
\* wrote them, which may be any, until the limit is reached.  A message that was
\* read before the socket started closing is still handled.

Smaller(m, n) == IF m < n THEN m ELSE n

\* The channel lists that pass the schema; any other message is refused whole and
\* changes nothing.
ValidLists == {asked \in SUBSET Channels : Cardinality(asked) \in 1..MaxPerMessage}

\* addSubscription for each channel: unknown ones and repeats change nothing.
ClientSubscribes(c) ==
    /\ c \in clients
    /\ Len(wire) < MaxWire
    /\ \E asked \in ValidLists :
          LET fresh == (asked \cap ActiveChannels) \ channels[c]
              room  == MaxChannels - Cardinality(channels[c])
          IN  \E taken \in SUBSET fresh :
                 /\ Cardinality(taken) = Smaller(Cardinality(fresh), room)
                 /\ channels' = [channels EXCEPT ![c] = @ \cup taken]
                 /\ Subscribe(CallbacksOf(c, taken))
    /\ UNCHANGED <<sock, clients, ipConnections, told, gatewayUp>>

\* removeSubscription for each channel.
ClientUnsubscribes(c) ==
    /\ c \in clients
    /\ Len(wire) < MaxWire
    /\ \E asked \in ValidLists :
          LET gone == asked \cap channels[c] IN
          /\ channels' = [channels EXCEPT ![c] = @ \ gone]
          /\ Unsubscribe(CallbacksOf(c, gone))
    /\ UNCHANGED <<sock, clients, ipConnections, told, gatewayUp>>

-----------------------------------------------------------------------------
\* The end of a socket

\* The peer's close frame arrives, or the heartbeat terminates the socket.
StartClosing(c) ==
    /\ sock[c] = "open"
    /\ sock' = [sock EXCEPT ![c] = "closing"]
    /\ UNCHANGED <<streamVars, clients, channels, ipConnections, told, gatewayUp>>

\* Two mutants: the callbacks stay registered; the entry stays in the clients map.
UnregisterLeaks(c) ==
    /\ c \in clients
    /\ channels' = [channels EXCEPT ![c] = {}]
    /\ ipConnections' = [ipConnections EXCEPT ![IpOf[c]] = IF @ <= 1 THEN 0 ELSE @ - 1]
    /\ clients' = clients \ {c}
    /\ UNCHANGED streamVars

UnregisterKeepsEntry(c) ==
    /\ c \in clients
    /\ Unsubscribe(CallbacksOf(c, channels[c]))
    /\ channels' = [channels EXCEPT ![c] = {}]
    /\ ipConnections' = [ipConnections EXCEPT ![IpOf[c]] = IF @ <= 1 THEN 0 ELSE @ - 1]
    /\ UNCHANGED clients

\* handleDisconnect: the client's callbacks, its count and its entry all go.
Unregister(c) ==
    /\ c \in clients
    /\ Unsubscribe(CallbacksOf(c, channels[c]))
    /\ channels' = [channels EXCEPT ![c] = {}]
    /\ ipConnections' = [ipConnections EXCEPT ![IpOf[c]] = IF @ <= 1 THEN 0 ELSE @ - 1]
    /\ clients' = clients \ {c}

\* Mutant: every disconnect decrements, also one the gateway does not know.
StrangerDecrements(c) ==
    /\ c \notin clients
    /\ ipConnections' = [ipConnections EXCEPT ![IpOf[c]] = @ - 1]
    /\ UNCHANGED <<streamVars, channels, clients>>

\* No state for this socket: it was refused, or the gateway is shutting down.
Stranger(c) ==
    /\ c \notin clients
    /\ UNCHANGED <<streamVars, channels, ipConnections, clients>>

Disconnect(c) ==
    /\ sock[c] # "none"
    /\ Unregister(c) \/ Stranger(c)
    /\ sock' = [sock EXCEPT ![c] = "none"]
    /\ UNCHANGED <<told, gatewayUp>>

-----------------------------------------------------------------------------
\* The stream service's events.  broadcastUpstreamStatus runs when the status
\* changes and skips the sockets that are not open.

\* Mutant: only a loss is told.
BroadcastLoss(connected) ==
    told' = IF gatewayUp /\ ~connected
            THEN [c \in Clients |-> IF c \in clients /\ sock[c] = "open" THEN FALSE ELSE told[c]]
            ELSE told

Broadcast(connected) ==
    told' = IF gatewayUp /\ connected # upstreamConnected
            THEN [c \in Clients |-> IF c \in clients /\ sock[c] = "open" THEN connected
                                    ELSE told[c]]
            ELSE told

QuietGateway == UNCHANGED <<sock, clients, channels, ipConnections, gatewayUp>>

UpstreamOpens  == Open  /\ Broadcast(TRUE)  /\ QuietGateway
UpstreamCloses == Close /\ Broadcast(FALSE) /\ QuietGateway

UpstreamStep ==
    \/ UpstreamOpens \/ UpstreamCloses
    \/ (PeerCloses \/ Reconnect \/ Destroy \/ BinanceObeys) /\ UNCHANGED told /\ QuietGateway

\* onModuleDestroy of the gateway; that of the service is Destroy, before or after.
Shutdown ==
    /\ gatewayUp
    /\ gatewayUp' = FALSE
    /\ sock' = [c \in Clients |-> IF c \in clients THEN "closing" ELSE sock[c]]
    /\ clients' = {}
    /\ channels' = [c \in Clients |-> {}]
    /\ ipConnections' = [ip \in Ips |-> 0]
    /\ UNCHANGED <<streamVars, told>>

Next ==
    \/ \E c \in Clients : \/ Connect(c) \/ ClientSubscribes(c) \/ ClientUnsubscribes(c)
                          \/ StartClosing(c) \/ Disconnect(c)
    \/ UpstreamStep
    \/ Shutdown

Spec == Init /\ [][Next]_vars

\* On top of the service's fairness, a closing socket gets its 'close' event.
Fairness ==
    /\ WF_vars(Reconnect /\ UpstreamStep)
    /\ WF_vars(ws \in {"connecting", "closing"} /\ (UpstreamOpens \/ UpstreamCloses))
    /\ WF_vars(BinanceObeys /\ UpstreamStep)
    /\ \A c \in Clients : WF_vars(sock[c] \in {"closing", "rejected"} /\ Disconnect(c))

FairSpec == Spec /\ Fairness

-----------------------------------------------------------------------------
\* Properties

\* The inductive part: the stream service underneath keeps its one chain and its status
\* whatever the gateway asks of it, no count falls below zero, and a registered socket
\* is one the server still has, so that a new connection never finds itself registered
\* (handleConnection, handleDisconnect, onModuleDestroy).
GatewayInv ==
    /\ GatewayTypeOK
    /\ StreamInv
    /\ \A c \in clients : sock[c] \in {"open", "closing"}

\* The count per IP is the number of sockets registered from it, whatever the order
\* in which they were accepted, refused, closed and disconnected, and stays within
\* the limit: a count that leaks upwards would lock an address out for good.
IpCountExact ==
    \A ip \in Ips :
        /\ ipConnections[ip] = Cardinality({c \in clients : IpOf[c] = ip})
        /\ ipConnections[ip] <= MaxPerIp

\* The stream service calls back exactly the channels clients hold: no callback of
\* a client that left (a leak that also keeps the stream open at Binance), none
\* missing, no client above its limit.
FanoutExact ==
    gatewayUp =>
        /\ \A s \in Streams :
              subscribers[s] = {cb \in Callbacks : /\ cb[2] \in channels[cb[1]]
                                                   /\ StreamOf[cb[2]] = s}
        /\ \A c \in Clients : c \notin clients => channels[c] = {}
        /\ \A c \in Clients : Cardinality(channels[c]) <= MaxChannels

\* Every open client was last told the truth about the feed: told it is up only if
\* it has not gone down, and never left believing it is down while it is up, even
\* if it connected while the upstream socket was closing.
ToldTheTruth ==
    gatewayUp /\ ~destroyed =>
        \A c \in clients : sock[c] = "open" =>
            /\ told[c] => upstreamConnected
            /\ IsOpen => told[c]

\* A refused or closing socket is no longer registered once it is gone, so its slot
\* is always given back.
SlotGivenBack == \A c \in Clients : sock[c] = "closing" ~> c \notin clients

\* A stream that some client holds a channel of, whichever client it is at each
\* moment, is sent by Binance on a connection that stays up.
ChannelServed ==
    \A s \in Streams :
        <>[](/\ IsOpen /\ gatewayUp
             /\ \E c \in Clients, ch \in ActiveChannels : ch \in channels[c] /\ StreamOf[ch] = s)
            => <>[](s \in upstream)
=============================================================================
