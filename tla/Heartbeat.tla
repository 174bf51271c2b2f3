------------------------------ MODULE Heartbeat ------------------------------
(***************************************************************************)
(* ExchangeGateway.runHeartbeat in time: a timer shared by all clients     *)
(* fires every HEARTBEAT_MS, pings each open client and terminates the     *)
(* ones not heard from for more than HEARTBEAT_TIMEOUT_MS.  A client joins *)
(* at any phase of the timer; its browser answers a ping within MaxDelay,  *)
(* sends messages of its own when it likes, or falls silent without a      *)
(* close frame (a closed lid, a dead network).                             *)
(*                                                                         *)
(* Time advances in ticks.  Everything that happens between two ticks      *)
(* happens at the same instant, in any order.                              *)
(***************************************************************************)
EXTENDS Integers, FiniteSets

CONSTANTS
    Clients,
    Period,     \* HEARTBEAT_MS in ticks
    Timeout,    \* HEARTBEAT_TIMEOUT_MS in ticks
    MaxDelay    \* the longest round trip of a ping of a responsive client

\* An answer that is still due when the timer fires is to a ping of k periods ago; the
\* timeout leaves room for it.  30 s and 65 s do for every delay below 60 s.
ASSUME HeartbeatConstants ==
    /\ Period \in Nat \ {0}
    /\ Timeout \in Nat \ {0}
    /\ MaxDelay \in Nat
    /\ \A k \in 0..MaxDelay : k * Period <= MaxDelay => (k + 1) * Period <= Timeout

VARIABLES
    phase,      \* ticks since the heartbeat timer last fired
    state,      \* "out", "in" (registered, open), "terminated"
    responsive, \* the browser still answers
    age,        \* now - lastSeen, for registered clients
    owed,       \* ages of the pings not answered yet
    quiet       \* history: ticks since the browser last sent anything

vars == <<phase, state, responsive, age, owed, quiet>>

\* Ages above this are all alike to the handler and to the properties.
Horizon == Timeout + Period + 1

TypeOK ==
    /\ phase \in 0..Period
    /\ state \in [Clients -> {"out", "in", "terminated"}]
    /\ responsive \in [Clients -> BOOLEAN]
    /\ age \in [Clients -> 0..Horizon]
    /\ owed \in [Clients -> SUBSET (0..MaxDelay)]
    /\ quiet \in [Clients -> 0..Horizon]

Init ==
    /\ phase = 0
    /\ state = [c \in Clients |-> "out"]
    /\ responsive = [c \in Clients |-> FALSE]
    /\ age = [c \in Clients |-> 0]
    /\ owed = [c \in Clients |-> {}]
    /\ quiet = [c \in Clients |-> 0]

\* state.lastSeen = Date.now(); the mutant leaves it at the epoch.
SeenAtEpoch(c) == age' = [age EXCEPT ![c] = Horizon + 1]
Seen(c)        == age' = [age EXCEPT ![c] = 0]

\* handleConnection
Join(c) ==
    /\ state[c] = "out"
    /\ state' = [state EXCEPT ![c] = "in"]
    /\ responsive' = [responsive EXCEPT ![c] = TRUE]
    /\ Seen(c)
    /\ quiet' = [quiet EXCEPT ![c] = 0]
    /\ UNCHANGED <<phase, owed>>

\* 'pong': the browser's network stack answers the oldest ping.
Pong(c) ==
    /\ state[c] = "in" /\ responsive[c]
    /\ \E a \in owed[c] :
          /\ \A b \in owed[c] : b <= a
          /\ owed' = [owed EXCEPT ![c] = @ \ {a}]
    /\ Seen(c)
    /\ quiet' = [quiet EXCEPT ![c] = 0]
    /\ UNCHANGED <<phase, state, responsive>>

\* onClientMessage: any valid message counts as a sign of life.
Message(c) ==
    /\ state[c] = "in" /\ responsive[c]
    /\ Seen(c)
    /\ quiet' = [quiet EXCEPT ![c] = 0]
    /\ UNCHANGED <<phase, state, responsive, owed>>

\* The browser is gone without a word.
FallSilent(c) ==
    /\ state[c] = "in" /\ responsive[c]
    /\ responsive' = [responsive EXCEPT ![c] = FALSE]
    /\ owed' = [owed EXCEPT ![c] = {}]
    /\ UNCHANGED <<phase, state, age, quiet>>

\* handleDisconnect after a close, by the browser or by terminate().
Leave(c) ==
    /\ state[c] # "out"
    /\ state' = [state EXCEPT ![c] = "out"]
    /\ responsive' = [responsive EXCEPT ![c] = FALSE]
    /\ age' = [age EXCEPT ![c] = 0]
    /\ owed' = [owed EXCEPT ![c] = {}]
    /\ quiet' = [quiet EXCEPT ![c] = 0]
    /\ UNCHANGED phase

\* Mutant: one missed ping is enough.
StaleAtOnce(c) == age[c] > Period
Stale(c)       == age[c] > Timeout

\* Mutant: the ping itself counts as a sign of life.
PingCounts ==
    /\ phase = Period
    /\ phase' = 0
    /\ state' = [c \in Clients |-> IF state[c] = "in" /\ Stale(c) THEN "terminated" ELSE state[c]]
    /\ owed' = [c \in Clients |-> IF state[c] = "in" /\ ~Stale(c) /\ responsive[c]
                                  THEN owed[c] \cup {0} ELSE owed[c]]
    /\ age' = [c \in Clients |-> 0]
    /\ UNCHANGED <<responsive, quiet>>

\* runHeartbeat: terminate the stale, ping the open.

RunHeartbeat ==
    /\ phase = Period
    /\ phase' = 0
    /\ state' = [c \in Clients |-> IF state[c] = "in" /\ Stale(c) THEN "terminated" ELSE state[c]]
    /\ owed' = [c \in Clients |-> IF state[c] = "in" /\ ~Stale(c) /\ responsive[c]
                                  THEN owed[c] \cup {0} ELSE owed[c]]
    /\ UNCHANGED <<responsive, age, quiet>>

Older(n) == IF n < Horizon THEN n + 1 ELSE n

\* Time does not pass the moment the timer is due, a responsive browser's answer
\* is due, or a terminated socket is to be dropped.
Tick ==
    /\ phase < Period
    /\ \A c \in Clients : MaxDelay \notin owed[c] /\ state[c] # "terminated"
    /\ phase' = phase + 1
    /\ age' = [c \in Clients |-> IF state[c] = "in" THEN Older(age[c]) ELSE 0]
    /\ quiet' = [c \in Clients |-> IF state[c] = "in" THEN Older(quiet[c]) ELSE 0]
    /\ owed' = [c \in Clients |-> {a + 1 : a \in owed[c]}]
    /\ UNCHANGED <<state, responsive>>

Next ==
    \/ \E c \in Clients : Join(c) \/ Pong(c) \/ Message(c) \/ FallSilent(c) \/ Leave(c)
    \/ RunHeartbeat
    \/ Tick

Spec == Init /\ [][Next]_vars

-----------------------------------------------------------------------------
\* Properties

\* A browser that answers every ping within MaxDelay is never terminated, at
\* whatever phase it joined and however the delays vary from ping to ping.
LivingNeverTerminated == \A c \in Clients : state[c] = "terminated" => ~responsive[c]

\* A socket that went silent stays registered, and keeps its slot of the address,
\* for at most the timeout and one period: the timer looks once per period, and
\* nothing the server does by itself counts as a sign of life.
DeadGoneInTime == \A c \in Clients : state[c] = "in" => quiet[c] <= Timeout + Period

\* lastSeen is the truth, and no older than the timer's last look allowed.
Watched ==
    \A c \in Clients : state[c] = "in" =>
        quiet[c] = age[c] /\ age[c] <= Timeout + phase

\* A responsive browser was heard of since the last ping, or owes the answer to a ping
\* sent within a period of its last sign of life.
Heard ==
    \A c \in Clients : state[c] = "in" /\ responsive[c] =>
        \/ age[c] <= phase
        \/ \E k \in 0..MaxDelay : /\ phase + k * Period \in owed[c]
                                 /\ age[c] <= phase + (k + 1) * Period

\* The inductive invariant: no moment of the timer's cycle, no join and no mix of late
\* answers breaks the bookkeeping the timeout is judged by (runHeartbeat).
IInv == TypeOK /\ Watched /\ Heard /\ LivingNeverTerminated
=============================================================================
