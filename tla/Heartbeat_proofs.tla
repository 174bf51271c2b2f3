--------------------------- MODULE Heartbeat_proofs ---------------------------
(***************************************************************************)
(* The heartbeat neither drops the living nor keeps the dead, for every    *)
(* period, timeout and delay that leave it the room HeartbeatConstants     *)
(* asks for, and for any number of clients.                                *)
(***************************************************************************)
EXTENDS Heartbeat, TLAPS

LEMMA Multiples ==
    ASSUME NEW k \in Nat, NEW p \in Nat \ {0}
    PROVE  /\ k * p \in Nat
           /\ k <= k * p
           /\ (k + 1) * p = k * p + p
           /\ (k + 2) * p = k * p + 2 * p
  OBVIOUS

\* The clients for which nothing changed keep what the invariant says of them.
Sound(c) ==
    /\ state[c] \in {"out", "in", "terminated"}
    /\ responsive[c] \in BOOLEAN
    /\ age[c] \in 0..Horizon
    /\ owed[c] \in SUBSET (0..MaxDelay)
    /\ quiet[c] \in 0..Horizon
    /\ state[c] = "in" => quiet[c] = age[c] /\ age[c] <= Timeout + phase
    /\ state[c] = "in" /\ responsive[c] =>
          \/ age[c] <= phase
          \/ \E k \in 0..MaxDelay : /\ phase + k * Period \in owed[c]
                                    /\ age[c] <= phase + (k + 1) * Period
    /\ state[c] = "terminated" => ~responsive[c]

Functions ==
    /\ phase \in 0..Period
    /\ state \in [Clients -> {"out", "in", "terminated"}]
    /\ responsive \in [Clients -> BOOLEAN]
    /\ age \in [Clients -> 0..Horizon]
    /\ owed \in [Clients -> SUBSET (0..MaxDelay)]
    /\ quiet \in [Clients -> 0..Horizon]

LEMMA PerClient == IInv <=> Functions /\ \A c \in Clients : Sound(c)
  BY DEF IInv, TypeOK, Watched, Heard, LivingNeverTerminated, Functions, Sound

LEMMA PerClientNext == Functions' /\ (\A c \in Clients : Sound(c)') => IInv'
  BY DEF IInv, TypeOK, Watched, Heard, LivingNeverTerminated, Functions, Sound

\* A step of one client leaves the others alone.
LEMMA OthersKeep ==
    ASSUME IInv, NEW c \in Clients, phase' = phase,
           \A d \in Clients \ {c} : /\ state'[d] = state[d] /\ responsive'[d] = responsive[d]
                                    /\ age'[d] = age[d] /\ owed'[d] = owed[d]
                                    /\ quiet'[d] = quiet[d],
           Functions', Sound(c)'
    PROVE  IInv'
  <1>1. \A d \in Clients \ {c} : Sound(d)'
    <2>. SUFFICES ASSUME NEW d \in Clients \ {c} PROVE Sound(d)'
      OBVIOUS
    <2>1. Sound(d)
      BY PerClient
    <2>. QED  BY <2>1 DEF Sound
  <1>. QED  BY <1>1, PerClientNext

LEMMA ClientKeeps ==
    ASSUME HeartbeatConstants, IInv, NEW c \in Clients,
           Join(c) \/ Pong(c) \/ Message(c) \/ FallSilent(c) \/ Leave(c)
    PROVE  IInv'
  <1>. USE DEF HeartbeatConstants
  <1>1. Functions /\ Sound(c)
    BY PerClient
  <1>2. 0 \in 0..Horizon /\ phase \in Nat /\ phase' = phase
    BY <1>1 DEF Horizon, Functions, Join, Pong, Message, FallSilent, Leave
  <1>3. /\ state' \in [Clients -> {"out", "in", "terminated"}]
        /\ responsive' \in [Clients -> BOOLEAN]
        /\ age' \in [Clients -> 0..Horizon]
        /\ quiet' \in [Clients -> 0..Horizon]
    BY <1>1, <1>2 DEF Functions, Join, Pong, Message, FallSilent, Leave, Seen
  <1>4. owed' \in [Clients -> SUBSET (0..MaxDelay)]
    BY <1>1 DEF Functions, Join, Pong, Message, FallSilent, Leave
  <1>5. \A d \in Clients \ {c} : /\ state'[d] = state[d] /\ responsive'[d] = responsive[d]
                                 /\ age'[d] = age[d] /\ owed'[d] = owed[d]
                                 /\ quiet'[d] = quiet[d]
    BY <1>1 DEF Functions, Join, Pong, Message, FallSilent, Leave, Seen
  <1>6. Functions'
    BY <1>1, <1>2, <1>3, <1>4 DEF Functions
  <1>7. Sound(c)'
    <2>1. /\ state'[c] \in {"out", "in", "terminated"} /\ responsive'[c] \in BOOLEAN
          /\ age'[c] \in 0..Horizon /\ owed'[c] \in SUBSET (0..MaxDelay)
          /\ quiet'[c] \in 0..Horizon
      BY <1>3, <1>4
    <2>2. CASE Join(c) \/ Pong(c) \/ Message(c)
      <3>1. age'[c] = 0 /\ quiet'[c] = 0 /\ state'[c] = "in"
        BY <1>1, <2>2 DEF Functions, Join, Pong, Message, Seen
      <3>. QED  BY <1>2, <2>1, <3>1 DEF Sound
    <2>3. CASE FallSilent(c)
      <3>1. /\ age'[c] = age[c] /\ quiet'[c] = quiet[c] /\ state'[c] = state[c]
            /\ ~responsive'[c]
        BY <1>1, <2>3 DEF Functions, FallSilent
      <3>. QED  BY <1>1, <1>2, <2>1, <3>1 DEF Sound
    <2>4. CASE Leave(c)
      <3>1. state'[c] = "out"
        BY <1>1, <2>4 DEF Functions, Leave
      <3>. QED  BY <2>1, <3>1 DEF Sound
    <2>. QED  BY <2>2, <2>3, <2>4
  <1>. QED  BY <1>2, <1>5, <1>6, <1>7, OthersKeep

\* When the timer fires, a responsive client is not stale, and owes an answer again.
LEMMA RunHeartbeatKeeps ==
    ASSUME HeartbeatConstants, IInv, RunHeartbeat
    PROVE  IInv'
  <1>. USE DEF HeartbeatConstants
  <1>1. Functions
    BY PerClient
  <1>2. phase = Period /\ phase' = 0 /\ Period \in Nat \ {0} /\ 0 \in 0..MaxDelay
    BY DEF RunHeartbeat
  <1>3. Functions'
    <2>1. state' \in [Clients -> {"out", "in", "terminated"}]
      BY <1>1 DEF RunHeartbeat, Functions
    <2>2. owed' \in [Clients -> SUBSET (0..MaxDelay)]
      BY <1>1, <1>2 DEF RunHeartbeat, Functions
    <2>3. phase' \in 0..Period
      BY <1>2
    <2>. QED  BY <1>1, <2>1, <2>2, <2>3 DEF RunHeartbeat, Functions
  <1>4. ASSUME NEW c \in Clients PROVE Sound(c)'
    <2>1. Sound(c)
      BY PerClient
    <2>2. /\ responsive'[c] = responsive[c] /\ age'[c] = age[c] /\ quiet'[c] = quiet[c]
          /\ state'[c] = IF state[c] = "in" /\ Stale(c) THEN "terminated" ELSE state[c]
          /\ owed'[c] = IF state[c] = "in" /\ ~Stale(c) /\ responsive[c]
                        THEN owed[c] \cup {0} ELSE owed[c]
      BY <1>1 DEF RunHeartbeat, Functions
    <2>3. age[c] \in Nat /\ owed[c] \in SUBSET (0..MaxDelay)
      BY <1>1 DEF Functions, Horizon
    <2>4. ASSUME state[c] = "in", responsive[c]
          PROVE  /\ age[c] <= Timeout
                 /\ \E k \in 0..MaxDelay : /\ 0 + k * Period \in owed[c] \cup {0}
                                           /\ age[c] <= 0 + (k + 1) * Period
      <3>1. CASE age[c] <= Period
        <4>1. 0 * Period = 0 /\ (0 + 1) * Period = Period
          BY <1>2
        <4>2. Period <= Timeout
          <5>1. 0 * Period <= MaxDelay => (0 + 1) * Period <= Timeout
            BY <1>2
          <5>. QED  BY <4>1, <5>1
        <4>. QED  BY <1>2, <2>3, <3>1, <4>1, <4>2
      <3>2. CASE ~(age[c] <= Period)
        <4>1. PICK k \in 0..MaxDelay : /\ Period + k * Period \in owed[c]
                                       /\ age[c] <= Period + (k + 1) * Period
          BY <1>2, <2>1, <2>4, <3>2 DEF Sound
        <4>2. /\ k * Period \in Nat
              /\ (k + 1) * Period = k * Period + Period
              /\ (k + 2) * Period = k * Period + 2 * Period
          BY <1>2, Multiples
        <4>3. k + 1 <= (k + 1) * Period
          BY <1>2, Multiples
        <4>4. (k + 1) * Period \in owed[c] /\ (k + 1) * Period <= MaxDelay
          BY <1>2, <2>3, <4>1, <4>2
        <4>5. k + 1 \in 0..MaxDelay
          BY <4>2, <4>3, <4>4
        <4>6. (k + 2) * Period <= Timeout
          <5>1. ((k + 1) + 1) * Period <= Timeout
            BY <4>4, <4>5
          <5>. QED  BY <5>1
        <4>7. age[c] <= (k + 2) * Period
          BY <1>2, <2>3, <4>1, <4>2
        <4>8. age[c] <= Timeout
          BY <1>2, <2>3, <4>2, <4>6, <4>7
        <4>9. /\ 0 + (k + 1) * Period \in owed[c] \cup {0}
              /\ age[c] <= 0 + ((k + 1) + 1) * Period
          BY <1>2, <4>2, <4>4, <4>7
        <4>. QED  BY <4>5, <4>8, <4>9
      <3>. QED  BY <3>1, <3>2
    <2>5. CASE state[c] = "in" /\ Stale(c)
      <3>1. ~responsive[c]
        BY <2>3, <2>4, <2>5 DEF Stale
      <3>2. state'[c] = "terminated"
        BY <2>2, <2>5
      <3>. QED  BY <1>3, <2>2, <3>1, <3>2 DEF Sound, Functions
    <2>6. CASE state[c] = "in" /\ ~Stale(c)
      <3>1. state'[c] = "in" /\ age[c] <= Timeout /\ quiet[c] = age[c]
        BY <2>1, <2>2, <2>3, <2>6 DEF Stale, Sound
      <3>2. responsive[c] =>
              \E k \in 0..MaxDelay : /\ 0 + k * Period \in owed'[c]
                                     /\ age[c] <= 0 + (k + 1) * Period
        BY <2>2, <2>4, <2>6
      <3>. QED  BY <1>2, <1>3, <2>2, <2>3, <3>1, <3>2 DEF Sound, Functions
    <2>7. CASE state[c] # "in"
      BY <1>3, <2>1, <2>2, <2>7 DEF Sound, Functions
    <2>. QED  BY <2>5, <2>6, <2>7
  <1>. QED  BY <1>3, <1>4, PerClientNext

\* A tick ages the timer, the clients and the pings alike.
LEMMA TickKeeps ==
    ASSUME HeartbeatConstants, IInv, Tick
    PROVE  IInv'
  <1>. USE DEF HeartbeatConstants
  <1>1. Functions
    BY PerClient
  <1>2. phase \in 0..Period /\ phase < Period /\ phase' = phase + 1
    BY <1>1 DEF Tick, Functions
  <1>3. ASSUME NEW n \in 0..Horizon
        PROVE  /\ Older(n) \in 0..Horizon
               /\ n <= Older(n) /\ Older(n) <= n + 1
    BY DEF Older, Horizon
  <1>4. Functions'
    <2>1. age' \in [Clients -> 0..Horizon] /\ quiet' \in [Clients -> 0..Horizon]
      <3>1. 0 \in 0..Horizon
        BY DEF Horizon
      <3>. QED  BY <1>1, <1>3, <3>1 DEF Tick, Functions
    <2>2. owed' \in [Clients -> SUBSET (0..MaxDelay)]
      BY <1>1 DEF Tick, Functions
    <2>3. phase' \in 0..Period
      BY <1>2
    <2>. QED  BY <1>1, <2>1, <2>2, <2>3 DEF Tick, Functions
  <1>5. ASSUME NEW c \in Clients PROVE Sound(c)'
    <2>1. Sound(c)
      BY PerClient
    <2>2. /\ responsive'[c] = responsive[c] /\ state'[c] = state[c]
          /\ age'[c] = IF state[c] = "in" THEN Older(age[c]) ELSE 0
          /\ quiet'[c] = IF state[c] = "in" THEN Older(quiet[c]) ELSE 0
          /\ owed'[c] = {a + 1 : a \in owed[c]}
      BY <1>1 DEF Tick, Functions
    <2>3. state[c] # "terminated"
      BY DEF Tick
    <2>4. CASE state[c] = "in"
      <3>1. /\ age[c] \in 0..Horizon /\ quiet[c] = age[c]
            /\ age'[c] <= age[c] + 1 /\ quiet'[c] = age'[c] /\ age'[c] \in 0..Horizon
        BY <1>1, <1>3, <2>1, <2>2, <2>4 DEF Sound, Functions
      <3>2. age'[c] <= Timeout + phase'
        BY <1>2, <2>1, <2>4, <3>1 DEF Sound, Horizon
      <3>3. ASSUME responsive[c], ~(age'[c] <= phase')
            PROVE  \E k \in 0..MaxDelay : /\ phase' + k * Period \in owed'[c]
                                          /\ age'[c] <= phase' + (k + 1) * Period
        <4>1. ~(age[c] <= phase)
          BY <1>2, <3>1, <3>3 DEF Horizon
        <4>2. PICK k \in 0..MaxDelay : /\ phase + k * Period \in owed[c]
                                       /\ age[c] <= phase + (k + 1) * Period
          BY <2>1, <2>4, <3>3, <4>1 DEF Sound
        <4>3. k * Period \in Nat /\ (k + 1) * Period \in Nat
          BY Multiples
        <4>4. (phase + k * Period) + 1 \in owed'[c]
          BY <2>2, <4>2
        <4>5. phase' + k * Period = (phase + k * Period) + 1
          BY <1>2, <4>3
        <4>6. age'[c] <= phase' + (k + 1) * Period
          BY <1>2, <3>1, <4>2, <4>3 DEF Horizon
        <4>. QED  BY <4>4, <4>5, <4>6
      <3>. QED  BY <1>4, <2>2, <2>4, <3>1, <3>2, <3>3 DEF Sound, Functions
    <2>5. CASE state[c] # "in"
      BY <1>4, <2>2, <2>3, <2>5 DEF Sound, Functions
    <2>. QED  BY <2>4, <2>5
  <1>. QED  BY <1>4, <1>5, PerClientNext

-----------------------------------------------------------------------------
\* The theorems

\* The inductive invariant, for every number of clients and every timing with room.
THEOREM Invariance == Spec => []IInv
  <1>. USE HeartbeatConstants
  <1>1. Init => IInv
    <2>. SUFFICES ASSUME Init PROVE IInv
      OBVIOUS
    <2>1. 0 \in 0..Horizon /\ 0 \in 0..Period
      BY DEF HeartbeatConstants, Horizon
    <2>. QED  BY <2>1 DEF Init, IInv, TypeOK, Watched, Heard, LivingNeverTerminated
  <1>2. IInv /\ [Next]_vars => IInv'
    <2>. SUFFICES ASSUME IInv, [Next]_vars PROVE IInv'
      OBVIOUS
    <2>1. CASE Next
      BY <2>1, ClientKeeps, RunHeartbeatKeeps, TickKeeps DEF Next
    <2>2. CASE UNCHANGED vars
      BY <2>2 DEF vars, IInv, TypeOK, Watched, Heard, LivingNeverTerminated
    <2>. QED  BY <2>1, <2>2
  <1>. QED  BY <1>1, <1>2, PTL DEF Spec

\* A browser that answers in time is never terminated (runHeartbeat).
THEOREM LivingKept == Spec => []LivingNeverTerminated
  <1>1. IInv => LivingNeverTerminated
    BY DEF IInv
  <1>. QED  BY <1>1, Invariance, PTL

\* A silent one is gone a timeout and a period after its last word at the latest.
THEOREM DeadDropped == Spec => []DeadGoneInTime
  <1>. USE HeartbeatConstants DEF HeartbeatConstants
  <1>1. IInv => DeadGoneInTime
    <2>. SUFFICES ASSUME IInv, NEW c \in Clients, state[c] = "in"
                  PROVE  quiet[c] <= Timeout + Period
      BY DEF DeadGoneInTime
    <2>1. phase \in 0..Period /\ age[c] \in 0..Horizon
      BY DEF IInv, TypeOK
    <2>2. quiet[c] = age[c] /\ age[c] <= Timeout + phase
      BY DEF IInv, Watched
    <2>. QED  BY <2>1, <2>2 DEF Horizon
  <1>. QED  BY <1>1, Invariance, PTL
=============================================================================
