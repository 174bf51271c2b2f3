----------------------------- MODULE MCGateway -----------------------------
(***************************************************************************)
(* Instances of Gateway for TLC.  No symmetry is declared: liveness is     *)
(* checked.                                                                *)
(***************************************************************************)
EXTENDS Gateway

CONSTANTS c1, c2, c3, home, office, btcStream

MCIpOf == [c \in Clients |-> IF c = c3 THEN office ELSE home]

\* "BTC" and "btc" stand for two spellings of one channel; "XXX" is a symbol without an
\* active pair.
MCStreamOf == [ch \in ActiveChannels |-> btcStream]

MCCallbacks == Clients \X ActiveChannels
=============================================================================
