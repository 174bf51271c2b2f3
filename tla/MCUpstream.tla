----------------------------- MODULE MCUpstream -----------------------------
(***************************************************************************)
(* Instances of UpstreamStream for TLC.  The streams and the callbacks are *)
(* not exchangeable here: liveness is checked, so no symmetry is declared. *)
(***************************************************************************)
EXTENDS UpstreamStream

CONSTANTS btc, eth, cb1, cb2
=============================================================================
