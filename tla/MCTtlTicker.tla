---------------------------- MODULE MCTtlTicker -----------------------------
(* Two tokens, both expired before the run's clock ends, and ticks up to two *)
(* seconds late.                                                             *)
EXTENDS TtlTicker
=============================================================================
