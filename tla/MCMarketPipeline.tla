---------------------------- MODULE MCMarketPipeline ----------------------------
(* The instance of MarketPipeline for TLC. *)
EXTENDS MarketPipeline

CONSTANTS m1, m2

\* One market stays or comes and goes, the other one joins it.
Rotations == {{}, {m1}, {m1, m2}}

=================================================================================
