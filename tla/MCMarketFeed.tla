------------------------------ MODULE MCMarketFeed ------------------------------
(* The instance of MarketFeed for TLC. *)
EXTENDS MarketFeed

CONSTANTS a, b

\* One market after the other, or none.
Rotations == {{}, {a}, {b}}

=================================================================================
