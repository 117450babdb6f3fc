---------------------------- MODULE MCClobTransport ----------------------------
(* Instances of ClobTransport for TLC. *)
EXTENDS ClobTransport

CONSTANTS r, w, b

\* A thread that only reads, one that only writes, and one that does both.
Roles == [c \in Caller |-> CASE c = r -> {"get_order"}
                             [] c = w -> {"cancel_order", "post_order"}
                             [] OTHER -> {"post_order", "get_order"}]

\* The defaults of TransportPolicy.
PolicyAttempts == [m \in Method |-> IF m = "post_order" THEN 1 ELSE 2]

================================================================================
