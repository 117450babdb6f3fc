------------------------------- MODULE Submission -------------------------------
(***************************************************************************)
(* What admission, engine and transport together promise of the orders     *)
(* they send, whoever runs, is cancelled or fails: every order uses a      *)
(* permit of its own that was never used before, a candidate is posted     *)
(* once, and the orders that are or may come to be at the venue are one a  *)
(* token and within the limit on unresolved executions. No lock, thread,   *)
(* ledger or lifecycle row is left. PermitLedger implements this.          *)
(***************************************************************************)
EXTENDS Naturals, FiniteSets

CONSTANTS Candidate, TokenOf, MaxUnresolved,
          Use               \* what may be done with a permit, by whom and when

VARIABLES
    uses,       \* uses of permits so far, for an order or to make them void
    cleared,    \* candidates whose permit was used for an order not yet sent
    wire        \* candidate -> its order on the way to and at the venue

vars == <<uses, cleared, wire>>

Init == /\ uses = {}
        /\ cleared = {}
        /\ wire = [c \in Candidate |-> "none"]

Exposing == {c \in Candidate : wire[c] \in {"out", "live"}}

\* A use of a permit that was not used before.
Spend(u) == /\ uses' = uses \cup {u}
            /\ \A v \in uses : v.permit # u.permit

\* A permit that nobody needs any more is used up.
Void == /\ uses' # uses
        /\ UNCHANGED <<cleared, wire>>
        /\ \E u \in Use : u.as = "retired" /\ Spend(u)

Clear(c) == /\ c \notin cleared
            /\ wire[c] = "none"
            /\ cleared' = cleared \cup {c}
            /\ \E u \in Use : u.as = "post" /\ u.permit.cand = c /\ Spend(u)
            /\ UNCHANGED wire

Post(c) == /\ c \in cleared
           /\ wire[c] = "none"
           /\ \A d \in Exposing : TokenOf[d] # TokenOf[c]
           /\ Cardinality(Exposing) < MaxUnresolved
           /\ wire' = [wire EXCEPT ![c] = "out"]
           /\ cleared' = cleared \ {c}
           /\ UNCHANGED uses

Accept(c) == /\ wire[c] = "out"
             /\ wire' = [wire EXCEPT ![c] = "live"]
             /\ UNCHANGED <<uses, cleared>>

End(c) == /\ wire[c] \in {"out", "live"}
          /\ wire' = [wire EXCEPT ![c] = "gone"]
          /\ UNCHANGED <<uses, cleared>>

Next == \/ \E c \in Candidate : Clear(c) \/ Post(c) \/ Accept(c) \/ End(c)
        \/ Void

Spec == Init /\ [][Next]_vars

=================================================================================
