--------------------------- MODULE MCPositionBook ---------------------------
(* Values for PositionBook's constants; the .cfg files choose the instance. *)
EXTENDS PositionBook, TLC

CONSTANT LargeOrder

\* Prices divisible by the quantities that an average cost is taken over; the one order
\* of two lots can fill them at two prices.
Prices == [o \in Order |-> IF o = LargeOrder THEN {144, 432}
                           ELSE IF o \in SellOrder THEN {432} ELSE {144}]
Payouts == {144}

\* One order fills in two steps, the others in one.
Sizes == [o \in Order |-> IF o = LargeOrder THEN 2 ELSE 1]
=============================================================================
