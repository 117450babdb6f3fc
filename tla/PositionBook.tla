---------------------------- MODULE PositionBook ----------------------------
(***************************************************************************)
(* The position book (src/risk/position_state.py): confirmed inventory and *)
(* average cost of one token, booked from cumulative execution evidence,   *)
(* wallet floors and settlements, which come late, repeated and reordered. *)
(*                                                                         *)
(* Every public method holds the book's lock throughout and is one action. *)
(* Nothing under src/ but the tests calls these methods: their callers,    *)
(* like the venue and the wallet, are external and call them in any order. *)
(*                                                                         *)
(* Simplifications:                                                        *)
(*  - one token; sizes are lots, prices are multiples of a unit fine       *)
(*    enough for average costs to be whole numbers;                        *)
(*  - order affinities never conflict; marks, terminal order ids, the      *)
(*    settlement-pending mark and anomalies are left out: no accounting    *)
(*    reads them.                                                          *)
(***************************************************************************)
EXTENDS Integers, FiniteSetsExt

CONSTANTS
    BuyOrder, SellOrder,   \* order ids of the token by side
    Settlement,            \* settlement ids
    Price,                 \* order -> the prices its lots can fill at
    Payout,                \* settlement prices of one lot
    Size,                  \* order -> its size, in lots
    MaxApart               \* bound on lots that reach the wallet without an order or
                           \* that the book counts twice

Order == BuyOrder \cup SellOrder

ASSUME PositionSizesAssumption == Size \in [Order -> Nat \ {0}]
ASSUME PositionBoundsAssumption == MaxApart \in Nat
ASSUME PositionPricesAssumption == /\ Price \in [Order -> (SUBSET (Nat \ {0})) \ {{}}]
                                    /\ Payout \subseteq Nat
ASSUME PositionOrdersAssumption == BuyOrder \cap SellOrder = {}
ASSUME PositionFiniteAssumption == IsFiniteSet(Order) /\ IsFiniteSet(Settlement)

VARIABLES
    venue,      \* order -> the cumulative sizes and notionals it went through (external)
    wallet,     \* lots the wallet holds (external)
    inflow,     \* lots that arrived without an order (external)
    redeemed,   \* settlement id -> lots redeemed, 0 before (external)
    record,     \* the position record of the token
    exec,       \* order -> its booked CumulativeExecution
    settled,    \* settlement ids the book has applied
    forgotten,  \* order -> the size the book had booked when it pruned it (history)
    surplus,    \* lots added to the position a second time (history)
    shortage,   \* lots taken from the position a second time (history)
    blurred     \* an execution was booked without its exact price (history)

outside == <<venue, wallet, inflow, redeemed>>
counted == <<surplus, shortage>>
vars == <<venue, wallet, inflow, redeemed, record, exec, settled, forgotten, surplus, shortage,
          blurred>>

Unpriced == -1
Bound == 1      \* ExecutionPriceQuality.CONSERVATIVE_BOUND
Exact == 2      \* VENUE_AVERAGE and stronger

Larger(a, b) == IF a >= b THEN a ELSE b
Smaller(a, b) == IF a <= b THEN a ELSE b

Execution == [known : BOOLEAN, size : Nat, notional : Nat \cup {Unpriced},
              quality : {Bound, Exact}]
NoExecution == [known |-> FALSE, size |-> 0, notional |-> 0, quality |-> Bound]

Record == [known : BOOLEAN, quantity : Nat, priced : Nat, cost : Nat, proceeds : Int,
           pnl : Int, pnlComplete : BOOLEAN, closed : BOOLEAN]
NoRecord == [known |-> FALSE, quantity |-> 0, priced |-> 0, cost |-> 0, proceeds |-> 0,
             pnl |-> 0, pnlComplete |-> TRUE, closed |-> FALSE]

\* What the venue executed for an order so far.
Latest(o) == {e \in venue[o] : \A f \in venue[o] : f.size <= e.size}

\* All that happened so far is booked, perhaps but for the settlement at hand.
ToldOf(o) == Larger(exec[o].size, forgotten[o])
ExecutionsHeard == \A o \in Order : \E e \in Latest(o) : ToldOf(o) = e.size
SettlementsHeard(ids) == \A id \in ids : redeemed[id] > 0 => id \in settled
Heard == ExecutionsHeard /\ SettlementsHeard(Settlement)
HeardBut(id) == ExecutionsHeard /\ SettlementsHeard(Settlement \ {id})

Init == /\ venue = [o \in Order |-> {[size |-> 0, notional |-> 0]}]
        /\ wallet = 0 /\ inflow = 0
        /\ redeemed = [id \in Settlement |-> 0]
        /\ record = NoRecord
        /\ exec = [o \in Order |-> NoExecution]
        /\ forgotten = [o \in Order |-> 0]
        /\ settled = {} /\ surplus = 0 /\ shortage = 0 /\ blurred = FALSE

\* How far the book may get away from the wallet in a bounded instance.
Bounded == inflow + surplus' + shortage' <= MaxApart

-----------------------------------------------------------------------------
(* apply_cumulative_execution: what a report adds *)

BoundPrices(o) == {p \in Price[o] :
                       \A q \in Price[o] : IF o \in BuyOrder THEN q <= p ELSE p <= q}

\* A report of some state the order went through: exact, without a price, or with the
\* order's limit price as a conservative bound.  Nothing executed has no price.
Reports(o) == UNION {[size : {e.size}, notional : {Unpriced} \cup ({e.notional} \ {0}),
                      quality : {Exact}]
                     \cup [size : {e.size} \ {0},
                           notional : {e.size * p : p \in BoundPrices(o)},
                           quality : {Bound}] : e \in venue[o]}

SameSize(o, e) == exec[o].known /\ e.size = exec[o].size

\* A regressing size, or weaker price evidence for the same size.
Ignored(o, e) == /\ exec[o].known
                 /\ \/ e.size < exec[o].size
                    \/ SameSize(o, e) /\ e.quality < exec[o].quality
                    \/ SameSize(o, e) /\ e.notional = Unpriced /\ exec[o].notional # Unpriced

\* Mutant: every report counts as an increment.
WholeSize(o, e) == e.size

AddedSize(o, e) == Larger(0, e.size - exec[o].size)

\* Mutant: the latest average times the added lots.
AveragedNotional(o, e) == IF e.size = 0 THEN 0 ELSE (e.notional * AddedSize(o, e)) \div e.size

\* The notional of the increment; NoExecution stands for the zero before a first report.
AddedNotional(o, e) == e.notional - exec[o].notional
AddedPriced(o, e) == e.notional # Unpriced /\ exec[o].notional # Unpriced

\* A correction of the notional of a size already booked with a price.
Corrects(o, e) == SameSize(o, e) /\ AddedPriced(o, e)

\* A first price for a size already booked without one.
Hydrates(o, e) == SameSize(o, e) /\ e.notional # Unpriced /\ exec[o].notional = Unpriced

\* The average cost of the lots removed from a completely priced position.
RemovedCost(lots) == (record.cost * lots) \div record.quantity

CompleteBasis == record.priced >= record.quantity
HasAverage == record.quantity > 0 /\ CompleteBasis

\* What the booked BUY evidence comes to; whether lots have left the position.
BoughtFor == SumFunction([o \in BuyOrder |-> Larger(0, exec[o].notional)])
LotsGone == settled # {} \/ \E o \in SellOrder : exec[o].size > 0

\* _ensure_position.
Ensured == [record EXCEPT !.known = TRUE]

-----------------------------------------------------------------------------
(* _apply_buy_cumulative_delta and _apply_sell_cumulative_delta *)

Bought(o, e) ==
    LET lots == AddedSize(o, e)
        priced == lots > 0 /\ AddedPriced(o, e) /\ AddedNotional(o, e) >= 0
    IN [Ensured EXCEPT !.quantity = @ + lots,
                       !.priced = IF priced THEN @ + lots ELSE @,
                       !.cost = IF priced THEN @ + AddedNotional(o, e) ELSE @]

\* Equal size, another price: only while the position still holds that many priced lots.
Corrected(o, e) ==
    IF exec[o].size <= record.priced
    THEN [Ensured EXCEPT !.cost = Larger(0, @ + AddedNotional(o, e))]
    ELSE Ensured

\* Mutant: all lots of the order, whether the position still holds them or not.
LotsOfOrder(o) == exec[o].size

LotsToPrice(o) == Smaller(exec[o].size, record.quantity - record.priced)

\* Equal size, first price: unpriced lots get the order's average.
Hydrated(o, e) ==
    LET lots == LotsToPrice(o)
    IN IF lots > 0
       THEN [Ensured EXCEPT !.priced = @ + lots, !.cost = @ + (lots * e.notional) \div e.size]
       ELSE Ensured

BuyBooked(o, e) == IF Corrects(o, e) THEN Corrected(o, e)
                   ELSE IF Hydrates(o, e) THEN Hydrated(o, e) ELSE Bought(o, e)

\* A flat position keeps no cost.
Flattened(r) == IF r.quantity = 0
                THEN [r EXCEPT !.priced = 0, !.cost = 0, !.closed = TRUE]
                ELSE r

\* Lots sold at the average cost; if some have no cost, the basis is given up.
Reduced(r, lots, proceeds, priced) ==
    Flattened([r EXCEPT
        !.quantity = @ - lots,
        !.priced = IF HasAverage THEN Larger(0, @ - lots) ELSE 0,
        !.cost = IF HasAverage THEN Larger(0, @ - RemovedCost(lots)) ELSE 0,
        !.proceeds = IF priced THEN @ + proceeds ELSE @,
        !.pnl = IF HasAverage /\ priced THEN @ + proceeds - RemovedCost(lots) ELSE @,
        !.pnlComplete = @ /\ HasAverage /\ priced])

\* Equal size, another price: the proceeds change, and the result if it is complete.
SellCorrected(o, e) ==
    [Ensured EXCEPT !.proceeds = @ + AddedNotional(o, e),
                    !.pnl = IF record.pnlComplete THEN @ + AddedNotional(o, e) ELSE @]

SellBooked(o, e) ==
    IF AddedSize(o, e) > 0
    THEN Reduced(Ensured, AddedSize(o, e), AddedNotional(o, e), AddedPriced(o, e))
    ELSE IF Corrects(o, e) THEN SellCorrected(o, e) ELSE Ensured

\* Positive inventory is not closed.
Reopened(r) == IF r.quantity > 0 THEN [r EXCEPT !.closed = FALSE] ELSE r

Booked(o, e) == Reopened(IF o \in BuyOrder THEN BuyBooked(o, e) ELSE SellBooked(o, e))

Estimated(o, e) == /\ e.notional # Unpriced
                   /\ [size |-> e.size, notional |-> e.notional] \notin venue[o]

\* An increment between a priced and an unpriced size, an estimate mixed with
\* increments, or a new price for lots of which some are gone.
Blurs(o, e) == \/ exec[o].known /\ e.size > exec[o].size /\ ~AddedPriced(o, e)
               \/ Estimated(o, e) /\ (e.size < Size[o] \/ exec[o].known)
               \/ Corrects(o, e) /\ AddedNotional(o, e) # 0 /\ LotsGone

\* A SELL consumes only confirmed inventory.
Confirmed(o, e) == o \in SellOrder => AddedSize(o, e) <= record.quantity

ApplyIgnored(o, e) == /\ Ignored(o, e)
                      /\ record' = Ensured
                      /\ UNCHANGED <<exec, counted, blurred>>

\* A SELL of more than the book confirms raises; only the row it ensured remains.
ApplyRefused(o, e) == /\ ~Ignored(o, e)
                      /\ ~Confirmed(o, e)
                      /\ record' = Ensured
                      /\ UNCHANGED <<exec, counted, blurred>>

\* Lots of a report that the book had booked before it pruned the order.
BookedAgain(o, e) == Larger(0, Smaller(e.size, forgotten[o]) - exec[o].size)

ApplyBooked(o, e) ==
    /\ ~Ignored(o, e) /\ Confirmed(o, e)
    /\ record' = Booked(o, e)
    /\ exec' = [exec EXCEPT ![o] = [known |-> TRUE, size |-> e.size,
                                    notional |-> e.notional, quality |-> e.quality]]
    /\ surplus' = IF o \in BuyOrder THEN surplus + BookedAgain(o, e) ELSE surplus
    /\ shortage' = IF o \in SellOrder THEN shortage + BookedAgain(o, e) ELSE shortage
    /\ blurred' = (blurred \/ Blurs(o, e))
    /\ Bounded

ApplyCumulative(o) ==
    /\ \E e \in Reports(o) : ApplyIgnored(o, e) \/ ApplyRefused(o, e) \/ ApplyBooked(o, e)
    /\ UNCHANGED <<outside, settled, forgotten>>

-----------------------------------------------------------------------------
(* Wallet floor, settlement, pruning *)

\* A wallet balance raises the quantity to it and prices nothing.  Evidence that comes
\* after it adds the same lots again.
ObserveFloor ==
    /\ record' = Reopened([Ensured EXCEPT !.quantity = Larger(@, wallet)])
    /\ surplus' = IF Heard THEN surplus ELSE surplus + Larger(0, wallet - record.quantity)
    /\ UNCHANGED <<outside, exec, settled, forgotten, shortage, blurred>>
    /\ Bounded

\* The redeemed lots, or no quantity at all after the redemption of the whole wallet.
SettledLots(id) == {redeemed[id]} \cup (IF wallet = 0 THEN {record.quantity} ELSE {})

\* A settlement of all lots stands for more, or fewer, than were redeemed while the book
\* has not heard of everything.
Miscounted(id, lots) ==
    /\ surplus' = IF HeardBut(id) THEN surplus ELSE surplus + Larger(0, redeemed[id] - lots)
    /\ shortage' = IF HeardBut(id) THEN shortage ELSE shortage + Larger(0, lots - redeemed[id])
    /\ Bounded

Settle(id, payout) ==
    /\ record.known /\ redeemed[id] > 0
    /\ \/ id \in settled /\ UNCHANGED <<record, settled, counted>>
       \/ /\ id \notin settled
          /\ \E lots \in SettledLots(id) :
                 /\ lots <= record.quantity /\ record' = Reduced(record, lots, lots * payout, TRUE)
                 /\ Miscounted(id, lots)
          /\ settled' = settled \cup {id}
    /\ UNCHANGED <<outside, exec, forgotten, blurred>>

\* A closed row goes with the executions of its orders.
PruneClosed == /\ record.known /\ record.quantity = 0 /\ record.closed
               /\ record' = NoRecord
               /\ exec' = [o \in Order |-> NoExecution]
               /\ forgotten' = [o \in Order |-> ToldOf(o)]
               /\ blurred' = FALSE
               /\ UNCHANGED <<outside, settled, counted>>

-----------------------------------------------------------------------------
(* The venue and the wallet (external) *)

Internal == <<record, exec, settled, forgotten, counted, blurred>>

VenueFill(o) ==
    /\ \E e \in Latest(o), p \in Price[o] : \E lots \in 1..(Size[o] - e.size) :
           /\ o \in SellOrder => lots <= wallet
           /\ venue' = [venue EXCEPT ![o] = @ \cup {[size |-> e.size + lots,
                                                     notional |-> e.notional + lots * p]}]
           /\ wallet' = IF o \in BuyOrder THEN wallet + lots ELSE wallet - lots
    /\ UNCHANGED <<inflow, redeemed, Internal>>

Inflow == /\ inflow + surplus + shortage < MaxApart
          /\ inflow' = inflow + 1 /\ wallet' = wallet + 1
          /\ UNCHANGED <<venue, redeemed, Internal>>

Redeem(id) == /\ redeemed[id] = 0 /\ wallet > 0
              /\ redeemed' = [redeemed EXCEPT ![id] = wallet]
              /\ wallet' = 0
              /\ UNCHANGED <<venue, inflow, Internal>>

-----------------------------------------------------------------------------
Next == \/ \E o \in Order : VenueFill(o) \/ ApplyCumulative(o)
        \/ \E id \in Settlement : Redeem(id) \/ \E payout \in Payout : Settle(id, payout)
        \/ Inflow \/ ObserveFloor \/ PruneClosed

Spec == Init /\ [][Next]_vars

-----------------------------------------------------------------------------
(* Properties *)

\* Every variable keeps its type: in particular no amount becomes negative.
TypeOK == /\ venue \in [Order -> SUBSET [size : Nat, notional : Nat]]
          /\ wallet \in Nat /\ inflow \in Nat
          /\ redeemed \in [Settlement -> Nat]
          /\ record \in Record
          /\ exec \in [Order -> Execution]
          /\ settled \subseteq Settlement /\ forgotten \in [Order -> Nat]
          /\ surplus \in Nat /\ shortage \in Nat
          /\ blurred \in BOOLEAN

\* Once everything that happened is booked, in whatever order and however often it was
\* reported, the book holds what the wallet holds, up to inflow it was not told of; it is
\* off by no more than the lots that an early floor, an early settlement of everything
\* or evidence repeated after its order was pruned made it count twice.
InventoryTruth ==
    Heard => record.quantity \in (wallet - inflow - shortage)..(wallet + surplus)

\* No position values more lots than it holds, and a flat one keeps no cost: a snapshot
\* of the record never raises.
WithinInventory == /\ record.priced <= record.quantity
                   /\ record.quantity = 0 => record.cost = 0

Conserved == record.cost + record.proceeds - record.pnl = BoughtFor

\* What the orders paid is in the cost of the lots held or in the result of those gone:
\* no money is lost or invented while results count as complete.
MoneyConserved == ~blurred /\ record.pnlComplete => Conserved

-----------------------------------------------------------------------------
(* The inductive invariants behind the theorems of PositionBookProofs *)

\* The evidence: an order has a latest state and more lots never cost less; nothing is
\* booked of an order the book does not know, nothing settled that was not redeemed.
EvidenceInv ==
    /\ \A o \in Order :
          /\ Latest(o) # {}
          /\ \A e, f \in venue[o] : e.size <= f.size => e.notional <= f.notional
          /\ \A e \in venue[o] : e.size <= Size[o]
          /\ ~exec[o].known => exec[o] = NoExecution
    /\ \A id \in settled : redeemed[id] > 0

\* Lots that the book has not heard of: they moved the wallet and not the position.
VenueSize(o) == (CHOOSE e \in Latest(o) : TRUE).size
UnheardLots == [o \in Order |-> IF o \in BuyOrder THEN VenueSize(o) - ToldOf(o)
                                ELSE ToldOf(o) - VenueSize(o)]
UnheardRedeemed == [id \in Settlement |-> IF id \in settled THEN 0 ELSE redeemed[id]]

\* Wallet and position differ by what the book has not heard of, some inflow, and what
\* it counted twice.
BalanceInv ==
    wallet - record.quantity - SumFunction(UnheardLots) + SumFunction(UnheardRedeemed)
        \in (-surplus)..(inflow + shortage)

\* A price that is no estimate is one of the venue's; an estimate is for the full size.
PriceInv ==
    \A o \in Order : exec[o].known /\ ~blurred =>
        \/ exec[o].notional = Unpriced
        \/ [size |-> exec[o].size, notional |-> exec[o].notional] \in venue[o]
        \/ exec[o].size = Size[o]

PricedLots == SumFunction([o \in BuyOrder |->
                  IF exec[o].notional = Unpriced THEN 0 ELSE exec[o].size])
UnpricedLots == SumFunction([o \in BuyOrder |->
                    IF exec[o].notional = Unpriced THEN exec[o].size ELSE 0])

\* Lots that still wait for a price are in the position, and until lots have left it
\* all priced lots are, at what they cost.
MoneyInv ==
    ~blurred /\ record.pnlComplete =>
        /\ Conserved
        /\ record.quantity - record.priced >= UnpricedLots
        /\ ~LotsGone => /\ record.priced = PricedLots
                        /\ record.proceeds = 0 /\ record.pnl = 0

=============================================================================
