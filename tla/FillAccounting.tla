--------------------------- MODULE FillAccounting ---------------------------
(***************************************************************************)
(* The exact-order fill ledger (src/execution/fill_accounting.py): one row *)
(* per order, fed by order status, trade history and wallet balances that  *)
(* arrive late, repeated, partial and out of order.                        *)
(*                                                                         *)
(* Every section under "with self._gate" is one action.  An observation is *)
(* decoded between two such sections, so other threads may write the row,  *)
(* or prune it, before the observation is applied.                         *)
(*                                                                         *)
(* Simplifications:                                                        *)
(*  - sizes and prices are small integers, an average price is the pair    *)
(*    (covered, notional) of the size it covers and that size's cost;      *)
(*  - all orders buy one token, so the wallet holds what they matched and  *)
(*    what else came in (transfers, manual orders);                        *)
(*  - one lifecycle per order (registering under another one is refused);  *)
(*  - sources, reasons, timestamps and partial-coverage remarks are left   *)
(*    out: nothing reads them back.                                        *)
(***************************************************************************)
EXTENDS Integers, Sequences, FiniteSetsExt

CONSTANTS
    Order,         \* order ids
    Poller,        \* threads that feed it the venue's responses
    Watcher,       \* threads that feed it wallet balances; a thread may do both
    Alias,         \* response fields that may list executions ("fills", "trades", ...)
    Requested,     \* requested size of every order, in lots
    MaxPrice,      \* bound on prices
    MaxSeen,       \* bound on the observations of one row
    MaxInflow,     \* bound on what reaches the wallet from elsewhere, in lots
    NativeIds,     \* the venue names every execution it reports
    RepeatedRows   \* a response may list the same execution twice

ASSUME FillSizesAssumption == {Requested, MaxPrice, MaxSeen} \subseteq Nat \ {0}
ASSUME FillOrdersAssumption == Order # {} /\ IsFiniteSet(Order)
ASSUME FillInflowAssumption == MaxInflow \in Nat
ASSUME FillSwitchAssumption == NativeIds \in BOOLEAN /\ RepeatedRows \in BOOLEAN

VARIABLES
    exec,       \* order -> what the venue executed, in order (external)
    inflow,     \* tokens the wallet received from elsewhere (external)
    open,       \* orders that were submitted
    baseline,   \* order -> wallet balance captured before its submission
    ledger,     \* order -> its row
    thread,     \* thread -> the observation it is in the middle of
    overtaken   \* threads holding a row that was written again since they read it (history)

vars == <<exec, inflow, open, baseline, ledger, thread, overtaken>>

Thread == Poller \cup Watcher
NoBaseline == -1

Sizes(o) == [k \in DOMAIN exec[o] |-> exec[o][k].size]
Costs(o) == [k \in DOMAIN exec[o] |-> exec[o][k].size * exec[o][k].price]
Executed(o, ks) == SumFunctionOnSet(Sizes(o), ks)
Cost(o, ks) == SumFunctionOnSet(Costs(o), ks)
Matched(o) == Executed(o, DOMAIN exec[o])
Wallet == inflow + SumFunction([o \in Order |-> Matched(o)])

\* Nothing exceeds what the wallet can receive.
Quantity == 0..(MaxInflow + Requested * Cardinality(Order))

\* One reported execution of an order: the evidence id and the facts it carries.
FillId == [alias : Alias \cup {"native"}, at : 0..Requested, k : 1..Requested]
Fill == [id : FillId, size : 1..Requested, price : 1..MaxPrice]

\* What a payload says once decoded; as a value it is also its own evidence id.
Observation == [source : {"venue", "wallet"}, size : Quantity,
                fills : SUBSET Fill, covered : Quantity, notional : Nat]

Row == [registered : BOOLEAN, observed : Quantity, confirmed : Quantity,
        covered : Quantity, notional : Nat, fills : SUBSET Fill,
        seen : SUBSET Observation, resolved : BOOLEAN,
        anomalies : SUBSET {"exceedsRequest", "walletOverfill", "noBaseline"}]
NoRow == [registered |-> FALSE, observed |-> 0, confirmed |-> 0, covered |-> 0,
          notional |-> 0, fills |-> {}, seen |-> {}, resolved |-> FALSE, anomalies |-> {}]
FreshRow == [NoRow EXCEPT !.registered = TRUE]

Nothing == [source |-> "venue", size |-> 0, fills |-> {}, covered |-> 0, notional |-> 0]
ThreadState == [pc : {"idle", "decoded", "applied"}, o : Order,
                seen : Observation, row : Row]
Idle == [pc |-> "idle", o |-> CHOOSE o \in Order : TRUE, seen |-> Nothing, row |-> NoRow]

-----------------------------------------------------------------------------
(* Decoding responses *)

\* The executions a response lists: any of them, in any order.
Listings(o) == {s \in UNION {[1..m -> DOMAIN exec[o]] : m \in 0..Requested} :
                    RepeatedRows \/ \A i, j \in DOMAIN s : s[i] = s[j] => i = j}

RowTotal(o, s) == SumFunction([i \in DOMAIN s |-> exec[o][s[i]].size])
RowCost(o, s) == SumFunction([i \in DOMAIN s |-> exec[o][s[i]].size * exec[o][s[i]].price])

\* Mutant: a native id is only stable under the response field that carried it.
RowIdByAlias(alias, i, k) == [alias |-> alias, at |-> 0, k |-> k]

\* _row_evidence_id: the venue's id, else a fingerprint of field, index and content.
RowEvidenceId(alias, i, k) == IF NativeIds THEN [alias |-> "native", at |-> 0, k |-> k]
                              ELSE [alias |-> alias, at |-> i, k |-> k]

Fills(o, alias, s) == {[id |-> RowEvidenceId(alias, i, s[i]), size |-> exec[o][s[i]].size,
                        price |-> exec[o][s[i]].price] : i \in DOMAIN s}

\* A decoded response of the submission, status or trade endpoint: perhaps a
\* cumulative size and average price of the first n executions, perhaps a listing,
\* whose total stands in for a missing cumulative size and average.
Payload(o, n, priced, alias, s) ==
    [source |-> "venue",
     size |-> IF n > 0 THEN Executed(o, 1..n) ELSE RowTotal(o, s),
     fills |-> Fills(o, alias, s),
     covered |-> IF priced /\ n > 0 THEN Executed(o, 1..n) ELSE RowTotal(o, s),
     notional |-> IF priced /\ n > 0 THEN Cost(o, 1..n) ELSE RowCost(o, s)]

Payloads(o) == {Payload(o, n, priced, alias, s) :
    n \in 0..Len(exec[o]), priced \in BOOLEAN, alias \in Alias, s \in Listings(o)}

\* wallet_delta_from_baseline: never negative, never cut to the requested size.
WalletDelta(o) == IF Wallet > baseline[o] THEN Wallet - baseline[o] ELSE 0

WalletReading(o) == [Nothing EXCEPT !.source = "wallet", !.size = WalletDelta(o)]

-----------------------------------------------------------------------------
(* Applying an observation *)

Known(r) == {f.id : f \in r.fills}
Total(fills) == SumFunction([f \in fills |-> f.size])
TotalCost(fills) == SumFunction([f \in fills |-> f.size * f.price])

\* Mutants: quantities add up; a fill above the request is cut down to it.
AddedUp(a, b) == a + b
Capped(a, b) == IF a >= b THEN a ELSE IF b > Requested THEN Requested ELSE b

Larger(a, b) == IF a >= b THEN a ELSE b

\* Mutants: a payload is known by its size; the price of the fills stands for the whole.
SeenSize(r, ob) == \E s \in r.seen : s.source = ob.source /\ s.size = ob.size
WholePrice(r, ob, fills) == IF fills # {} THEN <<Larger(ob.size, Total(fills)), TotalCost(fills)>>
                            ELSE <<r.covered, r.notional>>

Seen(r, ob) == ob \in r.seen
Merged(r, ob) == r.fills \cup {f \in ob.fills : f.id \notin Known(r)}

\* _choose_price_evidence: individual fills if they cover what the row's price
\* covers, else the payload's own average if it does, else the price stays.
ChoosePrice(r, ob, fills) ==
    CASE fills # {} /\ Total(fills) >= r.covered -> <<Total(fills), TotalCost(fills)>>
      [] ~(fills # {} /\ Total(fills) >= r.covered)
         /\ ob.notional > 0 /\ ob.covered >= r.covered -> <<ob.covered, ob.notional>>
      [] OTHER -> <<r.covered, r.notional>>

\* The row after an observation whose evidence id is new.
Updated(r, ob) ==
    LET fills == Merged(r, ob)
        price == ChoosePrice(r, ob, fills)
        confirmed == Larger(Larger(r.confirmed, ob.size), Total(fills))
    IN [r EXCEPT !.observed = Larger(Larger(@, ob.size), Total(fills)),
                 !.confirmed = confirmed,
                 !.covered = price[1], !.notional = price[2],
                 !.fills = fills, !.seen = @ \cup {ob},
                 !.anomalies = IF confirmed > Requested THEN @ \cup {"exceedsRequest"} ELSE @]

Flagged(r) == [r EXCEPT !.anomalies = @ \cup {"walletOverfill"}]

-----------------------------------------------------------------------------
Init == /\ exec = [o \in Order |-> <<>>]
        /\ inflow = 0
        /\ open = {}
        /\ baseline = [o \in Order |-> NoBaseline]
        /\ ledger = [o \in Order |-> NoRow]
        /\ thread = [t \in Thread |-> Idle]
        /\ overtaken = {}

\* The threads that will store a row of the order which they read earlier.
Holders(o) == {t \in Thread : thread[t].pc = "applied" /\ thread[t].o = o}

\* The wallet baseline is captured, or cannot be read, before the order leaves.
Submit(o) == /\ o \notin open
             /\ open' = open \cup {o}
             /\ \E b \in {Wallet, NoBaseline} : baseline' = [baseline EXCEPT ![o] = b]
             /\ UNCHANGED <<exec, inflow, ledger, thread, overtaken>>

VenueMatch(o) == /\ o \in open
                 /\ \E n \in 1..(Requested - Matched(o)), p \in 1..MaxPrice :
                        exec' = [exec EXCEPT ![o] = Append(@, [size |-> n, price |-> p])]
                 /\ UNCHANGED <<inflow, open, baseline, ledger, thread, overtaken>>

Inflow == /\ inflow < MaxInflow
          /\ inflow' = inflow + 1
          /\ UNCHANGED <<exec, open, baseline, ledger, thread, overtaken>>

\* register_order keeps an existing row.
RegisterOrder(o) == /\ o \in open /\ ~ledger[o].registered
                    /\ ledger' = [ledger EXCEPT ![o] = FreshRow]
                    /\ overtaken' = overtaken \cup Holders(o)
                    /\ UNCHANGED <<exec, inflow, open, baseline, thread>>

\* The first gated section: the row exists, the payload is decoded against it.
MayObserve(t, o) == /\ thread[t].pc = "idle" /\ ledger[o].registered
                    /\ Cardinality(ledger[o].seen) < MaxSeen
Decode(t, o, ob) == /\ thread' = [thread EXCEPT ![t] =
                                    [Idle EXCEPT !.pc = "decoded", !.o = o, !.seen = ob]]
                    /\ UNCHANGED <<exec, inflow, open, baseline, ledger, overtaken>>

ObserveOrderPayload(t, o) == /\ t \in Poller /\ MayObserve(t, o)
                             /\ \E ob \in Payloads(o) : Decode(t, o, ob)
ObserveWallet(t, o) == /\ t \in Watcher /\ MayObserve(t, o) /\ baseline[o] # NoBaseline
                       /\ Decode(t, o, WalletReading(o))

\* A balance without a baseline is recorded as unattributable.
ObserveWalletUnattributed(o) ==
    /\ ledger[o].registered /\ baseline[o] = NoBaseline
    /\ ledger' = [ledger EXCEPT ![o].anomalies = @ \cup {"noBaseline"}]
    /\ overtaken' = overtaken \cup Holders(o)
    /\ UNCHANGED <<exec, inflow, open, baseline, thread>>

\* apply_observation: a row pruned meanwhile raises, a repeated evidence id is
\* ignored, everything else is merged into the row as it is now.
ApplyObservation(t) ==
    LET o == thread[t].o
        ob == thread[t].seen
        row == IF Seen(ledger[o], ob) THEN ledger[o] ELSE Updated(ledger[o], ob)
        overfill == ob.source = "wallet" /\ ob.size > Requested
    IN /\ thread[t].pc = "decoded"
       /\ IF ledger[o].registered
          THEN /\ ledger' = [ledger EXCEPT ![o] = row]
               /\ overtaken' = IF row = ledger[o] THEN overtaken
                               ELSE overtaken \cup Holders(o)
               /\ thread' = [thread EXCEPT ![t] = IF overfill
                                THEN [thread[t] EXCEPT !.pc = "applied", !.row = row] ELSE Idle]
          ELSE UNCHANGED <<ledger, overtaken>> /\ thread' = [thread EXCEPT ![t] = Idle]
       /\ UNCHANGED <<exec, inflow, open, baseline>>

\* The third gated section of observe_wallet_balance stores the row it got back
\* from the second one, flagged.
FlagOverfill(t) ==
    /\ thread[t].pc = "applied"
    /\ ledger' = [ledger EXCEPT ![thread[t].o] = Flagged(thread[t].row)]
    /\ overtaken' = (overtaken \cup Holders(thread[t].o)) \ {t}
    /\ thread' = [thread EXCEPT ![t] = Idle]
    /\ UNCHANGED <<exec, inflow, open, baseline>>

Resolve(o) == /\ ledger[o].registered
              /\ ledger' = [ledger EXCEPT ![o].resolved = TRUE]
              /\ overtaken' = overtaken \cup Holders(o)
              /\ UNCHANGED <<exec, inflow, open, baseline, thread>>

\* Mutant: age alone decides.
PruneOld(o) == /\ ledger[o].registered
               /\ ledger' = [ledger EXCEPT ![o] = NoRow]
               /\ overtaken' = overtaken \cup Holders(o)
               /\ UNCHANGED <<exec, inflow, open, baseline, thread>>

\* Which resolved rows are old and inactive is the caller's and the clock's choice.
Prune(o) == /\ ledger[o].registered /\ ledger[o].resolved
            /\ ledger' = [ledger EXCEPT ![o] = NoRow]
            /\ overtaken' = overtaken \cup Holders(o)
            /\ UNCHANGED <<exec, inflow, open, baseline, thread>>

Next == \/ \E o \in Order : \/ Submit(o) \/ VenueMatch(o) \/ RegisterOrder(o)
                            \/ ObserveWalletUnattributed(o) \/ Resolve(o) \/ Prune(o)
        \/ Inflow
        \/ \E t \in Thread : \/ ApplyObservation(t) \/ FlagOverfill(t)
                             \/ \E o \in Order :
                                  ObserveOrderPayload(t, o) \/ ObserveWallet(t, o)

Spec == Init /\ [][Next]_vars

-----------------------------------------------------------------------------
(* Properties *)

\* Every variable keeps its type; the one type invariant of this module.
TypeOK == /\ inflow \in 0..MaxInflow
          /\ exec \in [Order -> Seq([size : 1..Requested, price : 1..MaxPrice])]
          /\ open \subseteq Order
          /\ baseline \in [Order -> Nat \cup {NoBaseline}]
          /\ ledger \in [Order -> Row]
          /\ thread \in [Thread -> ThreadState]
          /\ overtaken \subseteq Thread

\* What the venue executed for an order or the wallet gained since its baseline.
Gained(o) == IF baseline[o] = NoBaseline THEN 0 ELSE WalletDelta(o)
Limit(o) == Larger(Matched(o), Gained(o))

\* However often and in whatever pieces the venue repeats itself, no row claims
\* more than that.
FillTruth == \A o \in Order : Larger(ledger[o].observed, ledger[o].confirmed) <= Limit(o)

\* A realized price is the average of executions that really happened, covering
\* exactly the size it claims to cover, and no more than the confirmed fill.
Priced(o, x) == \E ks \in SUBSET DOMAIN exec[o] : /\ Executed(o, ks) = x.covered
                                                  /\ Cost(o, ks) = x.notional
PriceTruth == \A o \in Order : /\ Priced(o, ledger[o])
                               /\ ledger[o].covered <= ledger[o].confirmed

\* What a row knows is not less than what another version of it knows.
Below(q, r) == /\ q.registered => r.registered
               /\ q.confirmed <= r.confirmed /\ q.covered <= r.covered
               /\ q.fills \subseteq r.fills /\ q.anomalies \subseteq r.anomalies
               /\ q.resolved => r.resolved

\* The one section that may undo another one: the thread stores the row it read before
\* somebody else wrote, or pruned, it.  What that row knew is all that is sure to stay.
StoresOvertaken(o) == \E t \in overtaken \cap Holders(o) :
                          thread'[t].pc = "idle" /\ ledger'[o] = Flagged(thread[t].row)

\* Whichever threads write and whatever arrives late, what is known about an order only
\* grows, only a resolved row disappears, and an unknown order starts with a fresh row;
\* the flagging of an overfill by a thread that was overtaken is the only exception.
FactsKept ==
    [][\A o \in Order :
          \/ IF ledger[o].registered THEN Below(ledger[o], ledger'[o])
             ELSE ledger'[o] \in {ledger[o], FreshRow}
          \/ ledger[o].registered /\ ledger[o].resolved /\ ledger'[o] = NoRow
          \/ StoresOvertaken(o)]_vars

\* An observation that reaches its row is in it: its size, and every execution it
\* lists, are accounted for even when the ledger takes it for a repetition.
EvidenceCounted ==
    [][\A t \in Thread : LET o == thread[t].o IN
          thread[t].pc = "decoded" /\ thread'[t].pc # "decoded" /\ ledger[o].registered =>
              /\ ledger'[o].confirmed >= thread[t].seen.size
              /\ ledger'[o].confirmed >= Total(ledger'[o].fills)
              /\ {f.id : f \in thread[t].seen.fills} \subseteq Known(ledger'[o])]_vars

\* An inventory gain above the request is neither hidden nor cut: once recorded,
\* the row shows it in full and carries both anomalies.
OverfillKept ==
    \A o \in Order : \A ob \in ledger[o].seen :
        ob.size > Requested /\ (\A t \in Thread : thread[t].pc # "applied") =>
            /\ ledger[o].confirmed >= ob.size
            /\ {"exceedsRequest", "walletOverfill"} \subseteq ledger[o].anomalies

-----------------------------------------------------------------------------
(* The inductive invariants behind the theorems of FillAccountingProofs *)

\* The executions of an order as the venue lists them when it names them.
ExecutedFills(o) == {[id |-> [alias |-> "native", at |-> 0, k |-> k],
                      size |-> exec[o][k].size, price |-> exec[o][k].price] :
                         k \in DOMAIN exec[o]}

\* The types without the bounds, which only truthful rows keep; an execution has a size.
AnyObservation == {ob \in [source : {"venue", "wallet"}, size : Nat, fills : SUBSET Fill,
                           covered : Nat, notional : Nat] : IsFiniteSet(ob.fills)}
AnyRow == {r \in [registered : BOOLEAN, observed : Nat, confirmed : Nat, covered : Nat,
                  notional : Nat, fills : SUBSET Fill, seen : SUBSET AnyObservation,
                  resolved : BOOLEAN,
                  anomalies : SUBSET {"exceedsRequest", "walletOverfill", "noBaseline"}] :
              IsFiniteSet(r.fills)}
AnyThreadState == [pc : {"idle", "decoded", "applied"}, o : Order,
                   seen : AnyObservation, row : AnyRow]
Typing == /\ inflow \in 0..MaxInflow
          /\ exec \in [Order -> Seq([size : 1..Requested, price : 1..MaxPrice])]
          /\ open \subseteq Order
          /\ baseline \in [Order -> Nat \cup {NoBaseline}]
          /\ ledger \in [Order -> AnyRow]
          /\ thread \in [Thread -> AnyThreadState]
          /\ \A o \in Order : Len(exec[o]) <= Matched(o) /\ Matched(o) <= Requested

\* A row accounts for its fills and for every observation that it has seen.
RowCounted(r) ==
    /\ r.confirmed >= Total(r.fills)
    /\ \A ob \in r.seen : /\ r.confirmed >= ob.size
                          /\ {f.id : f \in ob.fills} \subseteq Known(r)
    /\ r.confirmed > Requested => "exceedsRequest" \in r.anomalies

\* So does the row that a thread took out; it holds one for a wallet reading only.
ThreadCounted(t) ==
    /\ thread[t].pc = "idle" => thread[t] = Idle
    /\ thread[t].pc = "decoded" => thread[t].row = NoRow
    /\ thread[t].pc # "idle" /\ thread[t].seen.source = "wallet" =>
          baseline[thread[t].o] # NoBaseline
    /\ thread[t].pc = "applied" =>
          /\ RowCounted(thread[t].row) /\ thread[t].row.registered
          /\ thread[t].seen \in thread[t].row.seen /\ thread[t].seen.source = "wallet"

CountedInv ==
    /\ \A o \in Order : RowCounted(ledger[o])
    /\ \A o \in Order : o \notin open => baseline[o] = NoBaseline /\ ~ledger[o].registered
    /\ \A t \in Thread : ThreadCounted(t)

\* A thread that nobody overtook holds the row as it is.
HeldInv ==
    /\ overtaken \subseteq Thread
    /\ \A t \in Thread : thread[t].pc = "applied" /\ t \notin overtaken =>
          ledger[thread[t].o] = thread[t].row

\* The venue reports no more than it matched, so an observation above the request is the
\* wallet's, and it is flagged or about to be.
FlaggedInv ==
    /\ \A t \in Thread, o \in Order :
          thread[t].pc # "idle" /\ thread[t].o = o /\ thread[t].seen.source = "venue" =>
              thread[t].seen.size <= Matched(o)
    /\ \A o \in Order : \A ob \in ledger[o].seen :
          ob.size > Requested =>
              \/ "walletOverfill" \in ledger[o].anomalies
              \/ \E t \in Thread : thread[t].pc = "applied" /\ thread[t].o = o

\* A row and an observation tell of nothing that did not happen.
RowTrue(o, r) ==
    /\ r.fills \subseteq ExecutedFills(o)
    /\ r.observed <= Limit(o) /\ r.confirmed <= Limit(o)
    /\ Priced(o, r) /\ r.covered <= r.confirmed
    /\ \A ob \in r.seen : ob.covered <= r.confirmed

ObservationTrue(o, ob) ==
    /\ ob.fills \subseteq ExecutedFills(o)
    /\ ob.size <= IF ob.source = "wallet" THEN Gained(o) ELSE Matched(o)
    /\ Priced(o, ob) /\ ob.covered <= Larger(ob.size, Total(ob.fills))

TruthInv ==
    /\ \A o \in Order : RowTrue(o, ledger[o])
    /\ \A t \in Thread, o \in Order : thread[t].pc # "idle" /\ thread[t].o = o =>
          /\ ObservationTrue(o, thread[t].seen)
          /\ thread[t].pc = "applied" => RowTrue(o, thread[t].row)

=============================================================================
