# Formal models of the prediction-market trading system

TLA+ specifications of the path from market data to confirmed orders in this repository,
the TLC configurations that model-check them, and TLAPS proofs about them. The code
under `src/src/` is the reference; every operator names the lines it stands for in
`PROJECT.json` (`map`).

## 1. The system

One asyncio process watches short-lived binary prediction markets, decides on
orders, and sends them through a synchronous venue SDK that runs in worker threads.
All state is in memory: there is no persistence and no recovery after a restart, so
no model has a crash action.

| Part (file under `src/src/`) | State it owns | Operations that change it |
| --- | --- | --- |
| Order lifecycle registry (`execution/order_lifecycle.py`) | row per lifecycle (generation, state, order id, fill, raw-POST flag, last submission/reconciliation), order-id index | `create`, `submit` (+ raw-POST observer), `cancel`, `refresh_status`/`observe_status`, `mark_reconciling`, `apply_reconciliation`, `supersede`, `release_terminal_zero`, `prune_released` |
| Fill accounting (`execution/fill_accounting.py`) | row per order: observed and confirmed size, price evidence, fill rows, seen evidence ids, anomalies, resolved mark | `register_order`, `apply_observation`, `observe_order_payload`, `observe_trade_payload`, `observe_wallet_balance`, `resolve`, `prune` |
| Reconciliation (`execution/reconciliation.py`) | one shared flight per lifecycle generation; evidence gathered so far | `reconcile`, the task `_reconcile_owned` |
| Order manager (`execution/order_manager.py`) | wallet baselines, per-lifecycle async locks | `submit`, `refresh_status`, `reconcile`, `cancel`, `prune`, `close` |
| CLOB transport (`execution/clob_transport.py`) | SDK slot, order generations, status and trade caches, per-key locks, metadata | `post_order`, `get_order`, `get_trades`, `cancel_order`, `prewarm`, `prune_token_state` |
| Position book (`risk/position_state.py`) | inventory and cost basis per token, cumulative execution per order, settlement ids | `register_order_affinity`, `apply_cumulative_execution`, `observe_inventory_floor`, `note_order_terminal`, `mark`, `mark_settlement_pending`, `settle`, `prune_closed` |
| Risk manager (`risk/risk_manager.py`) | none of its own: reads book and registry | `snapshot`, `assess` |
| Admission and permit ledger (`strategy/admission.py`), bridge (`strategy/public_policy.py`) | active and consumed permits, prepared lifecycles | `register`, `consume`, `prune`; `prepare` and the raw-POST observer |
| Trading engine (`engine.py`) | market queue, current books and generations | `handle_market_event`, `configure_markets`, worker, commit section, pre-submit validator |
| WebSocket client (`market/websocket.py`) | its run, stop event and socket, event queue, recent frame digests | `run`, `stop`, frame handling, the watchdog, the event worker |
| Order-book store (`market/orderbook.py`) | books per token and source, with the depth they claim | `publish_ws_book`, `publish_ws_delta`, `publish_ws_top`, `refresh_rest`, `prune` |
| Application runtime (`main.py`) | the client, the active markets | `run`: discovery, rotation of clients; shutdown |
| Discovery, Markov model, config, logging | caches; counts and matrices; nothing; sinks | see section 7 |

**How they interact.** The runtime asks discovery for the current markets and, when
they change, stops the WebSocket client, configures the engine and starts a new client.
The client writes books into the store and announces each change through a bounded
queue; the engine refreshes its current books and puts the market into a bounded queue
of its own, from which workers take markets, produce candidates, and revalidate them
against the current books twice: under the commit lock and in the seal of the
transport.

The engine admits a candidate under its commit lock, registers
a one-shot permit, and hands the order to the order manager. That creates a lifecycle
row, and runs `OrderLifecycleService.submit` in a thread; the transport validates,
calls the observer (row: "raw POST entered"), and posts. What comes back, or fails
to, is recorded in the row. Fill accounting is fed by submission, status and trade
payloads and by wallet balances. When the outcome is unclear, reconciliation gathers
status, trades and wallet, in that order, writes its verdict to the lifecycle row,
and marks the ledger row resolved. Confirmed fills are the input of the position
book; the risk manager reads book and registry.

**What is hard.** Gates are held for memory updates only, never across a venue call, so
every answer is applied to a row that other threads may have moved on. A timed-out POST
may reach the venue later. Writers overtake readers for the one SDK object, and an
answer that was read before a cancel may be stored after it. Announcements are
coalesced, dropped when a queue is full, and delivered after their client was replaced.
Venue payloads lag, under-report, repeat executions under several names, or have no
size. Wallet balances belong to a token, not to an order. Callers of a reconciliation
come and go while a shared task runs.

## 2. Modules

| Module | Models | Depends on |
| --- | --- | --- |
| `OrderLifecycle` | the registry, its threads, the wire and the venue | |
| `OrderLifecycleProofs` | type, handoff, exposure, fill, staleness, terminal truth, ownership and order-id theorems | `OrderLifecycle`, `TLAPS` |
| `FillAccounting` | the fill ledger, its threads, executions at the venue | |
| `FillAccountingProofs` | evidence, growth, overfill, fill truth, price truth and type theorems | `FillAccounting`, `TLAPS` |
| `Reconciliation` | callers, tasks, evidence reads, ledger and row writes | |
| `ReconciliationProofs` | type, singleflight, truth theorems | `Reconciliation`, `TLAPS` |
| `PositionBook` | inventory and cost of one token against its executions | |
| `PositionBookProofs` | sums over finite sets; type, inventory, inventory truth and money theorems | `PositionBook`, `TLAPS` |
| `PermitLedger` | the engine's commit section, the permit ledger, the submitting threads up to the raw POST, orders at the venue | |
| `Submission` | what admission, engine and transport together promise of orders: the abstract specification | |
| `PermitLedgerProofs` | type, authority, one-shot and exposure theorems; `PermitLedger` implements `Submission` | `PermitLedger`, `TLAPS` |
| `ClobTransport` | the SDK slot, retries, the status cache with its key locks and generations | |
| `ClobTransportProofs` | type and stale-status theorems | `ClobTransport`, `TLAPS` |
| `OrderBookStore` | the WebSocket books and the depth they claim | |
| `MarketFeed` | clients, connections, sockets and their rotation, writing into the store | `OrderBookStore` |
| `MarketFeedProofs` | type, proven depth, publication theorems | `MarketFeed`, `TLAPS` |
| `MarketPipeline` | announcement, ingress, market queue, workers, commit and seal, under rotation | |
| `MarketPipelineProofs` | type, wakeup, cache and seal theorems | `MarketPipeline`, `TLAPS` |
| `MC*` | values of the constants and symmetry for TLC | the module after `MC` |

The modules are cut where the code is: each service holds its own lock and meets the
others through values. Where one needs another, it keeps the part of that state it reads
and writes (`Reconciliation.ledger` is the confirmed size and the resolved mark of a
`FillAccounting` row, `Reconciliation.row` the fill, order id and verdict of an
`OrderLifecycle` row, `PermitLedger.row` its state) and `map` points those definitions
at the other service's code. The link in the other direction is an assumption that is
discharged: `OrderLifecycle` takes terminal-zero evidence to be true (`EvidenceReply`),
and `Reconciliation` proves `ZeroSound` for the orders where the code delivers it.
`MarketFeed` composes clients, store and runtime; `MarketPipeline` composes client
queue, engine and runtime and takes the books as versions; from the seal on,
`PermitLedger` goes on with the same submission, whose market evidence is a free choice
there.

### OrderLifecycle

Each `with self._gate` section is one action, each venue call a pair of steps with
everything else in between. A worker is a thread or task in the middle of one
operation: `started` (row prepared), `entered` (raw flag set, POST not yet out),
`waiting` (call out), `answered`. `submit` is `SubmitStart`, `RawEnter`, `SendPost`
and one of `SubmitDenied`, `SubmitAmbiguous`, `SubmitConfirmed`; `cancel` is
`CancelStart` and `CancelReturns` or `CancelFails`; a refresh is `RefreshStart` and
`ObserveStatus`; a reconciliation is `MarkReconciling`, optionally `Located`, and
`ApplyReconciliation`. `SetWorking` is `_set_working` with its order of effects: the
changed-order-id refusal before the row is written, the foreign-owner refusal after.

The venue (`VenueAccept`, `VenueRefuse`, `VenueMatch`, ...) is external: it may decide
a POST long after the client gave up on it, and its reports may under-report the
matched size, or state `MATCHED` without one. A terminal status is permanent.

Assumptions: generations are numbered from 1; a (lifecycle, generation) is not used
again after its release, as the engine derives it from a fresh candidate
(`engine.py:257-264`); `SIGNING` and `CLOSED` are never assigned by the code and are
left out; the generic-exception branches of `submit` end like the typed ones and
share their actions; the `create` inside `submit` is the separate `Create` step (it is
idempotent for the same identity, and another thread can come between them either
way). `LocatorExact` says that the reconciliation's order locator returns the
lifecycle's own order; `TransportWraps` that every transport failure arrives as
`ClobTransportError`, which `ClobTransport` does and the tests' fakes do not.

### FillAccounting

`exec` is the external truth: executions, in order, with size and price. A thread
decodes a payload or a wallet reading and applies it later (`ObserveOrderPayload`,
`ObserveWallet`, then `ApplyObservation`); `observe_wallet_balance` has a third gated
section, `FlagOverfill`, which stores the copy of the row it got from the second. A
`Poller` observes payloads, a `Watcher` wallet balances, a thread may be both; the history variable
`overtaken` has the threads whose copy is no longer the row as it is, because another
thread wrote or pruned it.
`RowEvidenceId` is the identity of a listed execution: its native id, or, without
one, a fingerprint with its position in the response. `ChoosePrice` is the choice
between individual fills, a new average and the old one.

The submission, status and trade endpoints carry the same fields through the same
extractors and are one set of payloads; the order of a listing matters only without
native ids. `Seen` identifies an observation with its payload, as `_evidence_id` does by a
digest; the id of a submission observation has only status and matched size
(`order_manager.py:446`), but a submission is accounted once per POST, so no second one
can share it. An average is only reported with a matched size. SELL rows and
`cumulative=False` observations, which no caller in the repository makes, are left out.
`Inflow` is the same token reaching the wallet in another way: a wallet gain is then
more than the order's fill, which the ledger books and flags, so `FillTruth` bounds the
booked size by the executions or the wallet's gain, whichever is more.

### Reconciliation

A task is modelled between awaits: `StartTask`, `Locate`/`NotLocated`, `StatusRead`
with `Retry`, `TradesRead` (positive status), `ZeroTradesRead` (terminal status
without fill), `WalletAgainstBaseline`/`WalletWithoutBaseline`; each read is asked,
answered (external, at some moment), and consumed. `Finish` is `_result` with
`apply_reconciliation`, whose refusal (`Applied`: a row of a newer generation, a zero
against a known fill) is swallowed. `Supersede` stands for whatever takes the row of a
proven zero away, and `StaleTask` for a task that finds it gone. The singleflight is
`ReconcileNew`, `ReconcileJoin`, `CallerCancelled` (the shield), `CallerAnswered` and
`Released`, the done callback: a task that ended is `done` and still registered, so that
a new caller can register another one (`Unclaimed` reads the task, not only the map)
before the callback runs, and callers resume only after it. A concurrent
`OrderManager.refresh_status` writes the same ledger and row.

Policy values are the defaults; an absent reader is one that always fails; a status
that names another order is unreadable, and the locator finds the order itself, so that
the refusals of a conflicting order id (`order_lifecycle.py:1326-1334`) and of a foreign
owner are never reached here (`OrderLifecycle` has them); the wallet balance reflects a match at once
(settlement lag would break any wallet proof and is outside the code's control); a
SELL can only match what the wallet holds.

### PositionBook

Every public method holds the book's lock, so each is one action: `ApplyCumulative`
(ignored, refused or booked, by the branches of `apply_cumulative_execution`),
`ObserveFloor`, `Settle`, `PruneClosed`. `Bought`, `Corrected` and `Hydrated` are the
three effects of BUY evidence, `Reduced` is the average-cost reduction that a sale and
a settlement share. No module under `src/` calls the book yet, so the callers are
external: `Reports` is any cumulative state that an order went through, in any order
and any number of times, with its exact price, without a price, or with the limit price
as a conservative bound; a report that nothing was executed carries no price.

Nothing is asked of the callers: a floor may come before the executions it contains, a
settlement without a quantity before the rest of the token's evidence, and a report may
be repeated after its order was pruned. `forgotten` remembers what pruning forgets,
`surplus` and `shortage` count the lots that these three put into the position, or take
out of it, a second time (`ObserveFloor`, `Miscounted`, `BookedAgain`); `InventoryTruth`
says that they are all that ever separates the book from the wallet. `blurred`
remembers that a price went missing between two increments, an estimate was mixed with
increments, or lots changed their price after some were gone; for such positions the
book cannot know the cost, and `MoneyConserved` does not speak of them.

### PermitLedger

A pipeline runs in the event loop: `EnterCommit` (the commit lock), `CountOwners` and
`NotAdmitted` (the checks before the decision), `Admit` (`prepare` and `register` of a
fresh permit, with the eviction at `max_entries`), `Launch` or `SignFails`, and
`Collect` or `Cancel`, which retire a permit that was not used. Its thread goes on
after a cancellation: `PickUp`, `SubmitStart` (the row's handoff), `AcquireSlot`,
`PermitSealed`, `RecountOwners`, `EvidenceSealed` or `Denied` (the two validators under
the transport slot), `EnterRawPost` (the observer, which consumes the permit or
raises), `RawPost`, `PostReturns`, `Record`. The slot is given back before the row says
how the POST ended, as in the code. `RiskManager.assess` takes two looks at the owners,
which are two steps: rows can change in between.

The baseline capture and the reconciliation of an ambiguous result, which the order
manager may do while the pipeline holds the commit lock (`order_manager.py:547-556`), are
switched off by the program (`main.py:273-285`) and left out.

What the policy says of the market is a free choice at both places; the evaluation has
no state. A permit is its candidate, issue and expiry. `AdmitKept`, a decision that is
presented again, and `Prune` are calls that the bridge and the ledger offer and nothing
under `src/` makes. Every order creates exposure. Rows are released as `OrderLifecycle`
releases them: only when nothing is left at the venue.

An observer that raises because a cancelled pipeline has just retired the permit leaves
a `SUBMISSION_UNKNOWN` row though nothing was posted; the row keeps its token until a
reconciliation says otherwise. That is the cautious side, and `Resolved` does not
release it here.

### Submission

The promise that `PermitLedger` keeps, without locks, threads, ledger or rows: a permit
is used once (`Spend`), an order is posted once and only after a use of a permit of its
own (`Clear`, `Post`), and while an order is out or live no other order of its token is
posted and the limit holds. `PermitLedger!SubmitsAsPromised` is the instance with
`uses <- handoffs` (every successful consume), `cleared <- Cleared` (candidates whose
thread consumed its permit and has not posted) and `wire <- wire`; an eviction, an
expiry or a pruning is a stutter there, a retirement is `Void`.

### ClobTransport

A call is one caller's way through `get_order`, `cancel_order` or `post_order`:
`queued` for the slot (`Acquire` with `_acquire_transport_slot`'s arbitration: writes
first, a lifecycle read that waited too long passes them, but not twice in a row),
`calling` the SDK, `asleep` before a retry, `done` or `failed`. A read holds its key
lock from `LockKey` to `EndRead`, looks into the cache (`CacheHit`, `CacheMiss`), and
keeps what it read only when the generation is still that of its look (`KeepStatus`,
`DiscardStatus`). `Bump` is a transition of an order: the generation rises, the cached
status goes, and the table of generations evicts entries when it is full. The venue is
external: a call that raises may have taken effect.

### OrderBookStore and MarketFeed

A side of a book is its origin (`ladder`, `top`) and the number of the message that
brought it. `PublishBook`, `PublishDelta` and `PublishTop` are the three publications
that the client makes, with the sides that a one-sided message carries forward.

A client is `created`, `connecting`, `receiving`, `sleeping` before a reconnect, or
`finishing`; its socket may be open, silent or closed. `SilenceWatchdog` is the watchdog's
loop, its generation check and its close (`websocket.py:532-562`) in one fair action: what
remains of it here is that the close ends the receive loop. `RunBegins` clears the stop event,
as the code does, also when `stop` came first. The runtime goes round `Discover`,
`StopClient`, `TaskEnded` or `CancelTask` (the timeout), `StartClient`.

### MarketPipeline

`Publish` changes a market's books and announces it (`Emit`, with the oldest event
making room in a full queue). The two books of a market are one version, so the early
returns for a missing one (`engine.py:847`, `984`) are left out: a market's first version
stands for its first complete pair. `Deliver` is the client's event worker calling
`handle_market_event`: `Refresh` compares the books with the cached ones and counts
generations, `Enqueue` coalesces or drops. A client that was cancelled leaves its event
worker behind, so `Deliver` serves every client. A worker's `Take` is two sections
without an await between them: the market stops counting as queued, and its books are
read. `Propose`, `Commit`, `Seal` and `Submitted` are the way of a candidate, `Refuse`,
`FailToSeal` and `NoCandidate` the ways out. `StopFeed` and `StartFeed` are the rotation;
`Configure` is `configure_markets`.

"Current" is the engine's cache, the only thing the validations read; `CacheFollowsStore`
says how far it may be behind the store. Markets that leave lose their generation
counter.

## 3. Model-checking runs

| Run | Shows | Result |
| --- | --- | --- |
| `lifecycle_generations` | one lifecycle, two generations, three concurrent operations, two order ids, two lots: one handoff, exposure, ownership, staleness, fills, order-id index | pass (1.12 M states) |
| `lifecycle_reopened` | a statement of a doc that the code does not keep | violation |
| `fill_ledger` | one order, a thread that polls it and one that watches the wallet, two aliases, partial fills at two prices, other inflow: truth of sizes and prices, what two threads may undo, overfills | pass (1.17 M) |
| `recon_buy` | a BUY, two callers, two tasks, two attempts, two lots, held inventory, refresh and supersession: zeros and fills are true, one task at a time | pass (657 k) |
| `recon_answered` | with a wallet that other orders move: the row learns what the ledger knows and every caller that keeps waiting is answered | pass (422 k) |
| `recon_sell_zero` | such a statement | violation |
| `position_evidence` | two BUYs, one in two fills, a SELL, inflow, a redemption: late, repeated, reordered, unpriced and estimated evidence, floor, settlement and pruning at any time | pass (514 k) |
| `permit_oneshot` | three pipelines, two for one candidate, two candidates for one token, a ledger of one entry: cancellation, expiry, eviction, pruning, decisions presented again; the refinement of `Submission` | pass (2.41 M) |
| `permit_released` | two candidates of two tokens with a limit of one: the limit, and the commit lock is given back | pass (72 k) |
| `transport_status` | a reader, a writer, a thread that does both: no stale `LIVE` after a cancel, every status read ends although writers go first | pass (104 k) |
| `feed_rotation` | two clients, two tokens, rotations, sockets that close and fall silent: proven depth, publication, rotation and silence | pass (65 k) |
| `pipeline_rotation` | two markets, two clients, two workers, queues of two and one, rotation: wakeups, current books, seal, evaluation | pass (207 k) |

**Bounds.** Two generations are needed to have an old and a new one; three workers put a
submit, a cancel or refresh, and a reconciliation in flight together; two order ids
allow a wrong one; two lots allow a partial fill. In the ledger, any payload that was
true once can be applied at any later time; the second thread overtakes the one that
watches the wallet between its sections, which one writer is enough for. Two
aliases are the same execution under two names. In reconciliation, two tasks and callers
give a done task that is still registered beside a running one; two attempts a retry; two
lots a fill that grows between two reads. The liveness run has one task: a task ends by
itself, and a wallet that anyone moves, which is what a refused zero needs. In the book,
a BUY of two lots gives increments, the second BUY other lots to mix with them; one lot
counted twice comes from each of the three causes, and inflow instead of it (`MaxApart`
bounds their sum; that they add up is proved); the SELL has one price, so its corrections
are left to `MoneyConservedHolds`; prices are multiples of 144 so that the averages over
up to four lots, twice reduced, are whole. In the permit model, two pipelines of one candidate and a
third of another give a repeated commit and a competing one; a ledger of one entry
evicts; a validity of 1, memory of 2 and clock up to 2 let a permit expire, be forgotten
and be presented again. In the transport, one order and one cancel suffice for a read to
race the cancel; a second writer keeps the slot contended, which the escape needs. In
the feed, four messages give a top, a one-sided message and a book in any order, across
two clients; the markets change, go and come back. In the pipeline, a market queue of
one overflows with two markets, client queues of two drop and keep, and with two
messages a market changes while its first books are evaluated, possibly in one tick of
the clock. `MaxGeneration`, `MaxSeen`, `MaxStart`, `MaxInflow`, `MaxApart`, `MaxPrice`,
`MaxTime`, `MaxGen`, `MaxMessages`, `Size` and the number of clients are the only bounds
and stand in guards or in constants.

**Deadlock** is checked for `transport_status`, where callers come again for ever. The
other systems stop when the venue has decided and every operation has returned;
generations, observations, clients and messages are bounded.

**Symmetry** is used for identifiers that the specifications only compare, never in a
liveness run.

**Fairness** is assumed in five specifications. `Reconciliation!FairSpec`: every await of
the task returns or raises (the SDK has timeouts, the readers are wrapped in `try`), and
the event loop runs what is ready. `PermitLedger!FairSpec`: the commit section runs on,
signing ends, and a started thread gets on, each of them weakly fair; the slot is
handed over by a finite queue of threads, one per pipeline. `ClobTransport!FairSpec`: a
call in the slot ends (SDK timeouts), time passes, and a thread whose wait for the slot or
a key lock is over again and again gets it: the condition variable and the locks wake
every waiter, which is strong fairness. `MarketFeed!FairSpec`: a connection attempt ends,
the tasks run on, and the timeouts of the watchdog and of the runtime run out.
`MarketPipeline!FairSpec`: event workers and market workers run on, and what they call
answers or fails. Nothing is assumed about callers, cancellation, pruning, discovery,
messages and the venue.

## 4. Where the code and its documentation differ

Shown by a run (`PROJECT.json`, `findings`, quotes the document of each):

- `lifecycle_reopened`: a reconciliation that read `LIVE` earlier reopens a `FILLED` row.
- `recon_sell_zero`: for a SELL the wallet goes down when the order fills, which the
  clamped delta takes for "unchanged" and so for proof of zero.

Seen on the way, with the property and the instance that reproduces each:

- `observe_wallet_balance` stores a copy of the row it took earlier
  (`fill_accounting.py:1392`): it can erase another thread's observation, and bring a row
  back that was resolved and pruned meanwhile, although line 922 calls the ledger
  "Thread-safe". `FactsKept` names this step as the only one that undoes anything
  (`StoresOvertaken`), and `fill_ledger` reaches it: without that disjunct TLC finds both;
- without native ids an execution that moved in the listing counts twice
  (`fill_accounting.py:1304`: "repeated endpoint polling is idempotent"): `FillTruth`
  with `NativeIds = FALSE`;
- late prices are hydrated at the order's latest average (`position_state.py:788`; its
  line 17 promises "cumulative notional deltas, not latest_average * quantity_delta"),
  so lots priced before keep another share of the notional than the order paid;
- a status read before a cancel revokes the cancel intent (`CancelIntentHolds` in
  `lifecycle_generations`);
- `MATCHED` without a size is a fill nobody owns (`FilledOwned`, same instance);
- a foreign order id is written to the row before it is refused (`ExclusiveOid` with
  `LocatorExact = FALSE`);
- a transport error that is not wrapped lets an old cancel write a newer generation's
  row (`StaleGenerationFrozen` with `TransportWraps = FALSE`);
- a row repeated in a listing without a cumulative size counts twice (`FillTruth` with
  `RepeatedRows = TRUE`);
- a zero concluded against a fill that a refresh learned during the wallet read is
  refused by the lifecycle row only: the ledger row is resolved and the caller is told
  zero (`ZeroSound` with `Side = "SELL"`, or with `SharedWallet = TRUE`);
- an inventory floor and the execution it contains both count when they come in that
  order, which is the order the docstring of `observe_inventory_floor` describes
  (`position_state.py:920-924`), and an execution repeated after its row was pruned is
  booked again, although "cumulative execution updates are idempotent per exact order ID"
  (line 17). `InventoryTruth` allows exactly these lots; without `surplus` and `shortage`
  in it TLC finds both;
- `docs/architecture.md:127` says that a permit "cannot be replayed or resurrected":
  when pruning keeps consumed permits no longer than permits are valid, a used permit
  that is presented again is accepted again (`ConsumedOnce` and `SubmitsAsPromised` with
  `Keep = Ttl`; expiry is strict, so the boundary is included);
- an order whose entry was evicted from the table of generations starts from 0 again, so
  a read that raced a cancel can be cached as the state after it (`NotLiveAfterCancel`
  with two orders and `Cap = 1`; the code's table holds at least 128, 4096 by default).

Seen in the code and outside the models:

- a status that is being read while a post fails without an order id is cached after the
  cache was cleared for that very reason (comment at `clob_transport.py:891-893`);
- a frame that equals an earlier one within the window is dropped also when another
  frame of the token came in between (`websocket.py:600`): after A, B, A the store keeps B;
- a one-sided "book" event after a reconnect counts as initial coverage, since the store
  still holds the other side with its proven depth (`websocket.py:872-873`); `ProvenDepth`
  does not see it, since in the code neither age nor a reconnect ends a claim of depth;
- when a market leaves and comes back its generations start again, so an old candidate
  and two messages of one timestamp can be taken for current; `SealedFromCurrentBooks`
  excepts exactly this case.

## 5. Proofs

All theorems hold for every value of the constants allowed by the named assumptions.

*OrderLifecycle.* `TypeCorrect` needs a stronger base invariant (`BaseInv`): no row,
worker or POST refers to a generation that was never created, and a venue order comes
from a POST. `OneHandoffHolds` adds `HandoffInv`: a row still `CREATED` has no thread
before its POST and no POST behind it, and at most one thread is before the POST of an
identity. `ExposureHolds` and `SingleExposureHolds`, under `LocatorExact`, add that one
POST yields one order, that order ids name the order of their generation, and that a
recorded zero is the truth at the venue; without them a replaced row might still
have an order. `ExposureInv` is the whole.
`FillKeptHolds` needs no more than the base invariant; `StaleGenerationFrozenHolds`
assumes `TransportWraps`. `TerminalInv` adds to `TerminalIsTrue` that a closing answer under
way tells the truth about its order, and that a row whose submit has only started is
neither terminal nor posted. With `ExposureInv` it gives `TerminalIsTrueHolds`,
`ExposureOwnedHolds` (an undecided POST and an order that rests have a row that owns them)
and `ExactAffinityHolds` (the order-id index and the rows agree both ways), all under
`LocatorExact`: section 4 has what a locator that names a foreign order leads to.

*FillAccounting.* `Accounting` holds in every instance: types without bounds, and every
row covers the fills and observations that it has taken in; `EvidenceCountedHolds` follows
step by step. `FactsKeptHolds` needs nothing either: `HeldInv` says that
a thread which nobody overtook holds the row as it is, so only one that was overtaken can
undo anything. The other theorems need one thing each of their surroundings, and for each
TLC shows what happens without it. `OverfillKeptHolds` is for
any number of threads and needs that no response lists an execution twice:
`FlaggedInv` bounds the venue's reports by the match, so an observation above the request
is the wallet's. `FillTruthHolds`, `PriceTruthHolds` and `TypeCorrect` also need that
executions are named (`Trustworthy`); `TruthInv` says of every row, of every observation
under way and of every row taken out that its fills are executions, its sizes at most
`Limit`, and its price that of a set of executions. All of these only grow, which is
why an observation may be applied arbitrarily late.

*Reconciliation.* `BaseInv` joins typing, "a running task is the registered flight", from
which `SharedFlightHolds` follows, "a task past its status read of a terminal order knows
it is terminal" (`TerminalFirstHolds`) and "the row knows what the ledger knows when a
task ends" (`FillReachesRowHolds`); these hold for either side and any wallet. The first
needs that the done callback of an old task takes out only itself. `TruthInv` adds, for
`Exclusive` (a BUY whose token nobody else moves), that the wallet is the start balance
plus the match and that every answer under way is at most the truth; from it follow
`ZeroSoundHolds` and `FillTruthHolds`. `recon_sell_zero` shows that `Exclusive` cannot be
dropped. `TerminalFirst` has no run of its own: it is proved.

*PositionBook.* `WithinInventory` is not inductive: a correction of a size of 0 would
give a flat position a cost. `Inv` adds that neither the venue nor the book holds a
size of 0 with a notional; `ReducedRow`, `BoughtRow`, `CorrectedRow`, `HydratedRow`
say that each effect leaves a row of the book. `InventoryTruthHolds` assumes nothing
of the order of calls. It rests on `EvidenceInv` (the venue's reports of an order are one
growing history, and a settlement that was heard redeemed something) and `BalanceInv`:
wallet and position differ by the sum of what the book has not heard of, by inflow at
most, and by what was counted twice. What an order adds (`BookedTold`) is what the book
was not told of before plus what it had forgotten. The proof shows what `settle` without a
quantity presupposes: not only the token's own evidence, but every other settlement of
the token (`HeardBut`). `MoneyConservedHolds` needs no condition either: `PriceInv` says that a price
that is no estimate is one of the venue's, and `MoneyInv` strengthens the equation: lots that wait for a price are still in the
position, and as long as none has left all priced lots are in it, at what they cost.

The properties of both ledgers speak of sums over sets of orders or executions. The
recursion behind `SumFunctionOnSet` is unfolded once (`SumIsRecursion`, `SummationUnique`,
`SummationExists`), and facts about sums are proved by taking a smallest set that is an
exception (`SmallestSet`): that is induction over finite sets without an operator as a
parameter. `FillAccountingProofs` repeats this part.

*PermitLedger.* Three chains, joined in `IInv`. `LedgerInv` (the ledger comes from
decisions, used and active are disjoint) and `CommitInv` (the lock is held throughout
the section, whose thread starts at its end) give `AuthorityCommittedHolds`;
`AuthorisedInv` gives `PostAuthorisedHolds`. `RowInv` says that a row is handed to one
thread, which is the only one that can post it, and that an order that may live is
owned: `OnePostPerCandidateHolds`. `SlotInv` (one thread between slot and POST) makes
the seal hold until the POST: `TokenInv` and `PlaceInv` carry what the seal saw to
`OneOrderPerTokenHolds` and `WithinLimitHolds`, although the commit lock is long gone.
`ConsumedOnceHolds` assumes `Ttl < Keep` and adds `SpentInv`: a used permit is
remembered until it has expired. `SubmissionImplemented`, under the same assumption, is
the refinement: the initial states map, and each action maps to a step of `Submission`
or to a stutter; `BoundInv` adds that a pipeline holds a permit of its own candidate.

*ClobTransport.* `TypeCorrect` holds in every instance. `NotLiveAfterCancelHolds` assumes
`RoomForAll`, a table of generations that never evicts (section 4 shows why), and adds
`GenerationsInv`: generations only rise, and a `LIVE` of a cancelled order, be it cached
or on its way to the cache, carries a generation below the order's, so nobody takes it.

*MarketFeed.* Its `TypeOK` says that only the runtime's client runs; `RotationInv` adds
that there is none while the next one is created. `ProvenDepthHolds` rests on the lemma
that what `Known` returns is justified, and one lemma for each publication;
`PublishedIsActiveHolds` on the fact that a running client has the active tokens.

*MarketPipeline.* `WakeupKept` and `CacheFollowsStore` are inductive only together with
`FeedInv` (the queue of the runtime's client announces configured markets, that of an
unused client nothing) and `ConfiguredInv` (nothing is due when a market is configured).
`OriginInv` orders a candidate's generation against the cache as long as its market
stays, and with `CacheInv` gives `SealedFromCurrentBooksHolds`. The effects of `Emit`,
`Refresh`, `Enqueue` and `Dequeue` are lemmas.

The type theorems, `ConsumedOnce`, `OnePostPerCandidate`, `OneOrderPerToken` and
`TerminalFirst` are proved and not checked by a run of their own, except the two type
invariants that say more than types (`FillAccounting`, `MarketPipeline`) and that of
`ClobTransport`.

Every safety property that a passing run checks is proved. Only model-checked are the
liveness properties, which are out of the prover's reach: `CallersAnswered`,
`CommitReleased`, `LifecycleReadServed`, `RotationEnds`, `SilentSocketReplaced`,
`ChangeEvaluated`.

## 6. Mutants

Every checked property has a mutant in `PROJECT.json`: a plausible mistake in one
mapped definition (a dropped guard, a sum for a maximum, an off-by-one) under which
TLC finds the property violated. The mutated forms stand next to the definitions.

## 7. Not modelled, and the plan

Not modelled for good: the immutable records and hashing of `strategy/candidate.py`
and `market/types.py` (no state), the floating-point measurements of
`strategy/quality.py` beyond the comparison of snapshots, the estimates of
`models/markov.py` (no control to check), `runtime/config.py` and `runtime/logging.py`.

Left out of modelled parts, with the reason:

- the monetary limits of `RiskManager`: every limit defaults to none and no module under
  `src/` feeds the position book, so what positions and working orders add up to depends
  on callers that do not exist yet; the limits on execution owners are in `PermitLedger`;
- the order manager's facade (`prune`, `close`, `prewarm`): it forwards to the modelled
  services;
- `get_trades`, metadata and `prune_token_state` of the transport: they share the slot
  and keep a cache that no write invalidates;
- REST recovery and `prune` of the store: nothing in the program calls them;
- frame deduplication, heartbeat, subscription and initial coverage of the client;
- discovery: its result is a free choice of `MarketFeed` and `MarketPipeline`; it runs
  in one thread, and its caches only decide which of the current markets are found;
- shutdown of runtime, engine and order manager.

In order of importance, still to come:

1. Shutdown: `close` of the engine and the order manager against running submissions.
2. Discovery: retries, circuit breaker, fallback and its age.
