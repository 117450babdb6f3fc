--------------------------- MODULE OrderLifecycle ---------------------------
(***************************************************************************)
(* The exact-owner lifecycle registry (src/execution/order_lifecycle.py):  *)
(* local execution state for every logical order, moved by threads that    *)
(* submit, cancel, refresh and reconcile concurrently.                     *)
(*                                                                         *)
(* Every gated section of the code ("with self._gate") is one action; the  *)
(* transport call between two gated sections leaves the gate, so it is a   *)
(* separate step in which every other thread, and the venue, may move.     *)
(*                                                                         *)
(* Simplifications:                                                        *)
(*  - quantities are integer lots (0..Size), the 1e-9 tolerances vanish;   *)
(*  - average prices, reasons, timestamps and listener events are left out *)
(*    (FillAccounting models prices);                                      *)
(*  - a generation is a number from 1; 0 says that no entry exists;        *)
(*  - the venue is external: it fills, cancels and reports orders as the   *)
(*    code allows for (late, under-reported or missing answers).           *)
(***************************************************************************)
EXTENDS Integers, FiniteSets

CONSTANTS
    Lifecycle,         \* lifecycle ids
    OrderId,           \* order ids the venue may assign
    Worker,            \* threads and tasks that run one operation at a time
    NoLifecycle, NoOrder,
    MaxGeneration,     \* bound on the generations of a lifecycle
    Size,              \* requested size of every order, in lots
    LocatorExact,      \* the order locator only returns the lifecycle's own order
    TransportWraps     \* every transport failure arrives as a ClobTransportError

ASSUME SizesAssumption == Size \in Nat \ {0} /\ MaxGeneration \in Nat \ {0}
ASSUME SentinelAssumption == NoLifecycle \notin Lifecycle /\ NoOrder \notin OrderId
ASSUME SwitchAssumption == LocatorExact \in BOOLEAN /\ TransportWraps \in BOOLEAN

VARIABLES
    entry,     \* lifecycle -> its registry row (gen = 0: none)
    ownerOf,   \* order id -> lifecycle: the exact order-id index
    lastGen,   \* lifecycle -> highest generation ever created (history)
    worker,    \* worker -> the operation it is in the middle of
    venue,     \* order id -> the venue's own record of the order
    wire,      \* POST requests that have left and are not yet decided
    posts      \* <<lifecycle, generation>> -> number of POSTs sent (history)

vars == <<entry, ownerOf, lastGen, worker, venue, wire, posts>>

Generation == 1..MaxGeneration
Identity == Lifecycle \X Generation

Terminal == {"FILLED", "CANCELLED", "REJECTED", "FAILED"}
MayOwnLiveOrder == {"SUBMITTING", "WORKING", "PARTIALLY_FILLED",
                    "CANCEL_REQUESTED", "CANCEL_UNKNOWN",
                    "SUBMISSION_UNKNOWN", "RECONCILING"}
State == {"CREATED"} \cup MayOwnLiveOrder \cup Terminal

\* Labels of the venue; every other label of the code is a synonym of these.
Label == {"NONE", "LIVE", "MATCHED", "CANCELED", "INVALID"}

Entry == [gen : 0..MaxGeneration, state : State, oid : OrderId \cup {NoOrder},
          filled : 0..Size, raw : BOOLEAN, submitted : BOOLEAN,
          recon : {"none", "zero", "other"}]

NoEntry == [gen |-> 0, state |-> "CREATED", oid |-> NoOrder, filled |-> 0,
            raw |-> FALSE, submitted |-> FALSE, recon |-> "none"]
FreshEntry(g) == [NoEntry EXCEPT !.gen = g]

\* What a transport call brought back: nothing yet, an order payload, an
\* explicit cancel acknowledgement, evidence without a readable status, a
\* terminal-zero verdict, or no identity at all.
Answer == [what : {"none", "order", "ack", "unread", "zero", "noOid"},
           label : Label, matched : 0..Size]
NoAnswer == [what |-> "none", label |-> "NONE", matched |-> 0]

WorkerState == [kind : {"none", "submit", "cancel", "refresh", "reconcile"},
                pc : {"idle", "started", "entered", "waiting", "answered"},
                l : Lifecycle \cup {NoLifecycle}, gen : 0..MaxGeneration,
                oid : OrderId \cup {NoOrder}, answer : Answer]
Idle == [kind |-> "none", pc |-> "idle", l |-> NoLifecycle, gen |-> 0,
         oid |-> NoOrder, answer |-> NoAnswer]

VenueOrder == [label : Label, matched : 0..Size,
               l : Lifecycle \cup {NoLifecycle}, gen : 0..MaxGeneration]
Unassigned == [label |-> "NONE", matched |-> 0, l |-> NoLifecycle, gen |-> 0]

-----------------------------------------------------------------------------
(* Reading the registry *)

\* Mutant of max(known, observed): last write wins.
LastWritten(a, b) == b

Larger(a, b) == IF a >= b THEN a ELSE b

\* OrderLifecycleState of a venue payload.
NormalizedState(label, matched) ==
    CASE matched >= Size \/ label = "MATCHED" -> "FILLED"
      [] matched < Size /\ label = "CANCELED" -> "CANCELLED"
      [] matched < Size /\ label = "INVALID" -> "REJECTED"
      [] matched < Size /\ label \in {"LIVE", "NONE"} /\ matched > 0 -> "PARTIALLY_FILLED"
      [] matched < Size /\ label \in {"LIVE", "NONE"} /\ matched = 0 -> "WORKING"

Owns(l) == entry[l].gen # 0 /\ (entry[l].state \in MayOwnLiveOrder \/ entry[l].filled > 0)

\* Mutants: a raw POST needs no terminal-zero proof; a row is stale only when gone.
ReplaceableUnproved(l) == ~Owns(l)
ReleasableUnproved(l) == entry[l].gen # 0 /\ entry[l].state \in Terminal /\ entry[l].filled = 0
CurrentWhilePresent(w) == entry[worker[w].l].gen # 0

\* The guard of create (replacing) and of supersede.
Replaceable(l) == ~Owns(l) /\ (entry[l].raw => entry[l].recon = "zero")

\* The guard of release_terminal_zero and of prune_released.
Releasable(l) == /\ entry[l].gen # 0
                 /\ entry[l].state \in Terminal
                 /\ entry[l].filled = 0
                 /\ entry[l].raw => entry[l].recon = "zero"

\* _assert_generation: the worker's generation still holds the row.
Current(w) == entry[worker[w].l].gen = worker[w].gen

NextOid(l, o) == IF o # NoOrder THEN o ELSE entry[l].oid
OidConflict(l, o) == entry[l].oid # NoOrder /\ o # NoOrder /\ entry[l].oid # o
ForeignOwner(l, o) == /\ NextOid(l, o) # NoOrder
                      /\ ownerOf[NextOid(l, o)] \notin {NoLifecycle, l}

\* _set_working followed by the caller's bookkeeping: a changed order id is
\* refused before anything is written; an order id owned by another lifecycle
\* is refused after the row was written, so the bookkeeping (sub, rec) and the
\* index are skipped.
SetWorking(l, st, o, f, sub, rec) ==
    IF OidConflict(l, o) THEN UNCHANGED <<entry, ownerOf>>
    ELSE LET row == [entry[l] EXCEPT !.state = st, !.oid = NextOid(l, o),
                                     !.filled = Larger(entry[l].filled, f)]
         IN IF ForeignOwner(l, o)
            THEN entry' = [entry EXCEPT ![l] = row] /\ UNCHANGED ownerOf
            ELSE /\ entry' = [entry EXCEPT ![l] =
                                [row EXCEPT !.submitted = sub, !.recon = rec]]
                 /\ ownerOf' = IF NextOid(l, o) = NoOrder THEN ownerOf
                               ELSE [ownerOf EXCEPT ![NextOid(l, o)] = l]

\* Mutant: the index keeps the order ids of removed rows.
IndexKept(rows) == ownerOf

\* Removing a row pops its order id from the index, whoever owns it.
WithoutOids(rows) == [o \in OrderId |->
    IF \E l \in rows : entry[l].oid = o THEN NoLifecycle ELSE ownerOf[o]]

-----------------------------------------------------------------------------
(* Creation, replacement, release *)

Init == /\ entry = [l \in Lifecycle |-> NoEntry]
        /\ ownerOf = [o \in OrderId |-> NoLifecycle]
        /\ lastGen = [l \in Lifecycle |-> 0]
        /\ worker = [w \in Worker |-> Idle]
        /\ venue = [o \in OrderId |-> Unassigned]
        /\ wire = {}
        /\ posts = [i \in Identity |-> 0]

Install(l, g) == /\ entry' = [entry EXCEPT ![l] = FreshEntry(g)]
                 /\ ownerOf' = WithoutOids({l})
                 /\ lastGen' = [lastGen EXCEPT ![l] = g]
                 /\ UNCHANGED <<worker, venue, wire, posts>>

\* Callers never name a generation they have used before (the engine derives
\* the lifecycle id from the candidate id): g > lastGen[l].
Create(l, g) == /\ g > lastGen[l]
                /\ entry[l].gen # 0 => Replaceable(l)
                /\ Install(l, g)

Supersede(l, g) == /\ entry[l].gen # 0 /\ g > entry[l].gen
                   /\ Replaceable(l)
                   /\ Install(l, g)

Drop(rows) == /\ entry' = [l \in Lifecycle |-> IF l \in rows THEN NoEntry ELSE entry[l]]
              /\ ownerOf' = WithoutOids(rows)
              /\ UNCHANGED <<lastGen, worker, venue, wire, posts>>

ReleaseTerminalZero(l) == Releasable(l) /\ Drop({l})

\* Which of the releasable rows are old enough is the clock's choice.
PruneReleased == \E old \in SUBSET {l \in Lifecycle : Releasable(l)} :
                     old # {} /\ Drop(old)

-----------------------------------------------------------------------------
(* Submission *)

Begin(w, kind, pc, l) ==
    worker' = [worker EXCEPT ![w] = [Idle EXCEPT !.kind = kind, !.pc = pc, !.l = l,
                                                 !.gen = entry[l].gen, !.oid = entry[l].oid]]
Finish(w) == worker' = [worker EXCEPT ![w] = Idle]
At(w, kind, pc) == worker[w].kind = kind /\ worker[w].pc = pc

\* Mutant: the row's state alone decides, and a failed submission may be repeated.
SubmitStartAgain(w, l) ==
    /\ worker[w] = Idle
    /\ entry[l].gen # 0 /\ entry[l].state \in {"CREATED", "SUBMISSION_UNKNOWN"}
    /\ SetWorking(l, "SUBMITTING", NoOrder, 0, FALSE, entry[l].recon)
    /\ Begin(w, "submit", "started", l)
    /\ UNCHANGED <<lastGen, venue, wire, posts>>

\* One handoff per generation: nothing submitted, posted or moved before.
SubmitStart(w, l) ==
    /\ worker[w] = Idle
    /\ entry[l].gen # 0 /\ entry[l].state = "CREATED"
    /\ ~entry[l].raw /\ ~entry[l].submitted
    /\ SetWorking(l, "SUBMITTING", NoOrder, 0, FALSE, entry[l].recon)
    /\ Begin(w, "submit", "started", l)
    /\ UNCHANGED <<lastGen, venue, wire, posts>>

\* The result of a submission written to the row, if the generation is current;
\* otherwise the stale result is raised to the caller and nothing changes.
CommitSubmission(w, st, o, f) ==
    /\ IF Current(w)
       THEN SetWorking(worker[w].l, st, o, f, TRUE, entry[worker[w].l].recon)
       ELSE UNCHANGED <<entry, ownerOf>>
    /\ Finish(w)
    /\ UNCHANGED <<lastGen, venue, wire, posts>>

\* The validator denies the order, or the transport fails before the network.
SubmitDenied(w) ==
    /\ At(w, "submit", "started")
    /\ \E st \in {"REJECTED", "FAILED"} : CommitSubmission(w, st, NoOrder, 0)

\* The irreversible handoff, recorded under the transport's locks before the call.
RawEnter(w) ==
    /\ At(w, "submit", "started")
    /\ IF Current(w)
       THEN /\ entry' = [entry EXCEPT ![worker[w].l].raw = TRUE]
            /\ worker' = [worker EXCEPT ![w].pc = "entered"]
       ELSE UNCHANGED entry /\ Finish(w)
    /\ UNCHANGED <<ownerOf, lastGen, venue, wire, posts>>

\* The caller's own observer refuses: no POST, but the row already says raw.
ObserverFails(w) ==
    /\ At(w, "submit", "entered")
    /\ CommitSubmission(w, "SUBMISSION_UNKNOWN", NoOrder, 0)

SendPost(w) ==
    LET i == <<worker[w].l, worker[w].gen>> IN
    /\ At(w, "submit", "entered")
    /\ wire' = wire \cup {i}
    /\ posts' = [posts EXCEPT ![i] = @ + 1]
    /\ worker' = [worker EXCEPT ![w].pc = "waiting"]
    /\ UNCHANGED <<entry, ownerOf, lastGen, venue>>

\* Mutant: a submission that timed out counts as failed.
SubmitTimedOut(w) == At(w, "submit", "waiting") /\ CommitSubmission(w, "FAILED", NoOrder, 0)

\* Timeout, transport error, or a success-like response without an order id.
SubmitAmbiguous(w) ==
    /\ At(w, "submit", "waiting")
    /\ CommitSubmission(w, "SUBMISSION_UNKNOWN", NoOrder, 0)

SubmitConfirmed(w) ==
    LET a == worker[w].answer IN
    /\ At(w, "submit", "answered")
    /\ CommitSubmission(w, NormalizedState(a.label, a.matched), worker[w].oid, a.matched)

-----------------------------------------------------------------------------
(* Status refresh *)

RefreshStart(w, l) ==
    /\ worker[w] = Idle
    /\ entry[l].gen # 0 /\ entry[l].oid # NoOrder
    /\ Begin(w, "refresh", "waiting", l)
    /\ UNCHANGED <<entry, ownerOf, lastGen, venue, wire, posts>>

\* A status may trail the matches it should report, never run ahead of them.
Reports(o) == [what : {"order"}, label : {venue[o].label}, matched : 0..venue[o].matched]

ObservedState(current, st, stale) ==
    CASE stale \/ current = "FILLED" -> current
      [] ~stale /\ current \in Terminal \ {"FILLED"} /\ st \notin Terminal -> current
      [] ~stale /\ current \in Terminal \ {"FILLED"} /\ st \in Terminal -> st
      [] ~stale /\ current \notin Terminal -> st

\* observe_status: the payload is applied to the row as it is now, not as it was
\* when the request left. (A PARTIALLY_FILLED row and a WORKING status: stale.)
ObserveStatus(w) ==
    LET l == worker[w].l
        a == worker[w].answer
        st == ObservedState(entry[l].state, NormalizedState(a.label, a.matched),
                            a.matched < entry[l].filled)
    IN /\ At(w, "refresh", "answered")
       /\ IF Current(w) /\ entry[l].oid = worker[w].oid
          THEN SetWorking(l, st, worker[w].oid, a.matched, entry[l].submitted, entry[l].recon)
          ELSE UNCHANGED <<entry, ownerOf>>
       /\ Finish(w)
       /\ UNCHANGED <<lastGen, venue, wire, posts>>

-----------------------------------------------------------------------------
(* Cancellation *)

CancelStart(w, l) ==
    /\ worker[w] = Idle
    /\ entry[l].gen # 0 /\ entry[l].state \notin Terminal /\ entry[l].oid # NoOrder
    /\ SetWorking(l, "CANCEL_REQUESTED", NoOrder, 0, entry[l].submitted, entry[l].recon)
    /\ Begin(w, "cancel", "waiting", l)
    /\ UNCHANGED <<lastGen, venue, wire, posts>>

\* The transport raised. For an error that is not a ClobTransportError the code
\* does not compare generations (a row without an order id then fails validation).
CancelFails(w) ==
    LET l == worker[w].l
        unguarded == ~TransportWraps /\ entry[l].gen # 0 /\ entry[l].oid # NoOrder
    IN /\ At(w, "cancel", "waiting")
       /\ IF Current(w) \/ unguarded
          THEN SetWorking(l, "CANCEL_UNKNOWN", NoOrder, 0, entry[l].submitted, entry[l].recon)
          ELSE UNCHANGED <<entry, ownerOf>>
       /\ Finish(w)
       /\ UNCHANGED <<lastGen, venue, wire, posts>>

\* Mutant: a cancel call that returned at all has cancelled the order.
CancelledOnReturn(a) == "CANCELLED"

CancelledState(a) ==
    LET st == NormalizedState(a.label, a.matched)
    IN IF a.what = "ack" THEN "CANCELLED"
       ELSE IF st \in Terminal THEN st ELSE "CANCEL_UNKNOWN"

CancelReturns(w) ==
    LET l == worker[w].l
        a == worker[w].answer
    IN /\ At(w, "cancel", "answered")
       /\ IF Current(w)
          THEN SetWorking(l, CancelledState(a), worker[w].oid, a.matched,
                          entry[l].submitted, entry[l].recon)
          ELSE UNCHANGED <<entry, ownerOf>>
       /\ Finish(w)
       /\ UNCHANGED <<lastGen, venue, wire, posts>>

-----------------------------------------------------------------------------
(* Reconciliation handoff *)

\* One reconciliation task per lifecycle generation; the order id is read first.
ReconcileStart(w, l) ==
    /\ worker[w] = Idle
    /\ entry[l].gen # 0
    /\ \A v \in Worker : ~(worker[v].kind = "reconcile" /\ worker[v].l = l
                                                        /\ worker[v].gen = entry[l].gen)
    /\ Begin(w, "reconcile", "started", l)
    /\ UNCHANGED <<entry, ownerOf, lastGen, venue, wire, posts>>

MarkReconciling(w) ==
    LET l == worker[w].l IN
    /\ At(w, "reconcile", "started")
    /\ IF Current(w)
       THEN /\ IF entry[l].state \in Terminal THEN UNCHANGED <<entry, ownerOf>>
               ELSE SetWorking(l, "RECONCILING", NoOrder, 0, entry[l].submitted, entry[l].recon)
            /\ worker' = [worker EXCEPT ![w].pc = "waiting"]
       ELSE UNCHANGED <<entry, ownerOf>> /\ Finish(w)
    /\ UNCHANGED <<lastGen, venue, wire, posts>>

Outcome(a) ==
    CASE a.what = "zero" -> "ZERO"
      [] a.what = "noOid" -> "AMBIGUOUS"
      [] a.what \in {"order", "unread"} /\ a.matched >= Size -> "FILLED"
      [] a.what \in {"order", "unread"} /\ a.matched \in 1..(Size - 1) -> "PARTIALLY_FILLED"
      [] a.what = "order" /\ a.matched = 0 /\ a.label = "LIVE" -> "WORKING"
      [] OTHER -> "AMBIGUOUS"

ReconciledState(e, a) ==
    LET out == Outcome(a)
        st == NormalizedState(a.label, a.matched)
    IN CASE out = "FILLED" -> "FILLED"
         [] out = "PARTIALLY_FILLED" ->
              IF a.what = "order" /\ st \in {"CANCELLED", "REJECTED"} THEN st
              ELSE IF e.state \in {"CANCELLED", "REJECTED", "FAILED"} THEN e.state
              ELSE "PARTIALLY_FILLED"
         [] out = "WORKING" -> IF e.filled > 0 THEN "PARTIALLY_FILLED" ELSE "WORKING"
         [] out = "ZERO" -> st
         [] out = "AMBIGUOUS" ->
              IF e.state \in {"CANCEL_REQUESTED", "CANCEL_UNKNOWN"} THEN "CANCEL_UNKNOWN"
              ELSE "RECONCILING"

\* apply_reconciliation: a stale generation, or a zero verdict against a known
\* fill, is rejected and leaves the row alone.
ApplyReconciliation(w) ==
    LET l == worker[w].l
        a == worker[w].answer
        zero == Outcome(a) = "ZERO"
    IN /\ At(w, "reconcile", "answered")
       /\ IF Current(w) /\ ~(zero /\ entry[l].filled > 0)
          THEN SetWorking(l, ReconciledState(entry[l], a), worker[w].oid, a.matched,
                          entry[l].submitted, IF zero THEN "zero" ELSE "other")
          ELSE UNCHANGED <<entry, ownerOf>>
       /\ Finish(w)
       /\ UNCHANGED <<lastGen, venue, wire, posts>>

-----------------------------------------------------------------------------
(* The venue and what travels to and from it (external) *)

VenueUnchanged == UNCHANGED <<entry, ownerOf, lastGen, posts>>

\* A POST may be decided long after the client gave up on it.
VenueAccept(i, o) ==
    /\ i \in wire /\ venue[o].label = "NONE"
    /\ wire' = wire \ {i}
    /\ venue' = [venue EXCEPT ![o] = [label |-> "LIVE", matched |-> 0, l |-> i[1], gen |-> i[2]]]
    /\ UNCHANGED worker /\ VenueUnchanged

VenueRefuse(i) ==
    /\ i \in wire
    /\ wire' = wire \ {i}
    /\ UNCHANGED <<worker, venue>> /\ VenueUnchanged

VenueMatch(o) ==
    /\ venue[o].label = "LIVE"
    /\ venue' = [venue EXCEPT ![o].matched = @ + 1,
                              ![o].label = IF venue[o].matched + 1 = Size THEN "MATCHED" ELSE "LIVE"]
    /\ UNCHANGED <<worker, wire>> /\ VenueUnchanged

\* A cancel request that landed, in time or late, or an expiry; or a rejection.
VenueCancel(o) ==
    /\ venue[o].label = "LIVE"
    /\ venue' = [venue EXCEPT ![o].label = "CANCELED"]
    /\ UNCHANGED <<worker, wire>> /\ VenueUnchanged

VenueReject(o) ==
    /\ venue[o].label = "LIVE" /\ venue[o].matched = 0
    /\ venue' = [venue EXCEPT ![o].label = "INVALID"]
    /\ UNCHANGED <<worker, wire>> /\ VenueUnchanged

Answered(w, o, a) ==
    /\ worker' = [worker EXCEPT ![w].pc = "answered", ![w].oid = o, ![w].answer = a]
    /\ UNCHANGED <<venue, wire>> /\ VenueUnchanged

BelongsTo(o, w) == venue[o].l = worker[w].l /\ venue[o].gen = worker[w].gen

SubmitReply(w) == /\ At(w, "submit", "waiting")
                  /\ \E o \in OrderId : /\ venue[o].label # "NONE" /\ BelongsTo(o, w)
                                        /\ \E a \in Reports(o) : Answered(w, o, a)

StatusReply(w) == /\ worker[w].kind \in {"refresh", "cancel"} /\ worker[w].pc = "waiting"
                  /\ \E a \in Reports(worker[w].oid) : Answered(w, worker[w].oid, a)

\* No usable answer: get_order returned nothing, or the payload names another
\* order and is refused with a LifecycleConflict; nothing is written.
NoStatus(w) == /\ worker[w].kind \in {"refresh", "cancel"} /\ worker[w].pc = "waiting"
               /\ Finish(w)
               /\ UNCHANGED <<venue, wire>> /\ VenueUnchanged

CancelAck(w) ==
    /\ At(w, "cancel", "waiting")
    /\ venue[worker[w].oid].label = "CANCELED"
    /\ \E a \in Reports(worker[w].oid) : Answered(w, worker[w].oid, [a EXCEPT !.what = "ack"])

\* The order a reconciliation gathers evidence about: the row's own order id, or
\* the one the venue-specific locator comes up with.
Located(w) == IF worker[w].oid # NoOrder THEN {worker[w].oid}
              ELSE {o \in OrderId : /\ venue[o].label # "NONE"
                                    /\ LocatorExact => BelongsTo(o, w)}

\* Terminal-zero evidence is sound: the order is over at the venue, unmatched.
Evidence(o) ==
    Reports(o)
    \cup [what : {"unread"}, label : {"NONE"}, matched : 0..venue[o].matched]
    \cup (IF venue[o].label \in {"CANCELED", "INVALID"} /\ venue[o].matched = 0
          THEN [what : {"zero"}, label : {venue[o].label}, matched : {0}] ELSE {})

EvidenceReply(w) ==
    /\ At(w, "reconcile", "waiting")
    /\ \/ \E o \in Located(w) : \E a \in Evidence(o) : Answered(w, o, a)
       \/ /\ worker[w].oid = NoOrder
          /\ Answered(w, NoOrder, [NoAnswer EXCEPT !.what = "noOid"])

-----------------------------------------------------------------------------
Registry == \E l \in Lifecycle :
                \/ \E g \in Generation : Create(l, g) \/ Supersede(l, g)
                \/ ReleaseTerminalZero(l)

Start(w) == \E l \in Lifecycle : \/ SubmitStart(w, l) \/ RefreshStart(w, l)
                                 \/ CancelStart(w, l) \/ ReconcileStart(w, l)

Continue(w) == \/ SubmitDenied(w) \/ RawEnter(w) \/ ObserverFails(w) \/ SendPost(w)
               \/ SubmitAmbiguous(w) \/ SubmitConfirmed(w) \/ ObserveStatus(w)
               \/ CancelFails(w) \/ CancelReturns(w)
               \/ MarkReconciling(w) \/ ApplyReconciliation(w)

Reply(w) == SubmitReply(w) \/ StatusReply(w) \/ NoStatus(w) \/ CancelAck(w) \/ EvidenceReply(w)

Venue == \/ \E i \in wire : VenueRefuse(i) \/ \E o \in OrderId : VenueAccept(i, o)
         \/ \E o \in OrderId : VenueMatch(o) \/ VenueCancel(o) \/ VenueReject(o)

Next == \/ Registry \/ PruneReleased \/ Venue
        \/ \E w \in Worker : Start(w) \/ Continue(w) \/ Reply(w)

Spec == Init /\ [][Next]_vars

-----------------------------------------------------------------------------
(* Properties *)

\* Every variable keeps its type; the one type invariant of this module.
TypeOK == /\ entry \in [Lifecycle -> Entry]
          /\ ownerOf \in [OrderId -> Lifecycle \cup {NoLifecycle}]
          /\ lastGen \in [Lifecycle -> 0..MaxGeneration]
          /\ worker \in [Worker -> WorkerState]
          /\ venue \in [OrderId -> VenueOrder]
          /\ wire \in SUBSET Identity
          /\ posts \in [Identity -> Nat]

\* The identities for which the venue may still create, hold or have filled an
\* order: a POST about to leave, on the wire, an order resting or matched.
Exposed(l, g) ==
    \/ \E w \in Worker : At(w, "submit", "entered") /\ worker[w].l = l /\ worker[w].gen = g
    \/ <<l, g>> \in wire
    \/ \E o \in OrderId : /\ venue[o].l = l /\ venue[o].gen = g
                          /\ venue[o].label = "LIVE" \/ venue[o].matched > 0

\* One lifecycle generation receives at most one submission handoff, whatever
\* times out, is reconciled or is superseded in between.
OneHandoff == \A i \in Identity : posts[i] <= 1

\* A lifecycle never stands twice at the venue: no order is placed for a newer
\* generation while one of an older generation can still fill or has filled.
SingleExposure == \A l \in Lifecycle : \A g, h \in Generation :
                      Exposed(l, g) /\ Exposed(l, h) => g = h

\* What the venue may hold is never forgotten: the registry still has the row of
\* exactly that generation and knows that its POST was entered.
ExposureAccountable == \A l \in Lifecycle : \A g \in Generation :
                           Exposed(l, g) => entry[l].gen = g /\ entry[l].raw

\* While a POST is undecided or an order rests at the venue, its row owns the
\* lifecycle, so the duplicate-execution checks see it.
ExposureOwned == \A l \in Lifecycle : \A g \in Generation :
    (\/ <<l, g>> \in wire
     \/ \E o \in OrderId : venue[o].l = l /\ venue[o].gen = g /\ venue[o].label = "LIVE")
        => entry[l].gen = g /\ Owns(l)

\* The order-id index and the rows agree in both directions, and a row's order
\* id is the order the venue created for that very generation.
ExactAffinity ==
    /\ \A l \in Lifecycle : entry[l].oid # NoOrder =>
          /\ ownerOf[entry[l].oid] = l
          /\ venue[entry[l].oid].l = l /\ venue[entry[l].oid].gen = entry[l].gen
    /\ \A o \in OrderId : ownerOf[o] # NoLifecycle => entry[ownerOf[o]].oid = o

\* The order of this identity is over at the venue.
OverAtVenue(l, g) == \E o \in OrderId : /\ venue[o].l = l /\ venue[o].gen = g
                                        /\ venue[o].label \notin {"NONE", "LIVE"}

\* A row that says an order is over says so because the venue's order is over.
TerminalIsTrue == \A l \in Lifecycle :
    entry[l].gen # 0 /\ entry[l].raw /\ entry[l].state \in Terminal =>
        OverAtVenue(l, entry[l].gen)

\* A step that ends an operation of an older generation leaves every row alone.
StaleGenerationFrozen ==
    [][\A w \in Worker :
          (/\ worker[w] # Idle /\ worker'[w] = Idle
           /\ entry[worker[w].l].gen # worker[w].gen) => UNCHANGED <<entry, ownerOf>>]_vars

\* A fill, once known, stays: no release, supersession or late answer may lower
\* it or replace the row that owns it.
FillKept ==
    [][\A l \in Lifecycle : entry[l].filled > 0 =>
          entry'[l].gen = entry[l].gen /\ entry'[l].filled >= entry[l].filled]_vars

(* Statements of the documentation that the code does not keep; README.md, section 4. *)

\* A FILLED row is not reopened by a LIVE answer that was read before the fill.
FilledStaysClosed ==
    [][\A w \in Worker : LET l == worker[w].l IN
          worker[w].answer.label = "LIVE" /\ worker'[w] = Idle /\ entry[l].state = "FILLED"
              => entry'[l].state = "FILLED"]_vars

\* While a cancel request is in flight its row is not taken for a working one.
CancelIntentHolds == \A w \in Worker :
    At(w, "cancel", "waiting") /\ Current(w) => entry[worker[w].l].state # "WORKING"

\* A FILLED row owns its execution: a terminal label does not stand for zero fill.
FilledOwned == \A l \in Lifecycle : entry[l].state = "FILLED" => Owns(l)

\* No two rows hold the same order id, even if the locator names a foreign order.
ExclusiveOid == \A k, l \in Lifecycle :
    entry[k].oid # NoOrder /\ entry[k].oid = entry[l].oid => k = l

-----------------------------------------------------------------------------
(* The inductive invariants behind the theorems of OrderLifecycleProofs *)

\* Nothing refers to a generation that was never created.
KnownGenerations ==
    /\ \A l \in Lifecycle : entry[l].gen \in {0, lastGen[l]}
    /\ \A l \in Lifecycle : entry[l].gen = 0 => entry[l].filled = 0 /\ entry[l].oid = NoOrder
    /\ \A w \in Worker : worker[w].kind # "none" =>
          /\ worker[w].l \in Lifecycle /\ worker[w].gen \in Generation
          /\ worker[w].gen <= lastGen[worker[w].l]
          /\ worker[w].kind \in {"refresh", "cancel"} => worker[w].oid # NoOrder
    /\ \A i \in Identity : posts[i] > 0 => i[2] <= lastGen[i[1]]

\* A venue order is the result of a POST, and a live one is not fully matched.
VenueWellFormed ==
    /\ \A i \in wire : posts[i] > 0
    /\ \A o \in OrderId :
          /\ venue[o].label = "NONE" => venue[o] = Unassigned
          /\ venue[o].label # "NONE" => /\ venue[o].l \in Lifecycle
                                        /\ venue[o].gen \in Generation
                                        /\ posts[<<venue[o].l, venue[o].gen>>] > 0
          /\ venue[o].label = "LIVE" => venue[o].matched < Size

BeforePost(w) == worker[w].kind = "submit" /\ worker[w].pc \in {"started", "entered"}
Same(v, w) == worker[v].l = worker[w].l /\ worker[v].gen = worker[w].gen

\* A row still in CREATED has no thread before its POST, and no POST behind it.
HandoffInv ==
    /\ OneHandoff
    /\ \A w \in Worker : BeforePost(w) =>
          /\ posts[<<worker[w].l, worker[w].gen>>] = 0
          /\ entry[worker[w].l].gen = worker[w].gen => entry[worker[w].l].state # "CREATED"
    /\ \A v, w \in Worker : BeforePost(v) /\ BeforePost(w) /\ Same(v, w) => v = w
    /\ \A i \in Identity : posts[i] > 0 /\ entry[i[1]].gen = i[2] => entry[i[1]].state # "CREATED"

\* The order of this identity is over at the venue without a match.
ZeroAtVenue(l, g) == \E o \in OrderId : /\ venue[o].l = l /\ venue[o].gen = g
                                        /\ venue[o].label \in {"CANCELED", "INVALID"}
                                        /\ venue[o].matched = 0

\* One POST yields one order at most.
OneOrderPerPost ==
    /\ \A i \in wire : \A o \in OrderId : ~(venue[o].l = i[1] /\ venue[o].gen = i[2])
    /\ \A o, p \in OrderId :
          (/\ venue[o].label # "NONE" /\ venue[p].label # "NONE"
           /\ venue[o].l = venue[p].l /\ venue[o].gen = venue[p].gen) => o = p

\* Order id o, if any, is that of the venue's order for this identity.
Names(o, l, g) == o # NoOrder => venue[o].label # "NONE" /\ venue[o].l = l /\ venue[o].gen = g

\* Order ids, held by rows or carried by operations, name the order of that identity.
OidsExact == /\ \A l \in Lifecycle : Names(entry[l].oid, l, entry[l].gen)
             /\ \A w \in Worker : Names(worker[w].oid, worker[w].l, worker[w].gen)

\* A terminal-zero verdict, on its way to a row or recorded there, is the truth.
ZeroSound ==
    /\ \A l \in Lifecycle : entry[l].recon = "zero" => ZeroAtVenue(l, entry[l].gen)
    /\ \A w \in Worker : worker[w].answer.what = "zero" => ZeroAtVenue(worker[w].l, worker[w].gen)

ExposureInv == /\ KnownGenerations /\ VenueWellFormed /\ HandoffInv
               /\ OneOrderPerPost /\ OidsExact /\ ZeroSound /\ ExposureAccountable

\* An answer that reports its order as over.
Closes(a) == a.what = "ack" \/ NormalizedState(a.label, a.matched) \in Terminal

\* A closing answer on its way to a row is the truth; a row is open, and not yet
\* raw, while its own submission may still be denied.
TerminalInv ==
    /\ TerminalIsTrue
    /\ \A w \in Worker : Closes(worker[w].answer) => OverAtVenue(worker[w].l, worker[w].gen)
    /\ \A w \in Worker : At(w, "submit", "started") /\ Current(w) =>
          entry[worker[w].l].state \notin Terminal /\ ~entry[worker[w].l].raw

=============================================================================
