---------------------------- MODULE PermitLedger ----------------------------
(***************************************************************************)
(* From an admitted candidate to the raw POST: the engine's commit section *)
(* (src/engine.py), the one-shot permit ledger (src/strategy/admission.py),*)
(* its bridge to the transport (src/strategy/public_policy.py) and the     *)
(* thread that submits the order (order_lifecycle.py, clob_transport.py).  *)
(*                                                                         *)
(* A pipeline runs in the event loop and can be cancelled where it awaits; *)
(* the thread it has started cannot: it goes on while the commit lock is   *)
(* already given to the next pipeline.                                     *)
(*                                                                         *)
(* Simplifications:                                                        *)
(*  - a permit is its candidate, its time of issue and its expiry: the     *)
(*    rest of the envelope is a function of these;                         *)
(*  - what the policy and the quality measurement say of the market is a   *)
(*    free choice, at commit and again at the seal before the POST;        *)
(*  - every order creates exposure (one that reduces it needs no capacity);*)
(*    of the risk checks only those on execution owners are kept;          *)
(*  - a row is released only when no order is left at the venue, which is  *)
(*    what OrderLifecycle shows of the registry (ExposureOwned);           *)
(*  - rows are not pruned, and the clock does not go back.                 *)
(***************************************************************************)
EXTENDS Integers, FiniteSets

CONSTANTS
    Pipeline,        \* runs of the engine's commit section, each with a thread
    Candidate, Token,
    CandidateOf,     \* pipeline -> its candidate; two may have the same one
    TokenOf,         \* candidate -> the token of its order
    NoPipeline, NoPermit,
    MaxUnresolved,   \* limit on unresolved executions
    MaxActive,       \* entries of the ledger
    Ttl,             \* validity of a permit
    Keep,            \* how long pruning keeps consumed permits
    MaxTime          \* bound on the clock

ASSUME CandidateAssumption == /\ CandidateOf \in [Pipeline -> Candidate]
                              /\ TokenOf \in [Candidate -> Token]
ASSUME FiniteAssumption == IsFiniteSet(Candidate)
ASSUME NumberAssumption == /\ MaxUnresolved \in Nat /\ MaxActive \in Nat \ {0}
                           /\ Ttl \in Nat /\ Keep \in Nat /\ MaxTime \in Nat
ASSUME PipelineAssumption == NoPipeline \notin Pipeline

Time == 0..MaxTime
Permit == [cand : Candidate, issued : Time, expires : 0..(MaxTime + Ttl)]

ASSUME PermitAssumption == NoPermit \notin Permit

VARIABLES
    now,
    lock,       \* the pipeline that holds the portfolio commit lock
    slot,       \* the pipeline whose thread holds the transport slot
    pipe,       \* pipeline -> where it is and the permit of its authority
    thread,     \* pipeline -> where the thread that submits for it is
    active,     \* permits that are registered and not used
    indexed,    \* candidate -> the permit registered for it
    consumed,   \* permits the ledger remembers as used, with the time
    prepared,   \* permits bound to a submission and not used by its observer
    decisions,  \* every permit that an ALLOW decision ever carried (history)
    handoffs,   \* every successful consume: permit, pipeline, purpose (history)
    row,        \* candidate -> state of its lifecycle row
    wire,       \* candidate -> its order on the way to and at the venue
    posts       \* pipelines whose raw POST began (history)

ledger == <<active, indexed, consumed>>
history == <<decisions, handoffs>>
order == <<row, wire, posts>>
vars == <<now, lock, slot, pipe, thread, active, indexed, consumed, prepared,
          decisions, handoffs, row, wire, posts>>

PipeState == [pc : {"idle", "counting", "checking", "signing", "posting", "done"},
              permit : Permit \cup {NoPermit}]
ThreadState == {"none", "queued", "started", "waiting", "sealing", "counting",
                "checking", "entering", "authorised", "sent", "denied",
                "ambiguous", "confirmed", "returned", "raised"}
RowState == {"absent", "created", "submitting", "working", "unknown", "rejected",
             "closed"}
Consumption == [permit : Permit, at : Time]
Handoff == [permit : Permit, by : Pipeline, as : {"post", "retired"}, at : Time]

Init == /\ now = 0
        /\ lock = NoPipeline
        /\ slot = NoPipeline
        /\ pipe = [p \in Pipeline |-> [pc |-> "idle", permit |-> NoPermit]]
        /\ thread = [p \in Pipeline |-> "none"]
        /\ active = {}
        /\ indexed = [c \in Candidate |-> NoPermit]
        /\ consumed = {}
        /\ prepared = {}
        /\ decisions = {}
        /\ handoffs = {}
        /\ row = [c \in Candidate |-> "absent"]
        /\ wire = [c \in Candidate |-> "none"]
        /\ posts = {}

-----------------------------------------------------------------------------
(* The ledger *)

Expired(d) == now > d.expires
Remembered == {u.permit : u \in consumed}

\* A permit can be consumed while it is registered, unused and not expired.
Consumable(d) == d \in active \ Remembered /\ ~Expired(d)

\* The index without the permits of S.
Unindexed(index, S) == [c \in Candidate |-> IF index[c] \in S THEN NoPermit ELSE index[c]]

\* A consume by p: the permit moves from the active to the consumed.
Consume(p, d, as) ==
    /\ active' = active \ {d}
    /\ indexed' = Unindexed(indexed, {d})
    /\ consumed' = consumed \cup {[permit |-> d, at |-> now]}
    /\ handoffs' = handoffs \cup {[permit |-> d, by |-> p, as |-> as, at |-> now]}

\* bridge.prepare and register accept the permit of a decision.
Registrable(d) ==
    /\ ~Expired(d)
    /\ d \notin Remembered
    /\ d \notin prepared
    /\ LET prior == indexed[d.cand]
       IN  (prior # d /\ prior \in active) => Expired(prior)

\* Permits too many in A are dropped, the oldest first.
Overflow(A) == IF Cardinality(A) > MaxActive THEN Cardinality(A) - MaxActive ELSE 0
Evictable(A) == {S \in SUBSET A : /\ Cardinality(S) = Overflow(A)
                                  /\ \A old \in S, new \in A \ S : old.issued <= new.issued}

Register(d) ==
    \E S \in Evictable(active \cup {d}) :
        /\ active' = (active \cup {d}) \ S
        /\ indexed' = Unindexed([indexed EXCEPT ![d.cand] = d], S)
        /\ prepared' = prepared \cup {d}

\* AdmissionPermitLedger.prune, offered to the application.
ForgetsAll == consumed
Forgettable == {u \in consumed : now - u.at >= Keep}

Prune ==
    LET old == {d \in active : Expired(d)}
    IN  /\ old # {} \/ Forgettable # {}
        /\ active' = active \ old
        /\ indexed' = Unindexed(indexed, old)
        /\ consumed' = consumed \ Forgettable
        /\ UNCHANGED <<now, lock, slot, pipe, thread, prepared, history, order>>

-----------------------------------------------------------------------------
(* Risk: execution owners, read by the commit section and by the seal *)

OnlyWorking == {"submitting", "working"}
Unresolved == {"submitting", "working", "unknown"}
OthersThan(c) == {d \in Candidate \ {c} : row[d] \in Unresolved}

\* RiskManager.assess reads the owners twice, first for their number and then
\* for those of the token. At commit, the own row is not excluded.
CapacityForOneMore(owners) == Cardinality(owners) <= MaxUnresolved
CapacityBeside(owners) == Cardinality(owners) < MaxUnresolved
TokenFreeFor(c, owners) == \A d \in owners : TokenOf[d] # TokenOf[c]

Owners(c) == IF row[c] \in Unresolved THEN OthersThan(c) \cup {c} ELSE OthersThan(c)

-----------------------------------------------------------------------------
(* The pipeline, in the event loop *)

\* The commit section is left without an authority, by a return or an error.
LeaveCommit(p) ==
    /\ lock' = NoPipeline
    /\ pipe' = [pipe EXCEPT ![p].pc = "done"]

EnterCommit(p) ==
    /\ lock = NoPipeline
    /\ pipe[p].pc = "idle"
    /\ lock' = p
    /\ pipe' = [pipe EXCEPT ![p].pc = "counting"]
    /\ UNCHANGED <<now, slot, thread, ledger, prepared, history, order>>

\* The market has moved on, the number of owners or the policy denies.
NotAdmitted(p) ==
    /\ pipe[p].pc \in {"counting", "checking"}
    /\ LeaveCommit(p)
    /\ UNCHANGED <<now, slot, thread, ledger, prepared, history, order>>

CountOwners(p) ==
    /\ pipe[p].pc = "counting"
    /\ CapacityBeside(Owners(CandidateOf[p]))
    /\ pipe' = [pipe EXCEPT ![p].pc = "checking"]
    /\ UNCHANGED <<now, lock, slot, thread, ledger, prepared, history, order>>

\* prepare binds the permit of an ALLOW decision, or raises.
Prepare(p, d) ==
    /\ decisions' = decisions \cup {d}
    /\ UNCHANGED <<now, slot, thread, consumed, handoffs, order>>
    /\ \/ /\ Registrable(d)
          /\ Register(d)
          /\ pipe' = [pipe EXCEPT ![p].pc = "signing", ![p].permit = d]
          /\ UNCHANGED lock
       \/ /\ ~Registrable(d)
          /\ LeaveCommit(p)
          /\ UNCHANGED <<active, indexed, prepared>>

\* A fresh decision: its permit ends with the candidate's validity, if earlier.
Admit(p) ==
    /\ pipe[p].pc = "checking"
    /\ TokenFreeFor(CandidateOf[p], Owners(CandidateOf[p]))
    /\ \E e \in now..(now + Ttl) :
           Prepare(p, [cand |-> CandidateOf[p], issued |-> now, expires |-> e])

\* prepare takes any ALLOW decision: a caller may present one that it kept.
AdmitKept(p) ==
    /\ pipe[p].pc = "checking"
    /\ TokenFreeFor(CandidateOf[p], Owners(CandidateOf[p]))
    /\ \E d \in decisions : d.cand = CandidateOf[p] /\ Prepare(p, d)

\* The order is signed; its row is created, unless the candidate has one.
Launch(p) ==
    /\ pipe[p].pc = "signing"
    /\ pipe' = [pipe EXCEPT ![p].pc = "posting"]
    /\ thread' = [thread EXCEPT ![p] = "queued"]
    /\ row' = [row EXCEPT ![CandidateOf[p]] = IF @ = "absent" THEN "created" ELSE @]
    /\ UNCHANGED <<now, lock, slot, ledger, prepared, history, wire, posts>>

\* A permit that was not used is consumed, so that nobody can use it later; one
\* that is gone or expired is left alone.
RetireNothing(p) == UNCHANGED <<ledger, handoffs>>
Retire(p) ==
    LET d == pipe[p].permit
    IN  \/ Consumable(d) /\ Consume(p, d, "retired")
        \/ ~Consumable(d) /\ UNCHANGED <<ledger, handoffs>>

\* Signing fails: there is no order and no row.
SignFails(p) ==
    /\ pipe[p].pc = "signing"
    /\ Retire(p)
    /\ LeaveCommit(p)
    /\ UNCHANGED <<now, slot, thread, prepared, decisions, order>>

\* The thread has returned a result or raised.
Ended == {"returned", "raised"}

Collect(p) ==
    /\ pipe[p].pc = "posting"
    /\ thread[p] \in Ended
    /\ Retire(p)
    /\ LeaveCommit(p)
    /\ UNCHANGED <<now, slot, thread, prepared, decisions, order>>

\* Cancelling withdraws a call that no thread has picked up yet, no other.
Cancel(p) ==
    /\ pipe[p].pc \in {"signing", "posting"}
    /\ Retire(p)
    /\ LeaveCommit(p)
    /\ thread' = [thread EXCEPT ![p] = IF @ = "queued" THEN "none" ELSE @]
    /\ UNCHANGED <<now, slot, prepared, decisions, order>>

-----------------------------------------------------------------------------
(* The thread: OrderLifecycleService.submit and the transport below it *)

Goto(p, pc) == thread' = [thread EXCEPT ![p] = pc]

PickUp(p) ==
    /\ thread[p] = "queued"
    /\ Goto(p, "started")
    /\ UNCHANGED <<now, lock, slot, pipe, ledger, prepared, history, order>>

\* A row takes one handoff; a second one is a LifecycleConflict.
TakesHandoffAgain(c) == row[c] \notin Unresolved
TakesHandoff(c) == row[c] = "created"

SubmitStart(p) ==
    /\ thread[p] = "started"
    /\ \/ /\ TakesHandoff(CandidateOf[p])
          /\ row' = [row EXCEPT ![CandidateOf[p]] = "submitting"]
          /\ Goto(p, "waiting")
       \/ /\ ~TakesHandoff(CandidateOf[p])
          /\ Goto(p, "raised")
          /\ UNCHANGED row
    /\ UNCHANGED <<now, lock, slot, pipe, ledger, prepared, history, wire, posts>>

AcquireSlot(p) ==
    /\ thread[p] = "waiting"
    /\ slot = NoPipeline
    /\ slot' = p
    /\ Goto(p, "sealing")
    /\ UNCHANGED <<now, lock, pipe, ledger, prepared, history, order>>

\* PermitPreSubmitValidator: the permit is still active.
PermitSealed(p) ==
    /\ thread[p] = "sealing"
    /\ pipe[p].permit \in active /\ ~Expired(pipe[p].permit)
    /\ Goto(p, "counting")
    /\ UNCHANGED <<now, lock, slot, pipe, ledger, prepared, history, order>>

\* EnginePreSubmitValidator: the owners again, without the own row.
RecountOwners(p) ==
    /\ thread[p] = "counting"
    /\ CapacityBeside(OthersThan(CandidateOf[p]))
    /\ Goto(p, "checking")
    /\ UNCHANGED <<now, lock, slot, pipe, ledger, prepared, history, order>>

EvidenceSealed(p) ==
    /\ thread[p] = "checking"
    /\ TokenFreeFor(CandidateOf[p], OthersThan(CandidateOf[p]))
    /\ Goto(p, "entering")
    /\ UNCHANGED <<now, lock, slot, pipe, ledger, prepared, history, order>>

\* The call leaves the transport slot, before the row says how it ended.
LeaveWithSlot(p, outcome) == Goto(p, outcome) /\ UNCHANGED slot
Leave(p, outcome) == Goto(p, outcome) /\ slot' = NoPipeline

\* Either validator denies: the permit is gone, an owner is in the way, or the
\* evidence no longer admits the candidate.
Denied(p) ==
    /\ thread[p] \in {"sealing", "counting", "checking"}
    /\ Leave(p, "denied")
    /\ UNCHANGED <<now, lock, pipe, ledger, prepared, history, order>>

\* A failing observer does not keep the POST from going out.
EnterRegardless(p) ==
    /\ thread[p] = "entering"
    /\ LET d == pipe[p].permit
       IN  \/ /\ Consumable(d)
              /\ Consume(p, d, "post")
              /\ prepared' = prepared \ {d}
           \/ /\ ~Consumable(d)
              /\ UNCHANGED <<ledger, handoffs, prepared>>
    /\ Goto(p, "authorised")
    /\ UNCHANGED <<now, lock, slot, pipe, decisions, row, wire, posts>>

\* The row's flag is set and the permit consumed, or the observer raises: the
\* flag then makes the outcome ambiguous although no POST goes out.
EnterRawPost(p) ==
    /\ thread[p] = "entering"
    /\ LET d == pipe[p].permit
       IN  \/ /\ Consumable(d)
              /\ Consume(p, d, "post")
              /\ prepared' = prepared \ {d}
              /\ Goto(p, "authorised")
              /\ UNCHANGED slot
           \/ /\ ~Consumable(d)
              /\ Leave(p, "ambiguous")
              /\ UNCHANGED <<ledger, handoffs, prepared>>
    /\ UNCHANGED <<now, lock, pipe, decisions, order>>

RawPost(p) ==
    /\ thread[p] = "authorised"
    /\ wire' = [wire EXCEPT ![CandidateOf[p]] = "out"]
    /\ posts' = posts \cup {p}
    /\ Goto(p, "sent")
    /\ UNCHANGED <<now, lock, slot, pipe, ledger, prepared, history, row>>

\* The POST is answered with an order id, or its outcome stays unknown.
PostReturns(p) ==
    /\ thread[p] = "sent"
    /\ \/ wire[CandidateOf[p]] # "out" /\ Leave(p, "confirmed")
       \/ Leave(p, "ambiguous")
    /\ UNCHANGED <<now, lock, pipe, ledger, prepared, history, order>>

\* The outcome is written to the row.
RowAfter == [denied |-> "rejected", ambiguous |-> "unknown", confirmed |-> "working"]

Record(p) ==
    /\ thread[p] \in DOMAIN RowAfter
    /\ row' = [row EXCEPT ![CandidateOf[p]] = RowAfter[thread[p]]]
    /\ Goto(p, "returned")
    /\ UNCHANGED <<now, lock, slot, pipe, ledger, prepared, history, wire, posts>>

-----------------------------------------------------------------------------
(* The venue, what is learnt from it, and time *)

VenueAccepts(c) == /\ wire[c] = "out"
                   /\ wire' = [wire EXCEPT ![c] = "live"]
                   /\ UNCHANGED <<now, lock, slot, pipe, thread, ledger, prepared,
                                  history, row, posts>>

VenueEnds(c) == /\ wire[c] \in {"out", "live"}
                /\ wire' = [wire EXCEPT ![c] = "gone"]
                /\ UNCHANGED <<now, lock, slot, pipe, thread, ledger, prepared,
                               history, row, posts>>

\* A status or a reconciliation proves that nothing is left at the venue.
Resolved(c) == /\ row[c] \in {"working", "unknown"}
               /\ wire[c] = "gone"
               /\ row' = [row EXCEPT ![c] = "closed"]
               /\ UNCHANGED <<now, lock, slot, pipe, thread, ledger, prepared,
                              history, wire, posts>>

Tick == /\ now < MaxTime
        /\ now' = now + 1
        /\ UNCHANGED <<lock, slot, pipe, thread, ledger, prepared, history, order>>

-----------------------------------------------------------------------------
Commit(p) == \/ EnterCommit(p) \/ NotAdmitted(p) \/ CountOwners(p)
             \/ Admit(p) \/ AdmitKept(p) \/ Launch(p) \/ SignFails(p)
             \/ Collect(p) \/ Cancel(p)

Submit(p) == \/ PickUp(p) \/ SubmitStart(p) \/ AcquireSlot(p) \/ PermitSealed(p)
             \/ RecountOwners(p) \/ EvidenceSealed(p) \/ Denied(p)
             \/ EnterRawPost(p) \/ RawPost(p) \/ PostReturns(p) \/ Record(p)

Outside == \/ \E c \in Candidate : VenueAccepts(c) \/ VenueEnds(c) \/ Resolved(c)
           \/ Prune \/ Tick

Next == \/ \E p \in Pipeline : Commit(p) \/ Submit(p)
        \/ Outside

Spec == Init /\ [][Next]_vars

\* The commit section runs on when it can, signing ends, a running thread gets
\* on, and the SDK has timeouts; nothing is cancelled or pruned for sure.
Progress(p) == \/ CountOwners(p) \/ NotAdmitted(p) \/ Admit(p)
               \/ Launch(p) \/ SignFails(p) \/ Collect(p) \/ Submit(p)
FairSpec == Spec /\ \A p \in Pipeline : WF_vars(Progress(p))

-----------------------------------------------------------------------------
(* Properties *)

\* Types; the ledger keeps its bound and indexes only what it holds.
TypeOK ==
    /\ now \in Time
    /\ lock \in Pipeline \cup {NoPipeline} /\ slot \in Pipeline \cup {NoPipeline}
    /\ pipe \in [Pipeline -> PipeState]
    /\ thread \in [Pipeline -> ThreadState]
    /\ active \subseteq Permit /\ Cardinality(active) <= MaxActive
    /\ indexed \in [Candidate -> active \cup {NoPermit}]
    /\ consumed \subseteq Consumption
    /\ prepared \subseteq Permit /\ decisions \subseteq Permit
    /\ handoffs \subseteq Handoff
    /\ row \in [Candidate -> RowState]
    /\ wire \in [Candidate -> {"none", "out", "live", "gone"}]
    /\ posts \subseteq Pipeline

\* A permit is used at most once, for a POST or for its retirement, also when
\* pruning has made the ledger forget it and somebody presents it again.
ConsumedOnce == \A g, h \in handoffs : g.permit = h.permit => g = h

\* The only authority to post is that of the pipeline in the commit section:
\* return, failure and cancellation leave no usable permit behind.
AuthorityCommitted ==
    \A d \in active : Expired(d) \/ /\ lock # NoPipeline
                                    /\ pipe[lock].pc \in {"signing", "posting"}
                                    /\ pipe[lock].permit = d

\* A raw POST has consumed its own permit, in time; by ConsumedOnce, a permit
\* that was retired when its pipeline was cancelled never comes to a POST.
PostAuthorised ==
    \A p \in posts : \E h \in handoffs : /\ h.permit = pipe[p].permit
                                         /\ h.by = p /\ h.as = "post"
                                         /\ h.at <= h.permit.expires

\* A candidate is posted once, however often it is generated and committed.
OnePostPerCandidate ==
    \A p, q \in posts : CandidateOf[p] = CandidateOf[q] => p = q

\* Candidates whose orders are, or may come to be, at the venue.
Exposing == {c \in Candidate : wire[c] \in {"out", "live"}}

\* Two orders are never out for one token, although the commit lock is given on
\* while a thread of the last, cancelled pipeline is still posting.
OneOrderPerToken ==
    \A c, d \in Exposing : TokenOf[c] = TokenOf[d] => c = d

\* No more orders are out than the limit on unresolved executions allows.
WithinLimit == Cardinality(Exposing) <= MaxUnresolved

\* The candidates of the threads between the observer and the POST.
Cleared == {CandidateOf[p] : p \in {q \in Pipeline : thread[q] = "authorised"}}

\* Orders go out as Submission promises: every consume is a use of a permit.
Promised == INSTANCE Submission
                WITH Use <- Handoff, uses <- handoffs, cleared <- Cleared

\* Whatever is cancelled, evicted, pruned or presented again, the orders and the
\* permits behind them are those of a sequence of the steps of Submission.
SubmitsAsPromised == Promised!Spec

\* The commit lock is released by every pipeline that took it, so no order that
\* waits for an answer or for the transport slot stops the others for ever.
CommitReleased == \A p \in Pipeline : lock = p ~> lock # p

=============================================================================
