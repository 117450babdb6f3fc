------------------------ MODULE OrderLifecycleProofs ------------------------
(***************************************************************************)
(* Theorems about the lifecycle registry, for every set of lifecycles,     *)
(* order ids and workers, every size and every bound on generations:       *)
(*  - every variable keeps its type (TypeCorrect);                         *)
(*  - one handoff per generation (OneHandoffHolds);                        *)
(*  - no exposure that the registry has forgotten and never two at once    *)
(*    (ExposureHolds, SingleExposureHolds);                                *)
(*  - no fill lost (FillKeptHolds), no row touched by an operation of an   *)
(*    older generation (StaleGenerationFrozenHolds);                       *)
(*  - no row closed before its order is over (TerminalIsTrueHolds, and     *)
(*    with it ExposureOwnedHolds), and an exact order-id index             *)
(*    (ExactAffinityHolds).                                                *)
(*                                                                         *)
(* The steps of the specification fall into a few classes: an operation    *)
(* begins or ends (and at most rewrites its own row, see RowStep), rows    *)
(* are installed or dropped, the venue moves, an answer arrives.  Each     *)
(* invariant is proved per class.                                          *)
(***************************************************************************)
EXTENDS OrderLifecycle, TLAPS

\* What _set_working can do to the row of l: generation and raw flag stay, the
\* state never goes back to CREATED, fills never shrink, a new order id is o, and
\* a terminal-zero verdict is recorded only if z.
RowStep(l, o, z) ==
    \E e \in Entry :
        /\ entry' = [entry EXCEPT ![l] = e]
        /\ entry[l].gen # 0 /\ e.gen = entry[l].gen /\ e.raw = entry[l].raw
        /\ e.state # "CREATED" \/ e.state = entry[l].state
        /\ e.filled >= entry[l].filled
        /\ e.oid = entry[l].oid \/ (o # NoOrder /\ e.oid = o)
        /\ e.recon = "zero" => entry[l].recon = "zero" \/ z

OwnerTyped == ownerOf' \in [OrderId -> Lifecycle \cup {NoLifecycle}]

\* An operation ends; a row is written for the current generation only, except
\* that an unwrapped cancel error writes no order id and no verdict.
EndStep(w) ==
    /\ worker[w].kind # "none"
    /\ worker' = [worker EXCEPT ![w] = Idle]
    /\ \/ entry' = entry
       \/ Current(w) /\ RowStep(worker[w].l, worker[w].oid, worker[w].answer.what = "zero")
       \/ RowStep(worker[w].l, NoOrder, FALSE)
    /\ OwnerTyped
    /\ UNCHANGED <<lastGen, venue, wire, posts>>

\* An operation begins on the row of l, which carries its order id.
BeginStep(w, l) ==
    /\ worker[w] = Idle /\ entry[l].gen # 0
    /\ \E k \in {"submit", "cancel", "refresh", "reconcile"}, pc \in {"started", "waiting"} :
          /\ Begin(w, k, pc, l)
          /\ k = "submit" => /\ entry[l].state = "CREATED" /\ entry'[l].state # "CREATED"
                             /\ ~entry[l].raw
          /\ k \in {"refresh", "cancel"} => entry[l].oid # NoOrder
    /\ entry' = entry \/ RowStep(l, NoOrder, FALSE)
    /\ OwnerTyped
    /\ UNCHANGED <<lastGen, venue, wire, posts>>

\* A reconciliation announces itself on the row and goes on.
MarkStep(w) ==
    /\ At(w, "reconcile", "started") /\ worker' = [worker EXCEPT ![w].pc = "waiting"]
    /\ entry' = entry \/ RowStep(worker[w].l, NoOrder, FALSE)
    /\ OwnerTyped
    /\ UNCHANGED <<lastGen, venue, wire, posts>>

-----------------------------------------------------------------------------
(* What the helpers of the registry return *)

\* Every venue payload has a lifecycle state, and never CREATED.
LEMMA NormalizedStateType ==
    ASSUME NEW label \in Label, NEW matched \in 0..Size
    PROVE  NormalizedState(label, matched) \in State \ {"CREATED"}
<1>1. matched < Size \/ matched >= Size
  BY SizesAssumption
<1>2. matched > 0 \/ matched = 0
  BY SizesAssumption
<1>. QED BY <1>1, <1>2, SizesAssumption DEF NormalizedState, Label, State, Terminal, MayOwnLiveOrder

\* _set_working never leaves the shape of RowStep.
LEMMA SetWorkingStep ==
    ASSUME TypeOK, NEW l \in Lifecycle, entry[l].gen # 0,
           NEW st \in State, st # "CREATED" \/ st = entry[l].state,
           NEW o \in OrderId \cup {NoOrder}, NEW f \in 0..Size,
           NEW sub \in BOOLEAN, NEW rec \in {"none", "zero", "other"},
           SetWorking(l, st, o, f, sub, rec)
    PROVE  /\ entry' = entry \/ RowStep(l, o, rec = "zero")
           /\ ~OidConflict(l, o) => entry'[l].state = st
           /\ OwnerTyped
<1> DEFINE row == [entry[l] EXCEPT !.state = st, !.oid = NextOid(l, o),
                                   !.filled = Larger(entry[l].filled, f)]
           done == [row EXCEPT !.submitted = sub, !.recon = rec]
<1>1. entry[l] \in Entry /\ ownerOf \in [OrderId -> Lifecycle \cup {NoLifecycle}]
  BY DEF TypeOK
<1>2. NextOid(l, o) \in OrderId \cup {NoOrder}
  BY <1>1 DEF NextOid, Entry
<1>3. Larger(entry[l].filled, f) \in 0..Size /\ Larger(entry[l].filled, f) >= entry[l].filled
  BY <1>1, SizesAssumption DEF Larger, Entry
<1>4. row \in Entry /\ done \in Entry
  BY <1>1, <1>2, <1>3 DEF Entry
<1>5. CASE OidConflict(l, o)
  BY <1>5, <1>1 DEF SetWorking, OwnerTyped
<1>6. CASE ~OidConflict(l, o) /\ ForeignOwner(l, o)
  <2>1. entry' = [entry EXCEPT ![l] = row] /\ ownerOf' = ownerOf
    BY <1>6 DEF SetWorking
  <2>2. row.gen = entry[l].gen /\ row.raw = entry[l].raw /\ row.state = st
        /\ row.filled >= entry[l].filled /\ row.recon = entry[l].recon
        /\ row.oid = NextOid(l, o)
    BY <1>1, <1>3 DEF Entry
  <2>3. entry'[l].state = st
    BY <2>1, <2>2 DEF TypeOK
  <2>. QED BY <2>1, <2>2, <2>3, <1>1, <1>4 DEF RowStep, OwnerTyped, NextOid
<1>7. CASE ~OidConflict(l, o) /\ ~ForeignOwner(l, o)
  <2>1. entry' = [entry EXCEPT ![l] = done]
    BY <1>7 DEF SetWorking
  <2>2. done.gen = entry[l].gen /\ done.raw = entry[l].raw /\ done.state = st
        /\ done.filled >= entry[l].filled /\ done.recon = rec
        /\ done.oid = NextOid(l, o)
    BY <1>1, <1>3 DEF Entry
  <2>3. OwnerTyped
    BY <1>7, <1>1, <1>2 DEF SetWorking, OwnerTyped
  <2>4. entry'[l].state = st
    BY <2>1, <2>2 DEF TypeOK
  <2>. QED BY <2>1, <2>2, <2>3, <2>4, <1>4 DEF RowStep, NextOid
<1>. QED BY <1>5, <1>6, <1>7

-----------------------------------------------------------------------------
(* Which actions belong to which class *)

\* The parts of a worker in the middle of an operation.
LEMMA WorkerType ==
    ASSUME TypeOK, KnownGenerations, NEW w \in Worker, worker[w].kind # "none"
    PROVE  /\ worker[w].l \in Lifecycle /\ worker[w].gen \in Generation
           /\ worker[w].gen # 0
           /\ worker[w].oid \in OrderId \cup {NoOrder}
           /\ worker[w].answer \in Answer
           /\ worker[w].answer.label \in Label /\ worker[w].answer.matched \in 0..Size
           /\ entry[worker[w].l] \in Entry
           /\ entry[worker[w].l].submitted \in BOOLEAN
           /\ entry[worker[w].l].recon \in {"none", "zero", "other"}
           /\ entry[worker[w].l].state \in State
<1>1. worker[w] \in WorkerState
  BY DEF TypeOK
<1>2. worker[w].l \in Lifecycle /\ worker[w].gen \in Generation
  BY DEF KnownGenerations
<1>3. entry[worker[w].l] \in Entry
  BY <1>2 DEF TypeOK
<1>. QED BY <1>1, <1>2, <1>3 DEF WorkerState, Answer, Entry, Generation

\* Ending a submission is an EndStep.
LEMMA CommitSubmissionStep ==
    ASSUME TypeOK, KnownGenerations, NEW w \in Worker, worker[w].kind = "submit",
           NEW st \in State \ {"CREATED"}, NEW f \in 0..Size,
           CommitSubmission(w, st, NoOrder, f) \/ CommitSubmission(w, st, worker[w].oid, f)
    PROVE  EndStep(w)
<1>1. /\ worker[w].l \in Lifecycle /\ worker[w].gen # 0
      /\ worker[w].oid \in OrderId \cup {NoOrder}
      /\ entry[worker[w].l].recon \in {"none", "zero", "other"}
  BY WorkerType
<1>2. worker' = [worker EXCEPT ![w] = Idle] /\ UNCHANGED <<lastGen, venue, wire, posts>>
  BY DEF CommitSubmission, Finish
<1>3. CASE ~Current(w)
  BY <1>2, <1>3 DEF CommitSubmission, EndStep, OwnerTyped, TypeOK
<1>4. CASE Current(w)
  <2> DEFINE l == worker[w].l
  <2>1. entry[l].gen # 0
    BY <1>1, <1>4 DEF Current
  <2>2. PICK o \in {NoOrder, worker[w].oid} : SetWorking(l, st, o, f, TRUE, entry[l].recon)
    BY <1>4 DEF CommitSubmission
  <2>3. /\ entry' = entry \/ RowStep(l, o, entry[l].recon = "zero")
        /\ OwnerTyped
    <3>1. st \in State /\ st # "CREATED" /\ o \in OrderId \cup {NoOrder} /\ TRUE \in BOOLEAN
      BY <1>1
    <3>. QED BY <1>1, <2>1, <2>2, <3>1, SetWorkingStep
  <2>4. RowStep(l, o, entry[l].recon = "zero") =>
          RowStep(l, worker[w].oid, worker[w].answer.what = "zero")
    BY DEF RowStep
  <2>. QED BY <1>2, <1>4, <2>3, <2>4 DEF EndStep
<1>. QED BY <1>3, <1>4

\* A row written with its own order id, or the one the operation carries, and no
\* new verdict: the common shape of a status or cancel result.
LEMMA OwnRowStep ==
    ASSUME TypeOK, NEW w \in Worker, NEW l \in Lifecycle, entry[l].gen # 0,
           NEW st \in State, st # "CREATED" \/ st = entry[l].state,
           NEW o \in OrderId \cup {NoOrder}, NEW f \in 0..Size,
           SetWorking(l, st, o, f, entry[l].submitted, entry[l].recon)
    PROVE  /\ entry' = entry \/ RowStep(l, o, FALSE)
           /\ OwnerTyped
<1>1. entry[l] \in Entry
  BY DEF TypeOK
<1>2. entry[l].submitted \in BOOLEAN /\ entry[l].recon \in {"none", "zero", "other"}
  BY <1>1 DEF Entry
<1>3. /\ entry' = entry \/ RowStep(l, o, entry[l].recon = "zero")
      /\ OwnerTyped
  BY <1>2, SetWorkingStep
<1>. QED BY <1>3 DEF RowStep

\* The state a status leaves is the venue's, or the row's own.
LEMMA ObservedStateType ==
    ASSUME NEW current \in State, NEW st \in State \ {"CREATED"}, NEW stale
    PROVE  /\ ObservedState(current, st, stale) \in State
           /\ \/ ObservedState(current, st, stale) # "CREATED"
              \/ ObservedState(current, st, stale) = current
BY DEF ObservedState, State, Terminal, MayOwnLiveOrder

LEMMA OutcomeType ==
    ASSUME NEW a \in Answer
    PROVE  /\ Outcome(a) \in {"ZERO", "AMBIGUOUS", "FILLED", "PARTIALLY_FILLED", "WORKING"}
           /\ Outcome(a) = "ZERO" <=> a.what = "zero"
BY DEF Outcome, Answer

LEMMA ReconciledStateType ==
    ASSUME NEW e \in Entry, NEW a \in Answer
    PROVE  ReconciledState(e, a) \in State \ {"CREATED"}
<1>1. a.label \in Label /\ a.matched \in 0..Size
  BY DEF Answer
<1>2. NormalizedState(a.label, a.matched) \in State \ {"CREATED"}
  BY <1>1, NormalizedStateType
<1>. QED BY <1>2, OutcomeType DEF ReconciledState, State, Terminal, MayOwnLiveOrder

LEMMA CancelledStateType ==
    ASSUME NEW a \in Answer
    PROVE  CancelledState(a) \in State \ {"CREATED"}
<1>1. a.label \in Label /\ a.matched \in 0..Size
  BY DEF Answer
<1>2. NormalizedState(a.label, a.matched) \in State \ {"CREATED"}
  BY <1>1, NormalizedStateType
<1>. QED BY <1>2 DEF CancelledState, State, Terminal, MayOwnLiveOrder

\* Every action that ends an operation.
Ends(w) == \/ SubmitDenied(w) \/ ObserverFails(w) \/ SubmitAmbiguous(w) \/ SubmitConfirmed(w)
           \/ ObserveStatus(w) \/ CancelFails(w) \/ CancelReturns(w) \/ ApplyReconciliation(w)

LEMMA EndsStep ==
    ASSUME TypeOK, KnownGenerations, NEW w \in Worker, Ends(w)
    PROVE  EndStep(w)
<1> DEFINE l == worker[w].l
           a == worker[w].answer
           o == worker[w].oid
<1>1. worker[w].kind # "none"
  BY DEF Ends, At, SubmitDenied, ObserverFails, SubmitAmbiguous, SubmitConfirmed,
         ObserveStatus, CancelFails, CancelReturns, ApplyReconciliation
<1>2. /\ l \in Lifecycle /\ worker[w].gen # 0 /\ o \in OrderId \cup {NoOrder}
      /\ a \in Answer /\ a.label \in Label /\ a.matched \in 0..Size
      /\ entry[l] \in Entry
      /\ entry[l].submitted \in BOOLEAN /\ entry[l].recon \in {"none", "zero", "other"}
      /\ entry[l].state \in State
  BY <1>1, WorkerType
<1>3. 0 \in 0..Size /\ {"REJECTED", "FAILED", "SUBMISSION_UNKNOWN"} \subseteq State \ {"CREATED"}
  BY SizesAssumption DEF State, Terminal, MayOwnLiveOrder
<1>4. CASE SubmitDenied(w)
  BY <1>3, <1>4, CommitSubmissionStep DEF SubmitDenied, At
<1>5. CASE ObserverFails(w)
  BY <1>3, <1>5, CommitSubmissionStep DEF ObserverFails, At
<1>6. CASE SubmitAmbiguous(w)
  BY <1>3, <1>6, CommitSubmissionStep DEF SubmitAmbiguous, At
<1>7. CASE SubmitConfirmed(w)
  <2>1. NormalizedState(a.label, a.matched) \in State \ {"CREATED"}
    BY <1>2, NormalizedStateType
  <2>. QED BY <2>1, <1>2, <1>7, CommitSubmissionStep DEF SubmitConfirmed, At
<1>8. CASE ObserveStatus(w)
  <2> DEFINE st == ObservedState(entry[l].state, NormalizedState(a.label, a.matched),
                                 a.matched < entry[l].filled)
  <2>1. NormalizedState(a.label, a.matched) \in State \ {"CREATED"}
    BY <1>2, NormalizedStateType
  <2>2. st \in State /\ (st # "CREATED" \/ st = entry[l].state)
    BY <2>1, <1>2, ObservedStateType
  <2>3. CASE Current(w) /\ entry[l].oid = o
    <3>1. SetWorking(l, st, o, a.matched, entry[l].submitted, entry[l].recon)
      BY <1>8, <2>3 DEF ObserveStatus
    <3>2. entry[l].gen # 0
      BY <2>3, <1>2 DEF Current
    <3>3. /\ entry' = entry \/ RowStep(l, o, FALSE)
          /\ OwnerTyped
      BY <3>1, <3>2, <2>2, <1>2, OwnRowStep
    <3>4. RowStep(l, o, FALSE) => RowStep(l, o, a.what = "zero")
      BY DEF RowStep
    <3>. QED BY <3>3, <3>4, <1>1, <1>8, <2>3 DEF ObserveStatus, EndStep, Finish
  <2>4. CASE ~(Current(w) /\ entry[l].oid = o)
    BY <1>1, <1>8, <2>4 DEF ObserveStatus, EndStep, Finish, OwnerTyped, TypeOK
  <2>. QED BY <2>3, <2>4
<1>9. CASE CancelFails(w)
  <2> DEFINE write == Current(w) \/ (~TransportWraps /\ entry[l].gen # 0 /\ entry[l].oid # NoOrder)
  <2>1. "CANCEL_UNKNOWN" \in State
    BY DEF State, MayOwnLiveOrder
  <2>2. CASE write
    <3>1. SetWorking(l, "CANCEL_UNKNOWN", NoOrder, 0, entry[l].submitted, entry[l].recon)
      BY <1>9, <2>2 DEF CancelFails
    <3>2. entry[l].gen # 0
      BY <2>2, <1>2 DEF Current
    <3>3. /\ entry' = entry \/ RowStep(l, NoOrder, FALSE)
          /\ OwnerTyped
      BY <3>1, <3>2, <2>1, <1>2, <1>3, OwnRowStep
    <3>. QED BY <3>3, <1>1, <1>9 DEF CancelFails, EndStep, Finish
  <2>3. CASE ~write
    BY <1>1, <1>9, <2>3 DEF CancelFails, EndStep, Finish, OwnerTyped, TypeOK
  <2>. QED BY <2>2, <2>3
<1>10. CASE CancelReturns(w)
  <2>1. CancelledState(a) \in State \ {"CREATED"}
    BY <1>2, CancelledStateType
  <2>2. CASE Current(w)
    <3>1. SetWorking(l, CancelledState(a), o, a.matched, entry[l].submitted, entry[l].recon)
      BY <1>10, <2>2 DEF CancelReturns
    <3>2. entry[l].gen # 0
      BY <2>2, <1>2 DEF Current
    <3>3. /\ entry' = entry \/ RowStep(l, o, FALSE)
          /\ OwnerTyped
      BY <3>1, <3>2, <2>1, <1>2, OwnRowStep
    <3>4. RowStep(l, o, FALSE) => RowStep(l, o, a.what = "zero")
      BY DEF RowStep
    <3>. QED BY <3>3, <3>4, <1>1, <1>10, <2>2 DEF CancelReturns, EndStep, Finish
  <2>3. CASE ~Current(w)
    BY <1>1, <1>10, <2>3 DEF CancelReturns, EndStep, Finish, OwnerTyped, TypeOK
  <2>. QED BY <2>2, <2>3
<1>11. CASE ApplyReconciliation(w)
  <2> DEFINE zero == Outcome(a) = "ZERO"
             rec == IF zero THEN "zero" ELSE "other"
  <2>1. zero <=> a.what = "zero"
    BY <1>2, OutcomeType
  <2>2. ReconciledState(entry[l], a) \in State \ {"CREATED"}
    BY <1>2, ReconciledStateType
  <2>3. CASE Current(w) /\ ~(zero /\ entry[l].filled > 0)
    <3>1. SetWorking(l, ReconciledState(entry[l], a), o, a.matched, entry[l].submitted, rec)
      BY <1>11, <2>3 DEF ApplyReconciliation
    <3>2. entry[l].gen # 0 /\ rec \in {"none", "zero", "other"} /\ (rec = "zero" <=> zero)
      BY <2>3, <1>2 DEF Current
    <3>3. /\ entry' = entry \/ RowStep(l, o, rec = "zero")
          /\ OwnerTyped
      BY <3>1, <3>2, <2>2, <1>2, SetWorkingStep
    <3>4. RowStep(l, o, rec = "zero") => RowStep(l, o, a.what = "zero")
      BY <2>1, <3>2 DEF RowStep
    <3>. QED BY <3>3, <3>4, <1>1, <1>11, <2>3 DEF ApplyReconciliation, EndStep, Finish
  <2>4. CASE ~(Current(w) /\ ~(zero /\ entry[l].filled > 0))
    BY <1>1, <1>11, <2>4 DEF ApplyReconciliation, EndStep, Finish, OwnerTyped, TypeOK
  <2>. QED BY <2>3, <2>4
<1>. QED BY <1>4, <1>5, <1>6, <1>7, <1>8, <1>9, <1>10, <1>11 DEF Ends

\* Every action that begins an operation on the row of l.
Begins(w, l) == SubmitStart(w, l) \/ RefreshStart(w, l) \/ CancelStart(w, l) \/ ReconcileStart(w, l)

LEMMA BeginsStep ==
    ASSUME TypeOK, NEW w \in Worker, NEW l \in Lifecycle, Begins(w, l)
    PROVE  BeginStep(w, l)
<1>1. entry[l] \in Entry /\ 0 \in 0..Size
  BY SizesAssumption DEF TypeOK
<1>2. CASE SubmitStart(w, l)
  <2>1. /\ entry[l].gen # 0 /\ entry[l].state = "CREATED"
        /\ SetWorking(l, "SUBMITTING", NoOrder, 0, FALSE, entry[l].recon)
    BY <1>2 DEF SubmitStart
  <2>2. "SUBMITTING" \in State /\ entry[l].recon \in {"none", "zero", "other"} /\ FALSE \in BOOLEAN
    BY <1>1 DEF State, MayOwnLiveOrder, Entry
  <2>3. /\ entry' = entry \/ RowStep(l, NoOrder, entry[l].recon = "zero")
        /\ OwnerTyped
    BY <2>1, <2>2, <1>1, SetWorkingStep
  <2>4. entry'[l].state = "SUBMITTING"
    <3>1. ~OidConflict(l, NoOrder)
      BY DEF OidConflict
    <3>. QED BY <2>1, <2>2, <3>1, <1>1, SetWorkingStep
  <2>5. RowStep(l, NoOrder, entry[l].recon = "zero") => RowStep(l, NoOrder, FALSE)
    BY DEF RowStep
  <2>6. worker[w] = Idle /\ Begin(w, "submit", "started", l) /\ ~entry[l].raw
        /\ UNCHANGED <<lastGen, venue, wire, posts>>
    BY <1>2 DEF SubmitStart
  <2>7. entry' = entry \/ RowStep(l, NoOrder, FALSE)
    BY <2>3, <2>5
  <2>. QED BY <2>1, <2>3, <2>4, <2>6, <2>7 DEF BeginStep
<1>3. CASE RefreshStart(w, l)
  BY <1>3 DEF RefreshStart, BeginStep, OwnerTyped, TypeOK
<1>4. CASE CancelStart(w, l)
  <2>1. /\ entry[l].gen # 0
        /\ SetWorking(l, "CANCEL_REQUESTED", NoOrder, 0, entry[l].submitted, entry[l].recon)
    BY <1>4 DEF CancelStart
  <2>2. "CANCEL_REQUESTED" \in State
    BY DEF State, MayOwnLiveOrder
  <2>3. /\ entry' = entry \/ RowStep(l, NoOrder, FALSE)
        /\ OwnerTyped
    BY <2>1, <2>2, <1>1, OwnRowStep
  <2>. QED BY <1>4, <2>1, <2>3 DEF CancelStart, BeginStep
<1>5. CASE ReconcileStart(w, l)
  BY <1>5 DEF ReconcileStart, BeginStep, OwnerTyped, TypeOK
<1>. QED BY <1>2, <1>3, <1>4, <1>5 DEF Begins

LEMMA MarkReconcilingStep ==
    ASSUME TypeOK, KnownGenerations, NEW w \in Worker, MarkReconciling(w)
    PROVE  MarkStep(w) \/ EndStep(w)
<1> DEFINE l == worker[w].l
<1>1. worker[w].kind # "none"
  BY DEF MarkReconciling, At
<1>2. l \in Lifecycle /\ worker[w].gen # 0 /\ 0 \in 0..Size
  BY <1>1, WorkerType, SizesAssumption
<1>3. CASE ~Current(w)
  BY <1>1, <1>3 DEF MarkReconciling, EndStep, Finish, OwnerTyped, TypeOK
<1>4. CASE Current(w) /\ entry[l].state \in Terminal
  BY <1>4 DEF MarkReconciling, MarkStep, OwnerTyped, TypeOK
<1>5. CASE Current(w) /\ entry[l].state \notin Terminal
  <2>1. SetWorking(l, "RECONCILING", NoOrder, 0, entry[l].submitted, entry[l].recon)
    BY <1>5 DEF MarkReconciling
  <2>2. "RECONCILING" \in State /\ entry[l].gen # 0
    BY <1>2, <1>5 DEF State, MayOwnLiveOrder, Current
  <2>3. /\ entry' = entry \/ RowStep(l, NoOrder, FALSE)
        /\ OwnerTyped
    BY <2>1, <2>2, <1>2, OwnRowStep
  <2>. QED BY <1>5, <2>3 DEF MarkReconciling, MarkStep
<1>. QED BY <1>3, <1>4, <1>5

\* A row is installed for a generation never used before.
InstallStep(l, g) == /\ g > lastGen[l]
                     /\ entry[l].gen # 0 => Replaceable(l)
                     /\ Install(l, g)

\* Rows are dropped only when they may be.
DropStep(rows) == (\A l \in rows : Releasable(l)) /\ Drop(rows)

VenueStep == /\ \/ \E i \in wire : VenueRefuse(i) \/ \E o \in OrderId : VenueAccept(i, o)
                \/ \E o \in OrderId : VenueMatch(o) \/ VenueCancel(o) \/ VenueReject(o)
             /\ VenueUnchanged /\ UNCHANGED worker

\* An answer arrives; a zero verdict only for the order the evidence is about.
ReplyStep(w) ==
    /\ worker[w].kind # "none" /\ worker[w].pc = "waiting"
    /\ \E o \in OrderId \cup {NoOrder}, a \in Answer :
          /\ worker' = [worker EXCEPT ![w].pc = "answered", ![w].oid = o, ![w].answer = a]
          /\ worker[w].kind \in {"refresh", "cancel"} => o = worker[w].oid
          /\ o # NoOrder => \/ o = worker[w].oid
                            \/ venue[o].label # "NONE" /\ (LocatorExact => BelongsTo(o, w))
          /\ a.what = "zero" => /\ worker[w].kind = "reconcile" /\ o # NoOrder
                                /\ venue[o].label \in {"CANCELED", "INVALID"}
                                /\ venue[o].matched = 0
    /\ UNCHANGED <<entry, ownerOf, lastGen, venue, wire, posts>>

LEMMA ReportsType ==
    ASSUME TypeOK, NEW o \in OrderId
    PROVE  /\ Reports(o) \subseteq {a \in Answer : a.what = "order"}
           /\ Evidence(o) \subseteq {a \in Answer : a.what = "zero" =>
                 venue[o].label \in {"CANCELED", "INVALID"} /\ venue[o].matched = 0}
<1>1. venue[o] \in VenueOrder
  BY DEF TypeOK
<1>2. venue[o].label \in Label /\ venue[o].matched \in 0..Size /\ 0..venue[o].matched \subseteq 0..Size
  BY <1>1, SizesAssumption DEF VenueOrder
<1>3. Reports(o) \subseteq {a \in Answer : a.what = "order"}
  BY <1>2 DEF Reports, Answer
<1>4. [what : {"unread"}, label : {"NONE"}, matched : 0..venue[o].matched]
        \subseteq {a \in Answer : a.what = "unread"}
  BY <1>2 DEF Answer, Label
<1>5. [what : {"zero"}, label : {venue[o].label}, matched : {0}] \subseteq {a \in Answer : a.what = "zero"}
  BY <1>2, SizesAssumption DEF Answer
<1>. QED BY <1>3, <1>4, <1>5 DEF Evidence

Replies(w) == SubmitReply(w) \/ StatusReply(w) \/ CancelAck(w) \/ EvidenceReply(w)

LEMMA RepliesStep ==
    ASSUME TypeOK, KnownGenerations, NEW w \in Worker, Replies(w)
    PROVE  ReplyStep(w)
<1>1. worker[w].kind # "none" /\ worker[w].pc = "waiting"
  BY DEF Replies, SubmitReply, StatusReply, CancelAck, EvidenceReply, At
<1>2. worker[w].oid \in OrderId \cup {NoOrder}
  BY <1>1, WorkerType
<1>3. ASSUME NEW o \in OrderId \cup {NoOrder}, NEW a \in Answer, Answered(w, o, a),
             worker[w].kind \in {"refresh", "cancel"} => o = worker[w].oid,
             o # NoOrder => \/ o = worker[w].oid
                            \/ venue[o].label # "NONE" /\ (LocatorExact => BelongsTo(o, w)),
             a.what = "zero" => /\ worker[w].kind = "reconcile" /\ o # NoOrder
                                /\ venue[o].label \in {"CANCELED", "INVALID"}
                                /\ venue[o].matched = 0
      PROVE  ReplyStep(w)
  <2>1. /\ worker' = [worker EXCEPT ![w].pc = "answered", ![w].oid = o, ![w].answer = a]
        /\ UNCHANGED <<entry, ownerOf, lastGen, venue, wire, posts>>
    BY <1>3 DEF Answered, VenueUnchanged
  <2>. QED BY <1>1, <1>3, <2>1 DEF ReplyStep
<1>4. CASE SubmitReply(w)
  <2>1. PICK o \in OrderId : /\ venue[o].label # "NONE" /\ BelongsTo(o, w)
                             /\ \E a \in Reports(o) : Answered(w, o, a)
    BY <1>4 DEF SubmitReply
  <2>2. PICK a \in Reports(o) : Answered(w, o, a)
    BY <2>1
  <2>3. a \in Answer /\ a.what = "order"
    BY ReportsType
  <2>4. worker[w].kind = "submit"
    BY <1>4 DEF SubmitReply, At
  <2>. QED BY <1>3, <2>1, <2>2, <2>3, <2>4
<1>5. CASE StatusReply(w)
  <2>1. worker[w].oid \in OrderId
    BY <1>1, <1>2, <1>5 DEF StatusReply, KnownGenerations
  <2>2. PICK a \in Reports(worker[w].oid) : Answered(w, worker[w].oid, a)
    BY <1>5 DEF StatusReply
  <2>3. a \in Answer /\ a.what = "order"
    BY <2>1, ReportsType
  <2>. QED BY <1>3, <2>1, <2>2, <2>3
<1>6. CASE CancelAck(w)
  <2>1. worker[w].oid \in OrderId
    BY <1>1, <1>2, <1>6 DEF CancelAck, At, KnownGenerations
  <2>2. PICK a \in Reports(worker[w].oid) : Answered(w, worker[w].oid, [a EXCEPT !.what = "ack"])
    BY <1>6 DEF CancelAck
  <2>3. [a EXCEPT !.what = "ack"] \in Answer /\ [a EXCEPT !.what = "ack"].what = "ack"
    BY <2>1, ReportsType DEF Answer
  <2>. QED BY <1>3, <2>1, <2>2, <2>3
<1>7. CASE EvidenceReply(w)
  <2>0. worker[w].kind = "reconcile"
    BY <1>7 DEF EvidenceReply, At
  <2>1. CASE \E o \in Located(w) : \E a \in Evidence(o) : Answered(w, o, a)
    <3>1. PICK o \in Located(w) : \E a \in Evidence(o) : Answered(w, o, a)
      BY <2>1
    <3>2. PICK a \in Evidence(o) : Answered(w, o, a)
      BY <3>1
    <3>3. o \in OrderId /\ (\/ o = worker[w].oid
                            \/ venue[o].label # "NONE" /\ (LocatorExact => BelongsTo(o, w)))
      BY <1>2 DEF Located
    <3>4. a \in Answer /\ (a.what = "zero" => /\ venue[o].label \in {"CANCELED", "INVALID"}
                                              /\ venue[o].matched = 0)
      BY <3>3, ReportsType
    <3>5. o # NoOrder
      BY <3>3, SentinelAssumption
    <3>. QED BY <1>3, <2>0, <3>2, <3>3, <3>4, <3>5
  <2>2. CASE worker[w].oid = NoOrder /\ Answered(w, NoOrder, [NoAnswer EXCEPT !.what = "noOid"])
    <3>1. [NoAnswer EXCEPT !.what = "noOid"] \in Answer
          /\ [NoAnswer EXCEPT !.what = "noOid"].what = "noOid"
      BY SizesAssumption DEF NoAnswer, Answer, Label
    <3>. QED BY <1>3, <2>0, <2>2, <3>1
  <2>. QED BY <1>7, <2>1, <2>2 DEF EvidenceReply
<1>. QED BY <1>4, <1>5, <1>6, <1>7 DEF Replies

\* What is no operation of a worker: rows come and go, the venue moves.
LEMMA RegistryClasses ==
    ASSUME KnownGenerations, Registry \/ PruneReleased \/ Venue
    PROVE  \/ \E l \in Lifecycle, g \in Generation : InstallStep(l, g)
           \/ \E rows \in SUBSET Lifecycle : DropStep(rows)
           \/ VenueStep
<1>1. ASSUME NEW l \in Lifecycle, NEW g \in Generation, Create(l, g) \/ Supersede(l, g)
      PROVE  InstallStep(l, g)
  BY <1>1 DEF Create, Supersede, InstallStep, KnownGenerations
<1>2. ASSUME NEW l \in Lifecycle, ReleaseTerminalZero(l)
      PROVE  DropStep({l}) /\ {l} \in SUBSET Lifecycle
  BY <1>2 DEF ReleaseTerminalZero, DropStep
<1>3. CASE PruneReleased
  BY <1>3 DEF PruneReleased, DropStep
<1>4. CASE Venue
  BY <1>4 DEF Venue, VenueStep, VenueRefuse, VenueAccept, VenueMatch, VenueCancel, VenueReject
<1>. QED BY <1>1, <1>2, <1>3, <1>4 DEF Registry

\* Every step of the specification belongs to one class.
LEMMA NextClasses ==
    ASSUME TypeOK, KnownGenerations, Next
    PROVE  \/ \E l \in Lifecycle, g \in Generation : InstallStep(l, g)
           \/ \E rows \in SUBSET Lifecycle : DropStep(rows)
           \/ VenueStep
           \/ \E w \in Worker, l \in Lifecycle : BeginStep(w, l)
           \/ \E w \in Worker : \/ EndStep(w) \/ MarkStep(w) \/ ReplyStep(w) \/ SendPost(w)
                                \/ (RawEnter(w) /\ Current(w))
<1>1. CASE Registry \/ PruneReleased \/ Venue
  BY <1>1, RegistryClasses
<1>2. ASSUME NEW w \in Worker, Start(w)
      PROVE  \E l \in Lifecycle : BeginStep(w, l)
  BY <1>2, BeginsStep DEF Start, Begins
<1>3. ASSUME NEW w \in Worker, Continue(w)
      PROVE  EndStep(w) \/ MarkStep(w) \/ SendPost(w) \/ (RawEnter(w) /\ Current(w))
  <2>1. CASE Ends(w)
    BY <2>1, EndsStep
  <2>2. CASE MarkReconciling(w)
    BY <2>2, MarkReconcilingStep
  <2>3. CASE RawEnter(w) /\ ~Current(w)
    BY <2>3 DEF RawEnter, EndStep, Finish, OwnerTyped, TypeOK, At
  <2>. QED BY <1>3, <2>1, <2>2, <2>3 DEF Continue, Ends
<1>4. ASSUME NEW w \in Worker, Reply(w)
      PROVE  EndStep(w) \/ ReplyStep(w)
  <2>1. CASE NoStatus(w)
    BY <2>1 DEF NoStatus, EndStep, Finish, OwnerTyped, TypeOK, At, VenueUnchanged
  <2>. QED BY <1>4, <2>1, RepliesStep DEF Reply, Replies
<1>. QED BY <1>1, <1>2, <1>3, <1>4 DEF Next

-----------------------------------------------------------------------------
(* What a step does to the rows *)

\* Outside Install and Drop, every row keeps its generation, its raw flag and its
\* fills, and never returns to CREATED.
RowsEvolve ==
    /\ entry' \in [Lifecycle -> Entry]
    /\ \A k \in Lifecycle :
          /\ entry'[k].gen = entry[k].gen
          /\ entry[k].raw => entry'[k].raw
          /\ entry'[k].filled >= entry[k].filled
          /\ entry'[k].state # "CREATED" \/ entry'[k].state = entry[k].state
          /\ entry[k].gen = 0 => entry'[k] = entry[k]

\* The row of l may get the order id o, and a zero verdict if z; others neither.
Gains(l, o, z) ==
    \A k \in Lifecycle :
        /\ entry'[k].oid = entry[k].oid \/ (k = l /\ o # NoOrder /\ entry'[k].oid = o)
        /\ entry'[k].recon = "zero" => entry[k].recon = "zero" \/ (k = l /\ z)

LEMMA RowsEvolveUnchanged ==
    ASSUME TypeOK, entry' = entry, NEW l, NEW o, NEW z
    PROVE  RowsEvolve /\ Gains(l, o, z)
<1>1. \A k \in Lifecycle : entry[k] \in Entry
  BY DEF TypeOK
<1>2. \A k \in Lifecycle : entry[k].filled \in Nat
  BY <1>1, SizesAssumption DEF Entry
<1>. QED BY <1>2 DEF RowsEvolve, Gains, TypeOK

LEMMA RowStepEvolves ==
    ASSUME TypeOK, NEW l \in Lifecycle, NEW o, NEW z, RowStep(l, o, z)
    PROVE  RowsEvolve /\ Gains(l, o, z)
<1>1. PICK e \in Entry :
        /\ entry' = [entry EXCEPT ![l] = e]
        /\ entry[l].gen # 0 /\ e.gen = entry[l].gen /\ e.raw = entry[l].raw
        /\ e.state # "CREATED" \/ e.state = entry[l].state
        /\ e.filled >= entry[l].filled
        /\ e.oid = entry[l].oid \/ (o # NoOrder /\ e.oid = o)
        /\ e.recon = "zero" => entry[l].recon = "zero" \/ z
  BY DEF RowStep
<1>2. entry \in [Lifecycle -> Entry]
  BY DEF TypeOK
<1>3. \A k \in Lifecycle : entry[k].filled \in Nat
  BY <1>2, SizesAssumption DEF Entry
<1>4. entry' \in [Lifecycle -> Entry]
  BY <1>1, <1>2
<1>5. entry'[l] = e /\ \A k \in Lifecycle \ {l} : entry'[k] = entry[k]
  BY <1>1, <1>2
<1>6. RowsEvolve
  BY <1>1, <1>3, <1>4, <1>5 DEF RowsEvolve
<1>7. Gains(l, o, z)
  BY <1>1, <1>5 DEF Gains
<1>. QED BY <1>6, <1>7

\* What an ending operation adds, it adds to the row of its own generation.
EndGains(w) ==
    \A k \in Lifecycle :
        LET mine == k = worker[w].l /\ entry[k].gen = worker[w].gen IN
        /\ \/ entry'[k].oid = entry[k].oid
           \/ mine /\ worker[w].oid # NoOrder /\ entry'[k].oid = worker[w].oid
        /\ entry'[k].recon = "zero" => \/ entry[k].recon = "zero"
                                       \/ mine /\ worker[w].answer.what = "zero"

LEMMA EndStepRows ==
    ASSUME TypeOK, KnownGenerations, NEW w \in Worker, EndStep(w)
    PROVE  RowsEvolve /\ EndGains(w)
<1>1. worker[w].l \in Lifecycle
  BY WorkerType DEF EndStep
<1>2. CASE entry' = entry
  BY <1>2, RowsEvolveUnchanged DEF EndGains
<1>3. CASE Current(w) /\ RowStep(worker[w].l, worker[w].oid, worker[w].answer.what = "zero")
  <2>1. RowsEvolve /\ Gains(worker[w].l, worker[w].oid, worker[w].answer.what = "zero")
    BY <1>1, <1>3, RowStepEvolves
  <2>. QED BY <1>3, <2>1 DEF Gains, EndGains, Current
<1>4. CASE RowStep(worker[w].l, NoOrder, FALSE)
  <2>1. RowsEvolve /\ Gains(worker[w].l, NoOrder, FALSE)
    BY <1>1, <1>4, RowStepEvolves
  <2>. QED BY <2>1 DEF Gains, EndGains
<1>. QED BY <1>2, <1>3, <1>4 DEF EndStep

\* Beginning an operation, or announcing a reconciliation, adds nothing to a row.
LEMMA BeginMarkRows ==
    ASSUME TypeOK, KnownGenerations, NEW w \in Worker, NEW l \in Lifecycle,
           BeginStep(w, l) \/ MarkStep(w)
    PROVE  RowsEvolve /\ Gains(l, NoOrder, FALSE)
<1>1. CASE BeginStep(w, l)
  BY <1>1, RowStepEvolves, RowsEvolveUnchanged DEF BeginStep
<1>2. CASE MarkStep(w)
  <2>1. worker[w].kind # "none"
    BY <1>2 DEF MarkStep, At
  <2>2. worker[w].l \in Lifecycle
    BY <2>1, WorkerType
  <2>3. RowsEvolve /\ Gains(worker[w].l, NoOrder, FALSE)
    BY <1>2, <2>2, RowStepEvolves, RowsEvolveUnchanged DEF MarkStep
  <2>. QED BY <2>3 DEF Gains
<1>. QED BY <1>1, <1>2

LEMMA RawEnterRows ==
    ASSUME TypeOK, KnownGenerations, NEW w \in Worker, RawEnter(w), Current(w), NEW l
    PROVE  RowsEvolve /\ Gains(l, NoOrder, FALSE) /\ entry'[worker[w].l].raw
<1>1. worker[w].kind # "none"
  BY DEF RawEnter, At
<1>2. worker[w].l \in Lifecycle /\ worker[w].gen # 0
  BY <1>1, WorkerType
<1>3. entry' = [entry EXCEPT ![worker[w].l].raw = TRUE]
  BY DEF RawEnter
<1>4. entry \in [Lifecycle -> Entry] /\ \A k \in Lifecycle : entry[k].filled \in Nat
  BY SizesAssumption DEF TypeOK, Entry
<1>5. [entry[worker[w].l] EXCEPT !.raw = TRUE] \in Entry
  BY <1>2, <1>4 DEF Entry
<1>6. entry' \in [Lifecycle -> Entry]
  BY <1>2, <1>3, <1>4, <1>5
<1>7. \A k \in Lifecycle : /\ entry'[k].gen = entry[k].gen /\ (entry[k].raw => entry'[k].raw)
                           /\ entry'[k].filled = entry[k].filled /\ entry'[k].state = entry[k].state
                           /\ entry'[k].oid = entry[k].oid /\ entry'[k].recon = entry[k].recon
  BY <1>2, <1>3, <1>4 DEF Entry
<1>8. entry'[worker[w].l].raw
  BY <1>2, <1>3, <1>4 DEF Entry
<1>9. \A k \in Lifecycle : entry[k].gen = 0 => entry'[k] = entry[k]
  BY <1>2, <1>3, <1>4 DEF Current
<1>. QED BY <1>4, <1>6, <1>7, <1>8, <1>9 DEF RowsEvolve, Gains

-----------------------------------------------------------------------------
(* Type correctness *)

BaseInv == TypeOK /\ KnownGenerations /\ VenueWellFormed

LEMMA BaseInit == Init => BaseInv
<1> SUFFICES ASSUME Init PROVE BaseInv
  OBVIOUS
<1>0. 0 \in 0..Size /\ 0 \in 0..MaxGeneration
  BY SizesAssumption
<1>1. NoEntry \in Entry /\ NoEntry.gen = 0 /\ NoEntry.filled = 0 /\ NoEntry.oid = NoOrder
  BY <1>0 DEF NoEntry, Entry, State
<1>2. NoAnswer \in Answer
  BY <1>0 DEF NoAnswer, Answer, Label
<1>3. Idle \in WorkerState /\ Idle.kind = "none"
  BY <1>0, <1>2 DEF Idle, WorkerState
<1>4. Unassigned \in VenueOrder /\ Unassigned.label = "NONE"
  BY <1>0 DEF Unassigned, VenueOrder, Label
<1>5. TypeOK
  BY <1>0, <1>1, <1>3, <1>4 DEF Init, TypeOK
<1>6. KnownGenerations
  BY <1>1, <1>3 DEF Init, KnownGenerations
<1>7. VenueWellFormed
  BY <1>4 DEF Init, VenueWellFormed
<1>. QED BY <1>5, <1>6, <1>7 DEF BaseInv

\* The worker table stays typed, and its operations refer to known generations.
WorkersKept ==
    /\ worker' \in [Worker -> WorkerState]
    /\ \A w \in Worker : worker'[w].kind # "none" =>
          /\ worker'[w].l \in Lifecycle /\ worker'[w].gen \in Generation
          /\ worker'[w].gen <= lastGen[worker'[w].l]
          /\ worker'[w].kind \in {"refresh", "cancel"} => worker'[w].oid # NoOrder

LEMMA IdleType == Idle \in WorkerState /\ Idle.kind = "none" /\ Idle.oid = NoOrder
                  /\ Idle.answer.what = "none"
<1>1. 0 \in 0..Size /\ 0 \in 0..MaxGeneration
  BY SizesAssumption
<1>2. NoAnswer \in Answer /\ NoAnswer.what = "none"
  BY <1>1 DEF NoAnswer, Answer, Label
<1>. QED BY <1>1, <1>2 DEF Idle, WorkerState

LEMMA EndStepWorkers ==
    ASSUME TypeOK, KnownGenerations, NEW w \in Worker, EndStep(w)
    PROVE  WorkersKept
BY IdleType DEF EndStep, TypeOK, KnownGenerations, WorkersKept

LEMMA BeginStepWorkers ==
    ASSUME TypeOK, KnownGenerations, NEW w \in Worker, NEW l \in Lifecycle, BeginStep(w, l)
    PROVE  WorkersKept
<1>1. PICK k \in {"submit", "cancel", "refresh", "reconcile"}, pc \in {"started", "waiting"} :
        Begin(w, k, pc, l) /\ (k \in {"refresh", "cancel"} => entry[l].oid # NoOrder)
  BY DEF BeginStep
<1> DEFINE op == [Idle EXCEPT !.kind = k, !.pc = pc, !.l = l,
                              !.gen = entry[l].gen, !.oid = entry[l].oid]
<1>2. worker' = [worker EXCEPT ![w] = op]
  BY <1>1 DEF Begin
<1>3. entry[l] \in Entry /\ entry[l].gen # 0
  BY DEF TypeOK, BeginStep
<1>4. entry[l].gen \in Generation /\ entry[l].gen \in 0..MaxGeneration
      /\ entry[l].oid \in OrderId \cup {NoOrder}
  BY <1>3, SizesAssumption DEF Entry, Generation
<1>5. entry[l].gen <= lastGen[l]
  BY <1>3, <1>4, SizesAssumption DEF KnownGenerations, Generation
<1>6. op \in WorkerState /\ op.kind = k /\ op.l = l /\ op.gen = entry[l].gen /\ op.oid = entry[l].oid
  BY <1>4, IdleType DEF WorkerState
<1>. QED BY <1>1, <1>2, <1>4, <1>5, <1>6 DEF TypeOK, KnownGenerations, WorkersKept

\* A worker that only moves its program counter.
LEMMA MoveWorkers ==
    ASSUME TypeOK, KnownGenerations, NEW w \in Worker,
           NEW pc \in {"idle", "started", "entered", "waiting", "answered"},
           worker' = [worker EXCEPT ![w].pc = pc]
    PROVE  WorkersKept
<1>1. [worker[w] EXCEPT !.pc = pc] \in WorkerState
  BY DEF TypeOK, WorkerState
<1>2. worker' \in [Worker -> WorkerState]
  BY <1>1 DEF TypeOK
<1>3. \A v \in Worker : /\ worker'[v].kind = worker[v].kind /\ worker'[v].l = worker[v].l
                        /\ worker'[v].gen = worker[v].gen /\ worker'[v].oid = worker[v].oid
  BY DEF TypeOK, WorkerState
<1>. QED BY <1>2, <1>3 DEF KnownGenerations, WorkersKept

LEMMA ReplyStepWorkers ==
    ASSUME TypeOK, KnownGenerations, NEW w \in Worker, ReplyStep(w)
    PROVE  WorkersKept
<1>1. PICK o \in OrderId \cup {NoOrder}, a \in Answer :
        /\ worker' = [worker EXCEPT ![w].pc = "answered", ![w].oid = o, ![w].answer = a]
        /\ worker[w].kind \in {"refresh", "cancel"} => o = worker[w].oid
  BY DEF ReplyStep
<1> DEFINE op == [worker[w] EXCEPT !.pc = "answered", !.oid = o, !.answer = a]
<1>2. worker' = [worker EXCEPT ![w] = op]
  BY <1>1 DEF TypeOK
<1>3. op \in WorkerState /\ op.kind = worker[w].kind /\ op.l = worker[w].l
      /\ op.gen = worker[w].gen /\ op.oid = o
  BY DEF TypeOK, WorkerState
<1>4. worker[w].kind # "none"
  BY DEF ReplyStep
<1>. QED BY <1>1, <1>2, <1>3, <1>4 DEF TypeOK, KnownGenerations, WorkersKept

\* A step that installs no row: the rest of the invariant follows.
LEMMA BaseFromParts ==
    ASSUME BaseInv, RowsEvolve, WorkersKept, OwnerTyped, lastGen' = lastGen,
           venue' \in [OrderId -> VenueOrder], wire' \in SUBSET Identity,
           posts' \in [Identity -> Nat],
           \A i \in Identity : posts'[i] > posts[i] => i[2] <= lastGen[i[1]],
           VenueWellFormed',
           \A l \in Lifecycle : entry[l].gen = 0 => entry'[l] = entry[l]
    PROVE  BaseInv'
<1>1. TypeOK'
  BY DEF BaseInv, TypeOK, RowsEvolve, WorkersKept, OwnerTyped
<1>2. \A i \in Identity : posts'[i] > 0 => i[2] <= lastGen'[i[1]]
  <2>1. \A i \in Identity : posts'[i] \in Nat /\ posts[i] \in Nat
    BY DEF BaseInv, TypeOK
  <2>. QED BY <2>1 DEF BaseInv, KnownGenerations
<1>3. KnownGenerations'
  BY <1>2 DEF BaseInv, KnownGenerations, RowsEvolve, WorkersKept
<1>. QED BY <1>1, <1>3 DEF BaseInv

LEMMA InstallBase ==
    ASSUME BaseInv, NEW l \in Lifecycle, NEW g \in Generation, InstallStep(l, g)
    PROVE  BaseInv'
<1>1. g \in 0..MaxGeneration /\ g # 0 /\ g \in Nat /\ 0 \in 0..Size
  BY SizesAssumption DEF Generation
<1>2. FreshEntry(g) \in Entry /\ FreshEntry(g).gen = g
  BY <1>1 DEF FreshEntry, NoEntry, Entry, State
<1>3. /\ entry' = [entry EXCEPT ![l] = FreshEntry(g)]
      /\ ownerOf' = WithoutOids({l})
      /\ lastGen' = [lastGen EXCEPT ![l] = g]
      /\ UNCHANGED <<worker, venue, wire, posts>> /\ g > lastGen[l]
  BY DEF InstallStep, Install
<1>4. TypeOK'
  <2>1. entry' \in [Lifecycle -> Entry] /\ lastGen' \in [Lifecycle -> 0..MaxGeneration]
    BY <1>1, <1>2, <1>3 DEF BaseInv, TypeOK
  <2>2. ownerOf' \in [OrderId -> Lifecycle \cup {NoLifecycle}]
    BY <1>3 DEF BaseInv, TypeOK, WithoutOids
  <2>. QED BY <1>3, <2>1, <2>2 DEF BaseInv, TypeOK
<1>5. \A k \in Lifecycle : lastGen'[k] \in Nat /\ lastGen[k] \in Nat /\ lastGen'[k] >= lastGen[k]
  BY <1>1, <1>3, SizesAssumption DEF BaseInv, TypeOK
<1>6. KnownGenerations'
  <2>1. \A k \in Lifecycle : entry'[k].gen \in {0, lastGen'[k]}
                             /\ (entry'[k].gen = 0 => entry'[k].filled = 0 /\ entry'[k].oid = NoOrder)
    BY <1>1, <1>2, <1>3 DEF BaseInv, TypeOK, KnownGenerations
  <2>2. \A w \in Worker : worker[w].kind # "none" => worker[w].gen <= lastGen'[worker[w].l]
    BY <1>5, SizesAssumption DEF BaseInv, KnownGenerations, Generation
  <2>3. \A i \in Identity : posts[i] > 0 => i[2] <= lastGen'[i[1]]
    BY <1>5, SizesAssumption DEF BaseInv, KnownGenerations, Identity, Generation
  <2>. QED BY <1>3, <2>1, <2>2, <2>3 DEF BaseInv, KnownGenerations
<1>7. VenueWellFormed'
  BY <1>3 DEF BaseInv, VenueWellFormed
<1>. QED BY <1>4, <1>6, <1>7 DEF BaseInv

LEMMA DropBase ==
    ASSUME BaseInv, NEW rows \in SUBSET Lifecycle, DropStep(rows)
    PROVE  BaseInv'
<1>1. NoEntry \in Entry /\ NoEntry.gen = 0 /\ NoEntry.filled = 0 /\ NoEntry.oid = NoOrder
  BY SizesAssumption DEF NoEntry, Entry, State
<1>2. /\ entry' = [l \in Lifecycle |-> IF l \in rows THEN NoEntry ELSE entry[l]]
      /\ ownerOf' = WithoutOids(rows)
      /\ UNCHANGED <<lastGen, worker, venue, wire, posts>>
  BY DEF DropStep, Drop
<1>3. TypeOK'
  BY <1>1, <1>2 DEF BaseInv, TypeOK, WithoutOids
<1>4. KnownGenerations'
  BY <1>1, <1>2 DEF BaseInv, KnownGenerations
<1>5. VenueWellFormed'
  BY <1>2 DEF BaseInv, VenueWellFormed
<1>. QED BY <1>3, <1>4, <1>5 DEF BaseInv

LEMMA VenueBase ==
    ASSUME BaseInv, VenueStep
    PROVE  BaseInv'
<1>1. UNCHANGED <<entry, ownerOf, lastGen, posts, worker>>
  BY DEF VenueStep, VenueUnchanged
<1>2. KnownGenerations'
  BY <1>1 DEF BaseInv, KnownGenerations
<1>3. /\ venue \in [OrderId -> VenueOrder] /\ wire \in SUBSET Identity
      /\ 0 \in 0..Size /\ {"LIVE", "MATCHED", "CANCELED", "INVALID"} \subseteq Label
  BY SizesAssumption DEF BaseInv, TypeOK, Label
<1>4. ASSUME NEW i \in wire, VenueRefuse(i)
      PROVE  venue' \in [OrderId -> VenueOrder] /\ wire' \in SUBSET Identity /\ VenueWellFormed'
  BY <1>1, <1>3, <1>4 DEF VenueRefuse, BaseInv, VenueWellFormed
<1>5. ASSUME NEW i \in wire, NEW o \in OrderId, VenueAccept(i, o)
      PROVE  venue' \in [OrderId -> VenueOrder] /\ wire' \in SUBSET Identity /\ VenueWellFormed'
  <2> DEFINE new == [label |-> "LIVE", matched |-> 0, l |-> i[1], gen |-> i[2]]
  <2>1. i[1] \in Lifecycle /\ i[2] \in Generation /\ i = <<i[1], i[2]>>
    BY <1>3 DEF Identity
  <2>2. i[2] \in 0..MaxGeneration
    BY <2>1, SizesAssumption DEF Generation
  <2>3. new \in VenueOrder
    BY <1>3, <2>1, <2>2 DEF VenueOrder
  <2>4. venue' = [venue EXCEPT ![o] = new] /\ wire' = wire \ {i}
    BY <1>5 DEF VenueAccept
  <2>5. posts[<<new.l, new.gen>>] > 0 /\ new.matched < Size
    BY <2>1, SizesAssumption DEF BaseInv, VenueWellFormed
  <2>6. VenueWellFormed'
    BY <1>1, <1>3, <2>1, <2>4, <2>5 DEF BaseInv, VenueWellFormed
  <2>. QED BY <1>3, <2>3, <2>4, <2>6
<1>6. ASSUME NEW o \in OrderId, NEW e \in VenueOrder,
             venue' = [venue EXCEPT ![o] = e], wire' = wire,
             venue[o].label = "LIVE", e.label # "NONE", e.l = venue[o].l, e.gen = venue[o].gen,
             e.label = "LIVE" => e.matched < Size
      PROVE  venue' \in [OrderId -> VenueOrder] /\ wire' \in SUBSET Identity /\ VenueWellFormed'
  <2>1. VenueWellFormed'
    BY <1>1, <1>3, <1>6 DEF BaseInv, VenueWellFormed
  <2>. QED BY <1>3, <1>6, <2>1
<1>7. ASSUME NEW o \in OrderId, VenueMatch(o)
      PROVE  venue' \in [OrderId -> VenueOrder] /\ wire' \in SUBSET Identity /\ VenueWellFormed'
  <2> DEFINE e == [venue[o] EXCEPT !.matched = @ + 1,
                                   !.label = IF venue[o].matched + 1 = Size THEN "MATCHED" ELSE "LIVE"]
  <2>1. venue[o] \in VenueOrder /\ venue[o].label = "LIVE" /\ venue[o].matched < Size
    BY <1>3, <1>7 DEF VenueMatch, BaseInv, VenueWellFormed
  <2>2. venue' = [venue EXCEPT ![o] = e] /\ wire' = wire
    BY <1>3, <1>7 DEF VenueMatch
  <2>3. e \in VenueOrder
    <3> DEFINE lab == IF venue[o].matched + 1 = Size THEN "MATCHED" ELSE "LIVE"
    <3>1. venue[o].matched + 1 \in 0..Size
      BY <2>1, SizesAssumption DEF VenueOrder
    <3>2. lab \in Label
      BY <1>3
    <3> HIDE DEF lab
    <3>3. [venue[o] EXCEPT !.matched = @ + 1, !.label = lab] \in VenueOrder
      BY <2>1, <3>1, <3>2 DEF VenueOrder
    <3>. QED BY <3>3 DEF lab
  <2>4. /\ e.label # "NONE" /\ e.l = venue[o].l /\ e.gen = venue[o].gen
        /\ e.label = "LIVE" => e.matched < Size
    BY <2>1, SizesAssumption DEF VenueOrder
  <2>. QED BY <1>6, <2>1, <2>2, <2>3, <2>4
<1>8. ASSUME NEW o \in OrderId, VenueCancel(o) \/ VenueReject(o)
      PROVE  venue' \in [OrderId -> VenueOrder] /\ wire' \in SUBSET Identity /\ VenueWellFormed'
  <2>1. PICK lab \in {"CANCELED", "INVALID"} :
          venue' = [venue EXCEPT ![o].label = lab] /\ wire' = wire /\ venue[o].label = "LIVE"
    BY <1>8 DEF VenueCancel, VenueReject
  <2> DEFINE e == [venue[o] EXCEPT !.label = lab]
  <2>2. venue[o] \in VenueOrder
    BY <1>3
  <2>3. e \in VenueOrder /\ e.label = lab /\ e.l = venue[o].l /\ e.gen = venue[o].gen
    BY <1>3, <2>2 DEF VenueOrder
  <2>4. venue' = [venue EXCEPT ![o] = e]
    BY <1>3, <2>1
  <2>. QED BY <1>6, <2>1, <2>3, <2>4
<1>9. venue' \in [OrderId -> VenueOrder] /\ wire' \in SUBSET Identity /\ VenueWellFormed'
  BY <1>4, <1>5, <1>7, <1>8 DEF VenueStep
<1>. QED BY <1>1, <1>2, <1>9 DEF BaseInv, TypeOK

LEMMA BaseStep == BaseInv /\ [Next]_vars => BaseInv'
<1> SUFFICES ASSUME BaseInv, [Next]_vars PROVE BaseInv'
  OBVIOUS
<1> USE DEF BaseInv
<1>0. ASSUME RowsEvolve, WorkersKept, OwnerTyped, UNCHANGED <<lastGen, venue, wire, posts>>
      PROVE  BaseInv'
  <2>1. VenueWellFormed'
    BY <1>0 DEF VenueWellFormed
  <2>. QED BY <1>0, <2>1, BaseFromParts DEF RowsEvolve, TypeOK
<1>1. CASE UNCHANGED vars
  BY <1>1 DEF vars, TypeOK, KnownGenerations, VenueWellFormed
<1>2. ASSUME NEW w \in Worker, EndStep(w)
      PROVE  BaseInv'
  BY <1>0, <1>2, EndStepRows, EndStepWorkers DEF EndStep
<1>3. ASSUME NEW w \in Worker, NEW l \in Lifecycle, BeginStep(w, l)
      PROVE  BaseInv'
  BY <1>0, <1>3, BeginMarkRows, BeginStepWorkers DEF BeginStep
<1>4. ASSUME NEW w \in Worker, MarkStep(w)
      PROVE  BaseInv'
  <2>1. worker[w].kind # "none" /\ worker' = [worker EXCEPT ![w].pc = "waiting"]
    BY <1>4 DEF MarkStep, At
  <2>2. worker[w].l \in Lifecycle
    BY <2>1, WorkerType
  <2>3. RowsEvolve
    BY <1>4, <2>2, BeginMarkRows
  <2>4. WorkersKept
    BY <2>1, MoveWorkers
  <2>. QED BY <1>0, <1>4, <2>3, <2>4 DEF MarkStep
<1>5. ASSUME NEW w \in Worker, ReplyStep(w)
      PROVE  BaseInv'
  <2>1. RowsEvolve
    BY <1>5, RowsEvolveUnchanged DEF ReplyStep
  <2>2. OwnerTyped
    BY <1>5 DEF ReplyStep, OwnerTyped, TypeOK
  <2>. QED BY <1>0, <1>5, <2>1, <2>2, ReplyStepWorkers DEF ReplyStep
<1>6. ASSUME NEW w \in Worker, RawEnter(w), Current(w)
      PROVE  BaseInv'
  <2>1. worker' = [worker EXCEPT ![w].pc = "entered"] /\ ownerOf' = ownerOf
        /\ UNCHANGED <<lastGen, venue, wire, posts>>
    BY <1>6 DEF RawEnter
  <2>2. RowsEvolve /\ WorkersKept
    BY <1>6, <2>1, RawEnterRows, MoveWorkers
  <2>. QED BY <1>0, <2>1, <2>2 DEF OwnerTyped, TypeOK
<1>7. ASSUME NEW w \in Worker, SendPost(w)
      PROVE  BaseInv'
  <2> DEFINE i == <<worker[w].l, worker[w].gen>>
  <2>1. /\ wire' = wire \cup {i} /\ posts' = [posts EXCEPT ![i] = @ + 1]
        /\ worker' = [worker EXCEPT ![w].pc = "waiting"]
        /\ UNCHANGED <<entry, ownerOf, lastGen, venue>>
    BY <1>7 DEF SendPost
  <2>2. worker[w].kind # "none"
    BY <1>7 DEF SendPost, At
  <2>3. i \in Identity /\ i[1] = worker[w].l /\ i[2] = worker[w].gen /\ i[2] <= lastGen[i[1]]
    BY <2>2 DEF KnownGenerations, Identity
  <2>4. posts' \in [Identity -> Nat] /\ \A j \in Identity : posts'[j] >= posts[j] /\ posts[j] \in Nat
    BY <2>1, <2>3 DEF TypeOK
  <2>5. posts'[i] > 0 /\ \A j \in Identity \ {i} : posts'[j] = posts[j]
    BY <2>1, <2>3 DEF TypeOK
  <2>6. VenueWellFormed'
    <3>1. \A o \in OrderId : venue[o].label # "NONE" => <<venue[o].l, venue[o].gen>> \in Identity
      BY DEF VenueWellFormed, Identity
    <3>2. wire' \in SUBSET Identity
      BY <2>1, <2>3 DEF TypeOK
    <3>. QED BY <2>1, <2>4, <2>5, <3>1, <3>2 DEF VenueWellFormed
  <2>7. RowsEvolve /\ WorkersKept /\ OwnerTyped
    BY <2>1, MoveWorkers, RowsEvolveUnchanged DEF OwnerTyped, TypeOK
  <2>8. \A j \in Identity : posts'[j] > posts[j] => j[2] <= lastGen[j[1]]
    BY <2>3, <2>4, <2>5
  <2>. QED BY <2>1, <2>3, <2>4, <2>6, <2>7, <2>8, BaseFromParts DEF TypeOK
<1>. QED BY <1>1, <1>2, <1>3, <1>4, <1>5, <1>6, <1>7, NextClasses, InstallBase, DropBase, VenueBase

\* Every behaviour of the registry stays typed.
THEOREM TypeCorrect == Spec => []TypeOK
<1>1. Spec => []BaseInv
  BY BaseInit, BaseStep, PTL DEF Spec
<1>. QED BY <1>1, PTL DEF BaseInv

-----------------------------------------------------------------------------
(* One handoff per generation *)

\* A worker before its POST was before the same POST one step ago.
NoNewHandoff == \A v \in Worker : BeforePost(v)' =>
    BeforePost(v) /\ worker'[v].l = worker[v].l /\ worker'[v].gen = worker[v].gen

LEMMA HandoffQuiet ==
    ASSUME BaseInv, HandoffInv, RowsEvolve, NoNewHandoff, posts' = posts
    PROVE  HandoffInv'
<1>1. \A v \in Worker : BeforePost(v)' => worker[v].l \in Lifecycle
  BY DEF NoNewHandoff, BeforePost, BaseInv, KnownGenerations
<1>2. OneHandoff'
  BY DEF HandoffInv, OneHandoff
<1>3. \A w \in Worker : BeforePost(w)' =>
        /\ posts'[<<worker'[w].l, worker'[w].gen>>] = 0
        /\ entry'[worker'[w].l].gen = worker'[w].gen => entry'[worker'[w].l].state # "CREATED"
  BY <1>1 DEF HandoffInv, NoNewHandoff, RowsEvolve
<1>4. \A v, w \in Worker : BeforePost(v)' /\ BeforePost(w)' /\ Same(v, w)' => v = w
  BY DEF HandoffInv, NoNewHandoff, Same
<1>5. \A i \in Identity : posts'[i] > 0 /\ entry'[i[1]].gen = i[2] => entry'[i[1]].state # "CREATED"
  BY DEF HandoffInv, RowsEvolve, Identity
<1>. QED BY <1>2, <1>3, <1>4, <1>5 DEF HandoffInv

\* A submission begins on a row in CREATED, so nothing was handed off before.
LEMMA HandoffBegin ==
    ASSUME BaseInv, HandoffInv, NEW w \in Worker, NEW l \in Lifecycle, BeginStep(w, l)
    PROVE  HandoffInv'
<1>1. PICK k \in {"submit", "cancel", "refresh", "reconcile"}, pc \in {"started", "waiting"} :
        /\ Begin(w, k, pc, l)
        /\ k = "submit" => entry[l].state = "CREATED" /\ entry'[l].state # "CREATED"
  BY DEF BeginStep
<1>2. /\ RowsEvolve /\ posts' = posts /\ worker[w].kind = "none"
      /\ entry[l].gen \in Generation
  <2>1. entry[l] \in Entry /\ entry[l].gen # 0
    BY DEF BaseInv, TypeOK, BeginStep
  <2>2. entry[l].gen \in Generation
    BY <2>1, SizesAssumption DEF Entry, Generation
  <2>3. RowsEvolve
    BY BeginMarkRows DEF BaseInv
  <2>. QED BY <2>2, <2>3, IdleType DEF BeginStep
<1>3. /\ worker'[w].kind = k /\ worker'[w].l = l /\ worker'[w].gen = entry[l].gen
      /\ \A v \in Worker \ {w} : worker'[v] = worker[v]
  <2>1. worker \in [Worker -> WorkerState]
    BY DEF BaseInv, TypeOK
  <2>. QED BY <1>1, <2>1 DEF Begin, Idle
<1>4. CASE k # "submit"
  <2>1. NoNewHandoff
    BY <1>2, <1>3, <1>4 DEF NoNewHandoff, BeforePost
  <2>. QED BY <1>2, <2>1, HandoffQuiet
<1>5. CASE k = "submit"
  <2>1. entry[l].state = "CREATED" /\ entry'[l].state # "CREATED"
    BY <1>1, <1>5
  <2>2. <<l, entry[l].gen>> \in Identity /\ posts[<<l, entry[l].gen>>] \in Nat
    BY <1>2 DEF Identity, BaseInv, TypeOK
  <2>3. posts[<<l, entry[l].gen>>] = 0
    BY <2>1, <2>2 DEF HandoffInv
  <2>4. \A v \in Worker : BeforePost(v) => ~(worker[v].l = l /\ worker[v].gen = entry[l].gen)
    BY <2>1 DEF HandoffInv
  <2>5. \A v \in Worker : BeforePost(v) => worker[v].l \in Lifecycle
    BY DEF BeforePost, BaseInv, KnownGenerations
  <2>6. \A v \in Worker \ {w} : /\ BeforePost(v)' <=> BeforePost(v)
                                /\ worker'[v].l = worker[v].l /\ worker'[v].gen = worker[v].gen
    BY <1>3 DEF BeforePost
  <2>7. \A v \in Worker : BeforePost(v)' =>
          /\ posts'[<<worker'[v].l, worker'[v].gen>>] = 0
          /\ entry'[worker'[v].l].gen = worker'[v].gen => entry'[worker'[v].l].state # "CREATED"
    <3>1. ASSUME NEW v \in Worker \ {w}, BeforePost(v)'
          PROVE  /\ posts'[<<worker'[v].l, worker'[v].gen>>] = 0
                 /\ entry'[worker'[v].l].gen = worker'[v].gen => entry'[worker'[v].l].state # "CREATED"
      BY <1>2, <2>5, <2>6, <3>1 DEF HandoffInv, RowsEvolve
    <3>. QED BY <1>2, <1>3, <2>1, <2>3, <3>1
  <2>8. \A u, v \in Worker : BeforePost(u)' /\ BeforePost(v)' /\ Same(u, v)' => u = v
    <3>1. ASSUME NEW u \in Worker \ {w}, NEW v \in Worker \ {w},
                 BeforePost(u)', BeforePost(v)', Same(u, v)'
          PROVE  u = v
      BY <2>6, <3>1 DEF HandoffInv, Same
    <3>2. \A v \in Worker \ {w} : BeforePost(v)' => ~Same(v, w)' /\ ~Same(w, v)'
      BY <1>3, <2>4, <2>6 DEF Same
    <3>. QED BY <3>1, <3>2
  <2>9. OneHandoff' /\ \A i \in Identity :
          posts'[i] > 0 /\ entry'[i[1]].gen = i[2] => entry'[i[1]].state # "CREATED"
    BY <1>2 DEF HandoffInv, OneHandoff, RowsEvolve, Identity
  <2>. QED BY <2>7, <2>8, <2>9 DEF HandoffInv
<1>. QED BY <1>4, <1>5

\* The POST leaves: it was the first of its generation.
LEMMA HandoffPost ==
    ASSUME BaseInv, HandoffInv, NEW w \in Worker, SendPost(w)
    PROVE  HandoffInv'
<1> DEFINE i == <<worker[w].l, worker[w].gen>>
<1>1. /\ posts' = [posts EXCEPT ![i] = @ + 1] /\ entry' = entry
      /\ worker' = [worker EXCEPT ![w].pc = "waiting"] /\ BeforePost(w)
  BY DEF SendPost, At, BeforePost
<1>2. i \in Identity /\ posts \in [Identity -> Nat] /\ posts[i] = 0
  BY <1>1 DEF Identity, HandoffInv, BeforePost, BaseInv, KnownGenerations, TypeOK
<1>3. posts'[i] = 1 /\ \A j \in Identity \ {i} : posts'[j] = posts[j]
  BY <1>1, <1>2
<1>4. /\ ~BeforePost(w)'
      /\ \A v \in Worker : BeforePost(v)' =>
            BeforePost(v) /\ worker'[v].l = worker[v].l /\ worker'[v].gen = worker[v].gen
  BY <1>1 DEF BeforePost, BaseInv, TypeOK, WorkerState
<1>5. OneHandoff'
  BY <1>3 DEF HandoffInv, OneHandoff
<1>6. \A v \in Worker : BeforePost(v)' =>
        /\ posts'[<<worker'[v].l, worker'[v].gen>>] = 0
        /\ entry'[worker'[v].l].gen = worker'[v].gen => entry'[worker'[v].l].state # "CREATED"
  <2>1. ASSUME NEW v \in Worker, BeforePost(v)'
        PROVE  posts'[<<worker'[v].l, worker'[v].gen>>] = 0
    <3>1. v # w /\ BeforePost(v) /\ ~Same(v, w)
      BY <1>1, <1>4, <2>1 DEF HandoffInv
    <3>2. <<worker[v].l, worker[v].gen>> \in Identity \ {i}
      BY <3>1 DEF Same, Identity, BeforePost, BaseInv, KnownGenerations
    <3>. QED BY <1>3, <1>4, <2>1, <3>1, <3>2 DEF HandoffInv
  <2>. QED BY <1>1, <1>4, <2>1 DEF HandoffInv
<1>7. \A v, u \in Worker : BeforePost(v)' /\ BeforePost(u)' /\ Same(v, u)' => v = u
  BY <1>4 DEF HandoffInv, Same
<1>8. \A j \in Identity : posts'[j] > 0 /\ entry'[j[1]].gen = j[2] => entry'[j[1]].state # "CREATED"
  BY <1>1, <1>3 DEF HandoffInv
<1>. QED BY <1>5, <1>6, <1>7, <1>8 DEF HandoffInv

\* A new row is for a generation no worker and no POST has ever named.
LEMMA HandoffInstall ==
    ASSUME BaseInv, HandoffInv, NEW l \in Lifecycle, NEW g \in Generation, InstallStep(l, g)
    PROVE  HandoffInv'
<1>1. /\ entry' = [entry EXCEPT ![l] = FreshEntry(g)] /\ g > lastGen[l]
      /\ UNCHANGED <<worker, posts>>
  BY DEF InstallStep, Install
<1>2. FreshEntry(g).gen = g
  BY DEF FreshEntry, NoEntry
<1>3. entry'[l].gen = g /\ \A k \in Lifecycle \ {l} : entry'[k] = entry[k]
  BY <1>1, <1>2 DEF BaseInv, TypeOK
<1>4. lastGen[l] \in Nat /\ g \in Nat
  BY SizesAssumption DEF BaseInv, TypeOK, Generation
<1>5. \A w \in Worker : BeforePost(w) =>
        worker[w].l \in Lifecycle /\ worker[w].gen \in Nat /\ worker[w].gen <= lastGen[worker[w].l]
  BY SizesAssumption DEF BeforePost, BaseInv, KnownGenerations, Generation
<1>6. \A w \in Worker : BeforePost(w)' =>
        /\ posts'[<<worker'[w].l, worker'[w].gen>>] = 0
        /\ entry'[worker'[w].l].gen = worker'[w].gen => entry'[worker'[w].l].state # "CREATED"
  BY <1>1, <1>3, <1>4, <1>5 DEF BeforePost, HandoffInv
<1>7. \A j \in Identity : posts'[j] > 0 /\ entry'[j[1]].gen = j[2] => entry'[j[1]].state # "CREATED"
  <2>1. \A j \in Identity : j[1] \in Lifecycle /\ j[2] \in Nat
    BY SizesAssumption DEF Identity, Generation
  <2>. QED BY <1>1, <1>3, <1>4, <2>1 DEF HandoffInv, BaseInv, KnownGenerations
<1>. QED BY <1>1, <1>6, <1>7 DEF HandoffInv, OneHandoff, BeforePost, Same

LEMMA HandoffDrop ==
    ASSUME BaseInv, HandoffInv, NEW rows \in SUBSET Lifecycle, DropStep(rows)
    PROVE  HandoffInv'
<1>1. /\ \A k \in Lifecycle : entry'[k] = entry[k] \/ entry'[k].gen = 0
      /\ UNCHANGED <<worker, posts>>
  BY DEF DropStep, Drop, NoEntry
<1>2. \A w \in Worker : BeforePost(w) => worker[w].l \in Lifecycle /\ worker[w].gen # 0
  BY SizesAssumption DEF BeforePost, BaseInv, KnownGenerations, Generation
<1>3. \A j \in Identity : j[1] \in Lifecycle /\ j[2] # 0
  BY SizesAssumption DEF Identity, Generation
<1>4. \A w \in Worker : BeforePost(w)' =>
        /\ posts'[<<worker'[w].l, worker'[w].gen>>] = 0
        /\ entry'[worker'[w].l].gen = worker'[w].gen => entry'[worker'[w].l].state # "CREATED"
  BY <1>1, <1>2 DEF BeforePost, HandoffInv
<1>5. \A j \in Identity : posts'[j] > 0 /\ entry'[j[1]].gen = j[2] => entry'[j[1]].state # "CREATED"
  BY <1>1, <1>3 DEF HandoffInv
<1>. QED BY <1>1, <1>4, <1>5 DEF HandoffInv, OneHandoff, BeforePost, Same

LEMMA HandoffInit == Init => HandoffInv
<1> SUFFICES ASSUME Init PROVE HandoffInv
  OBVIOUS
<1>1. \A w \in Worker : ~BeforePost(w)
  BY DEF Init, BeforePost, Idle
<1>2. \A i \in Identity : posts[i] = 0
  BY DEF Init
<1>. QED BY <1>1, <1>2 DEF HandoffInv, OneHandoff

LEMMA HandoffStep == BaseInv /\ HandoffInv /\ [Next]_vars => HandoffInv'
<1> SUFFICES ASSUME BaseInv, HandoffInv, [Next]_vars PROVE HandoffInv'
  OBVIOUS
<1>0. TypeOK /\ KnownGenerations /\ worker \in [Worker -> WorkerState]
  BY DEF BaseInv, TypeOK
<1>1. CASE UNCHANGED vars
  BY <1>1 DEF vars, HandoffInv, OneHandoff, BeforePost, Same
<1>2. ASSUME NEW w \in Worker, EndStep(w)
      PROVE  HandoffInv'
  <2>1. RowsEvolve
    BY <1>0, <1>2, EndStepRows
  <2>2. NoNewHandoff
    BY <1>0, <1>2, IdleType DEF EndStep, NoNewHandoff, BeforePost
  <2>. QED BY <1>2, <2>1, <2>2, HandoffQuiet DEF EndStep
<1>3. ASSUME NEW w \in Worker, NEW l \in Lifecycle, BeginStep(w, l)
      PROVE  HandoffInv'
  BY <1>3, HandoffBegin
<1>4. ASSUME NEW w \in Worker, MarkStep(w)
      PROVE  HandoffInv'
  <2>1. RowsEvolve
    <3>1. worker[w].l \in Lifecycle
      BY <1>0, <1>4, WorkerType DEF MarkStep, At
    <3>. QED BY <1>0, <1>4, <3>1, BeginMarkRows
  <2>2. NoNewHandoff
    BY <1>0, <1>4 DEF MarkStep, NoNewHandoff, BeforePost, WorkerState
  <2>. QED BY <1>4, <2>1, <2>2, HandoffQuiet DEF MarkStep
<1>5. ASSUME NEW w \in Worker, ReplyStep(w)
      PROVE  HandoffInv'
  <2>1. RowsEvolve /\ posts' = posts
    BY <1>0, <1>5, RowsEvolveUnchanged DEF ReplyStep
  <2>2. NoNewHandoff
    BY <1>0, <1>5 DEF ReplyStep, NoNewHandoff, BeforePost, WorkerState
  <2>. QED BY <2>1, <2>2, HandoffQuiet
<1>6. ASSUME NEW w \in Worker, RawEnter(w), Current(w)
      PROVE  HandoffInv'
  <2>1. RowsEvolve
    BY <1>0, <1>6, RawEnterRows
  <2>2. NoNewHandoff
    BY <1>0, <1>6 DEF RawEnter, At, NoNewHandoff, BeforePost, WorkerState
  <2>. QED BY <1>6, <2>1, <2>2, HandoffQuiet DEF RawEnter
<1>7. CASE VenueStep
  <2>1. RowsEvolve
    BY <1>0, <1>7, RowsEvolveUnchanged DEF VenueStep, VenueUnchanged
  <2>2. NoNewHandoff
    BY <1>7 DEF VenueStep, NoNewHandoff, BeforePost
  <2>. QED BY <1>7, <2>1, <2>2, HandoffQuiet DEF VenueStep, VenueUnchanged
<1>8. ASSUME NEW w \in Worker, SendPost(w)
      PROVE  HandoffInv'
  BY <1>8, HandoffPost
<1>. QED BY <1>0, <1>1, <1>2, <1>3, <1>4, <1>5, <1>6, <1>7, <1>8,
            NextClasses, HandoffInstall, HandoffDrop

LEMMA HandoffInvariant == Spec => [](BaseInv /\ HandoffInv)
BY BaseInit, BaseStep, HandoffInit, HandoffStep, PTL DEF Spec

\* A lifecycle generation is posted at most once, whatever times out, is
\* reconciled, is superseded or is released: submit's single-handoff gate holds.
THEOREM OneHandoffHolds == Spec => []OneHandoff
BY HandoffInvariant, PTL DEF HandoffInv

-----------------------------------------------------------------------------
(* What the venue may do to its orders *)

\* Apart from an acceptance, the venue only moves orders it already knows, and
\* an order that is over stays as it is.
VenueQuiet ==
    /\ wire' \subseteq wire
    /\ \A o \in OrderId :
          /\ venue'[o].l = venue[o].l /\ venue'[o].gen = venue[o].gen
          /\ venue'[o].label = "NONE" <=> venue[o].label = "NONE"
          /\ venue[o].label # "LIVE" => venue'[o] = venue[o]

Accepts(i, o) ==
    /\ i \in wire /\ venue[o].label = "NONE" /\ wire' = wire \ {i}
    /\ venue'[o].label = "LIVE" /\ venue'[o].l = i[1] /\ venue'[o].gen = i[2]
    /\ \A p \in OrderId \ {o} : venue'[p] = venue[p]

LEMMA VenueMoves ==
    ASSUME BaseInv, VenueStep
    PROVE  VenueQuiet \/ \E i \in wire, o \in OrderId : Accepts(i, o)
<1>0. venue \in [OrderId -> VenueOrder]
  BY DEF BaseInv, TypeOK
<1>1. ASSUME NEW i \in wire, VenueRefuse(i)
      PROVE  VenueQuiet
  BY <1>1 DEF VenueRefuse, VenueQuiet
<1>2. ASSUME NEW i \in wire, NEW o \in OrderId, VenueAccept(i, o)
      PROVE  Accepts(i, o)
  BY <1>0, <1>2 DEF VenueAccept, Accepts
<1>3. ASSUME NEW o \in OrderId, VenueMatch(o)
      PROVE  VenueQuiet
  <2> DEFINE lab == IF venue[o].matched + 1 = Size THEN "MATCHED" ELSE "LIVE"
  <2>1. lab # "NONE"
    OBVIOUS
  <2>2. venue' = [venue EXCEPT ![o].matched = @ + 1, ![o].label = lab]
        /\ venue[o].label = "LIVE" /\ wire' = wire
    BY <1>3 DEF VenueMatch
  <2> HIDE DEF lab
  <2>3. /\ venue'[o].l = venue[o].l /\ venue'[o].gen = venue[o].gen /\ venue'[o].label = lab
        /\ \A p \in OrderId \ {o} : venue'[p] = venue[p]
    BY <1>0, <2>2 DEF VenueOrder
  <2>. QED BY <2>1, <2>2, <2>3 DEF VenueQuiet
<1>4. ASSUME NEW o \in OrderId, VenueCancel(o) \/ VenueReject(o)
      PROVE  VenueQuiet
  <2>1. PICK lab \in {"CANCELED", "INVALID"} :
          venue' = [venue EXCEPT ![o].label = lab] /\ wire' = wire /\ venue[o].label = "LIVE"
    BY <1>4 DEF VenueCancel, VenueReject
  <2>2. /\ venue'[o].l = venue[o].l /\ venue'[o].gen = venue[o].gen /\ venue'[o].label = lab
        /\ \A p \in OrderId \ {o} : venue'[p] = venue[p]
    BY <1>0, <2>1 DEF VenueOrder
  <2>. QED BY <2>1, <2>2 DEF VenueQuiet
<1>. QED BY <1>1, <1>2, <1>3, <1>4 DEF VenueStep

\* Orders of a known identity keep it, through every step of the venue.
LEMMA VenueKeeps ==
    ASSUME BaseInv, VenueStep
    PROVE  \A o \in OrderId : venue[o].label # "NONE" =>
              /\ venue'[o].l = venue[o].l /\ venue'[o].gen = venue[o].gen
              /\ venue'[o].label # "NONE"
              /\ venue[o].label # "LIVE" => venue'[o] = venue[o]
BY VenueMoves DEF VenueQuiet, Accepts

\* An unassigned order id belongs to no lifecycle.
LEMMA Assigned ==
    ASSUME BaseInv, NEW o \in OrderId, venue[o].l \in Lifecycle \/ venue[o].matched > 0
    PROVE  venue[o].label # "NONE"
<1>. SUFFICES ASSUME venue[o].label = "NONE" PROVE FALSE
  OBVIOUS
<1>1. venue[o] = Unassigned
  BY DEF BaseInv, VenueWellFormed
<1>2. venue[o].l = NoLifecycle /\ venue[o].matched = 0
  BY <1>1 DEF Unassigned
<1>. QED BY <1>2, SentinelAssumption

LEMMA ZeroAtVenueStable ==
    ASSUME BaseInv, VenueStep \/ venue' = venue, NEW l, NEW g, ZeroAtVenue(l, g)
    PROVE  ZeroAtVenue(l, g)'
BY VenueKeeps DEF ZeroAtVenue

\* After a terminal zero, its identity can neither rest nor fill any more.
LEMMA ZeroNotExposed ==
    ASSUME BaseInv, HandoffInv, OneOrderPerPost,
           NEW l \in Lifecycle, NEW g \in Generation, ZeroAtVenue(l, g)
    PROVE  ~Exposed(l, g)
<1>1. PICK o \in OrderId : /\ venue[o].l = l /\ venue[o].gen = g /\ venue[o].matched = 0
                           /\ venue[o].label \in {"CANCELED", "INVALID"}
  BY DEF ZeroAtVenue
<1>2. posts[<<l, g>>] > 0
  BY <1>1 DEF BaseInv, VenueWellFormed
<1>3. \A w \in Worker : At(w, "submit", "entered") => ~(worker[w].l = l /\ worker[w].gen = g)
  BY <1>2 DEF HandoffInv, BeforePost, At
<1>4. <<l, g>> \notin wire
  BY <1>1 DEF OneOrderPerPost
<1>5. ASSUME NEW p \in OrderId, venue[p].l = l, venue[p].gen = g,
             venue[p].label = "LIVE" \/ venue[p].matched > 0
      PROVE  FALSE
  <2>1. venue[p].label # "NONE"
    BY <1>5, Assigned
  <2>2. p = o
    BY <1>1, <1>5, <2>1 DEF OneOrderPerPost
  <2>. QED BY <1>1, <1>5, <2>2
<1>. QED BY <1>3, <1>4, <1>5 DEF Exposed

-----------------------------------------------------------------------------
(* One POST, one order *)

LEMMA OnePostVenue ==
    ASSUME BaseInv, OneOrderPerPost, VenueStep
    PROVE  OneOrderPerPost'
<1>1. CASE VenueQuiet
  BY <1>1 DEF OneOrderPerPost, VenueQuiet
<1>2. ASSUME NEW i \in wire, NEW o \in OrderId, Accepts(i, o)
      PROVE  OneOrderPerPost'
  <2>1. \A j \in wire : j = <<j[1], j[2]>>
    BY DEF BaseInv, TypeOK, Identity
  <2>2. \A j \in wire' : \A p \in OrderId : ~(venue'[p].l = j[1] /\ venue'[p].gen = j[2])
    BY <1>2, <2>1 DEF Accepts, OneOrderPerPost
  <2>3. \A p \in OrderId \ {o} : ~(venue'[p].l = i[1] /\ venue'[p].gen = i[2])
    BY <1>2 DEF Accepts, OneOrderPerPost
  <2>4. \A p, q \in OrderId : (/\ venue'[p].label # "NONE" /\ venue'[q].label # "NONE"
                               /\ venue'[p].l = venue'[q].l /\ venue'[p].gen = venue'[q].gen) => p = q
    BY <1>2, <2>3 DEF Accepts, OneOrderPerPost
  <2>. QED BY <2>2, <2>4 DEF OneOrderPerPost
<1>. QED BY <1>1, <1>2, VenueMoves

LEMMA OnePostSend ==
    ASSUME BaseInv, HandoffInv, OneOrderPerPost, NEW w \in Worker, SendPost(w)
    PROVE  OneOrderPerPost'
<1> DEFINE i == <<worker[w].l, worker[w].gen>>
<1>1. wire' = wire \cup {i} /\ venue' = venue /\ BeforePost(w)
  BY DEF SendPost, At, BeforePost
<1>2. worker[w].l \in Lifecycle /\ posts[i] = 0
  BY <1>1 DEF HandoffInv, BeforePost, BaseInv, KnownGenerations
<1>3. \A o \in OrderId : ~(venue[o].l = i[1] /\ venue[o].gen = i[2])
  <2>1. ASSUME NEW o \in OrderId, venue[o].l = i[1], venue[o].gen = i[2]
        PROVE  FALSE
    <3>1. venue[o].label # "NONE"
      BY <1>2, <2>1, Assigned
    <3>2. posts[<<venue[o].l, venue[o].gen>>] > 0
      BY <3>1 DEF BaseInv, VenueWellFormed
    <3>. QED BY <1>2, <2>1, <3>2
  <2>. QED BY <2>1
<1>. QED BY <1>1, <1>3 DEF OneOrderPerPost

-----------------------------------------------------------------------------
(* Exact order ids and sound zero verdicts *)

\* What the exposure argument keeps true together.
Evident == OidsExact /\ ZeroSound

\* A verdict of terminal zero that an answer carries is the truth.
ProvesZero(a, l, g) == a.what = "zero" => ZeroAtVenue(l, g)

\* The venue and the worker's part in a step, for every worker that is not idle.
WorkersEvident == \A w \in Worker : worker'[w] # Idle =>
    /\ Names(worker'[w].oid, worker'[w].l, worker'[w].gen)
    /\ ProvesZero(worker'[w].answer, worker'[w].l, worker'[w].gen)

LEMMA WorkersEvidentNow ==
    ASSUME BaseInv, Evident, NEW w \in Worker
    PROVE  /\ Names(worker[w].oid, worker[w].l, worker[w].gen)
           /\ ProvesZero(worker[w].answer, worker[w].l, worker[w].gen)
BY DEF Evident, OidsExact, ZeroSound, ProvesZero

\* The venue stands still and a row gains only what a worker has evidence for.
LEMMA EvidentRows ==
    ASSUME BaseInv, Evident, RowsEvolve, WorkersEvident, venue' = venue,
           (\E l : Gains(l, NoOrder, FALSE)) \/ (\E w \in Worker : EndGains(w))
    PROVE  Evident'
<1>1. \A k \in Lifecycle : entry'[k].gen = entry[k].gen
  BY DEF RowsEvolve
<1>2. \A k \in Lifecycle : Names(entry'[k].oid, k, entry[k].gen)
  <2>1. CASE \E l : Gains(l, NoOrder, FALSE)
    BY <2>1 DEF Gains, Evident, OidsExact, Names
  <2>2. ASSUME NEW w \in Worker, EndGains(w)
        PROVE  \A k \in Lifecycle : Names(entry'[k].oid, k, entry[k].gen)
    BY <2>2 DEF EndGains, Evident, OidsExact, Names
  <2>. QED BY <2>1, <2>2
<1>3. \A k \in Lifecycle : entry'[k].recon = "zero" => ZeroAtVenue(k, entry[k].gen)
  <2>1. CASE \E l : Gains(l, NoOrder, FALSE)
    BY <2>1 DEF Gains, Evident, ZeroSound
  <2>2. ASSUME NEW w \in Worker, EndGains(w)
        PROVE  \A k \in Lifecycle : entry'[k].recon = "zero" => ZeroAtVenue(k, entry[k].gen)
    BY <2>2 DEF EndGains, Evident, ZeroSound
  <2>. QED BY <2>1, <2>2
<1>4. \A k \in Lifecycle : entry'[k].recon = "zero" => ZeroAtVenue(k, entry[k].gen)'
  BY <1>1, <1>3 DEF ZeroAtVenue
<1>5. \A w \in Worker : Names(worker'[w].oid, worker'[w].l, worker'[w].gen)
  BY IdleType DEF WorkersEvident, Names
<1>6. \A w \in Worker : worker'[w].answer.what = "zero" => ZeroAtVenue(worker[w].l, worker[w].gen)'
  BY IdleType DEF WorkersEvident, ProvesZero, ZeroAtVenue
<1>7. \A k \in Lifecycle : Names(entry[k].oid, k, entry[k].gen)'
  BY <1>1, <1>2 DEF Names
<1>8. \A w \in Worker : Names(worker[w].oid, worker[w].l, worker[w].gen)'
  BY <1>5 DEF Names
<1>. QED BY <1>4, <1>6, <1>7, <1>8 DEF Evident, OidsExact, ZeroSound

LEMMA EvidentEnd ==
    ASSUME BaseInv, Evident, NEW w \in Worker, EndStep(w)
    PROVE  Evident'
<1>1. RowsEvolve /\ EndGains(w)
  BY EndStepRows DEF BaseInv
<1>2. worker' = [worker EXCEPT ![w] = Idle] /\ venue' = venue
  BY DEF EndStep
<1>3. WorkersEvident
  BY <1>2, WorkersEvidentNow DEF WorkersEvident, BaseInv, TypeOK
<1>. QED BY <1>1, <1>2, <1>3, EvidentRows

LEMMA EvidentBegin ==
    ASSUME BaseInv, Evident, NEW w \in Worker, NEW l \in Lifecycle, BeginStep(w, l)
    PROVE  Evident'
<1>1. RowsEvolve /\ Gains(l, NoOrder, FALSE) /\ venue' = venue
  BY BeginMarkRows DEF BaseInv, BeginStep
<1>2. PICK k, pc : Begin(w, k, pc, l)
  BY DEF BeginStep
<1>3. /\ worker'[w].l = l /\ worker'[w].gen = entry[l].gen /\ worker'[w].oid = entry[l].oid
      /\ worker'[w].answer.what = "none"
      /\ \A v \in Worker \ {w} : worker'[v] = worker[v]
  <2>1. worker \in [Worker -> WorkerState]
    BY DEF BaseInv, TypeOK
  <2>. QED BY <1>2, <2>1 DEF Begin, Idle, NoAnswer
<1>4. Names(entry[l].oid, l, entry[l].gen)
  BY DEF Evident, OidsExact
<1>5. WorkersEvident
  BY <1>3, <1>4, WorkersEvidentNow DEF WorkersEvident, ProvesZero
<1>. QED BY <1>1, <1>5, EvidentRows

\* A worker that only moves its program counter.
LEMMA EvidentMove ==
    ASSUME BaseInv, Evident, NEW w \in Worker, NEW pc, RowsEvolve, NEW l, Gains(l, NoOrder, FALSE),
           worker' = [worker EXCEPT ![w].pc = pc], venue' = venue
    PROVE  Evident'
<1>1. \A v \in Worker : /\ worker'[v].l = worker[v].l /\ worker'[v].gen = worker[v].gen
                        /\ worker'[v].oid = worker[v].oid /\ worker'[v].answer = worker[v].answer
  BY DEF BaseInv, TypeOK, WorkerState
<1>2. WorkersEvident
  BY <1>1, WorkersEvidentNow DEF WorkersEvident
<1>. QED BY <1>2, EvidentRows

\* An answer about an order of another identity is impossible with an exact locator.
LEMMA EvidentReply ==
    ASSUME BaseInv, Evident, LocatorExact, NEW w \in Worker, ReplyStep(w)
    PROVE  Evident'
<1>1. PICK o \in OrderId \cup {NoOrder}, a \in Answer :
        /\ worker' = [worker EXCEPT ![w].pc = "answered", ![w].oid = o, ![w].answer = a]
        /\ o # NoOrder => o = worker[w].oid \/ (venue[o].label # "NONE" /\ BelongsTo(o, w))
        /\ a.what = "zero" => /\ o # NoOrder /\ venue[o].label \in {"CANCELED", "INVALID"}
                              /\ venue[o].matched = 0
  BY DEF ReplyStep
<1>2. /\ worker'[w].l = worker[w].l /\ worker'[w].gen = worker[w].gen
      /\ worker'[w].oid = o /\ worker'[w].answer = a
      /\ \A v \in Worker \ {w} : worker'[v] = worker[v]
  BY <1>1 DEF BaseInv, TypeOK, WorkerState
<1>3. Names(o, worker[w].l, worker[w].gen)
  BY <1>1, WorkersEvidentNow DEF Names, BelongsTo
<1>4. ProvesZero(a, worker[w].l, worker[w].gen)
  BY <1>1, <1>3 DEF ProvesZero, Names, ZeroAtVenue
<1>5. WorkersEvident
  BY <1>2, <1>3, <1>4, WorkersEvidentNow DEF WorkersEvident
<1>6. RowsEvolve /\ Gains(w, NoOrder, FALSE) /\ venue' = venue
  BY RowsEvolveUnchanged DEF BaseInv, ReplyStep
<1>. QED BY <1>5, <1>6, EvidentRows

LEMMA EvidentVenue ==
    ASSUME BaseInv, Evident, VenueStep
    PROVE  Evident'
<1>1. UNCHANGED <<entry, worker>>
  BY DEF VenueStep, VenueUnchanged
<1>2. \A o \in OrderId \cup {NoOrder} : \A l, g : Names(o, l, g) => Names(o, l, g)'
  BY VenueKeeps DEF Names
<1>3. \A k \in Lifecycle : entry[k].oid \in OrderId \cup {NoOrder}
  BY DEF BaseInv, TypeOK, Entry
<1>4. \A w \in Worker : worker[w].oid \in OrderId \cup {NoOrder}
  BY DEF BaseInv, TypeOK, WorkerState
<1>5. OidsExact'
  BY <1>1, <1>2, <1>3, <1>4 DEF Evident, OidsExact
<1>6. ZeroSound'
  BY <1>1, ZeroAtVenueStable DEF Evident, ZeroSound
<1>. QED BY <1>5, <1>6 DEF Evident

-----------------------------------------------------------------------------
(* No exposure without its row *)

\* No identity becomes exposed.
NoNewExposure == \A l \in Lifecycle : \A g \in Generation : Exposed(l, g)' => Exposed(l, g)

LEMMA AccountQuiet ==
    ASSUME BaseInv, ExposureAccountable, RowsEvolve, NoNewExposure
    PROVE  ExposureAccountable'
BY DEF ExposureAccountable, RowsEvolve, NoNewExposure

\* Where the venue and the wire stand still, only a worker can expose.
LEMMA ExposureByWorker ==
    ASSUME BaseInv, UNCHANGED <<venue, wire>>,
           \A v \in Worker : At(v, "submit", "entered")' =>
               /\ At(v, "submit", "entered")
               /\ worker'[v].l = worker[v].l /\ worker'[v].gen = worker[v].gen
    PROVE  NoNewExposure
BY DEF NoNewExposure, Exposed

LEMMA ExposureByVenue ==
    ASSUME BaseInv, VenueStep
    PROVE  NoNewExposure
<1>1. UNCHANGED worker
  BY DEF VenueStep
<1>2. CASE VenueQuiet
  BY <1>1, <1>2 DEF VenueQuiet, NoNewExposure, Exposed, At
<1>3. ASSUME NEW i \in wire, NEW o \in OrderId, Accepts(i, o)
      PROVE  NoNewExposure
  <2>1. i = <<i[1], i[2]>>
    BY DEF BaseInv, TypeOK, Identity
  <2>. QED BY <1>1, <1>3, <2>1 DEF Accepts, NoNewExposure, Exposed, At
<1>. QED BY <1>2, <1>3, VenueMoves

\* A row goes, or makes room for a newer one, only without exposure.
LEMMA UnexposedWhenProven ==
    ASSUME BaseInv, HandoffInv, OneOrderPerPost, ZeroSound, ExposureAccountable,
           NEW l \in Lifecycle, Replaceable(l) \/ Releasable(l), NEW g \in Generation
    PROVE  ~Exposed(l, g)
<1> SUFFICES ASSUME Exposed(l, g) PROVE FALSE
  OBVIOUS
<1>1. entry[l].gen = g /\ entry[l].raw
  BY DEF ExposureAccountable
<1>2. entry[l].recon = "zero"
  BY <1>1 DEF Replaceable, Releasable
<1>3. ZeroAtVenue(l, g)
  BY <1>1, <1>2 DEF ZeroSound
<1>. QED BY <1>3, ZeroNotExposed

LEMMA AccountInstall ==
    ASSUME BaseInv, HandoffInv, OneOrderPerPost, ZeroSound, ExposureAccountable,
           NEW l \in Lifecycle, NEW g \in Generation, InstallStep(l, g)
    PROVE  ExposureAccountable'
<1>1. /\ \A k \in Lifecycle \ {l} : entry'[k] = entry[k]
      /\ UNCHANGED <<worker, venue, wire>>
  BY DEF InstallStep, Install, BaseInv, TypeOK
<1>2. \A h \in Generation : ~Exposed(l, h)
  <2>1. CASE entry[l].gen = 0
    BY <2>1, SizesAssumption DEF ExposureAccountable, Generation
  <2>2. CASE entry[l].gen # 0
    BY <2>2, UnexposedWhenProven DEF InstallStep
  <2>. QED BY <2>1, <2>2
<1>3. \A k \in Lifecycle : \A h \in Generation : Exposed(k, h)' => Exposed(k, h)
  BY <1>1 DEF Exposed, At
<1>. QED BY <1>1, <1>2, <1>3 DEF ExposureAccountable

LEMMA AccountDrop ==
    ASSUME BaseInv, HandoffInv, OneOrderPerPost, ZeroSound, ExposureAccountable,
           NEW rows \in SUBSET Lifecycle, DropStep(rows)
    PROVE  ExposureAccountable'
<1>1. /\ \A k \in Lifecycle \ rows : entry'[k] = entry[k]
      /\ UNCHANGED <<worker, venue, wire>>
  BY DEF DropStep, Drop
<1>2. \A k \in rows : \A h \in Generation : ~Exposed(k, h)
  BY UnexposedWhenProven DEF DropStep
<1>3. \A k \in Lifecycle : \A h \in Generation : Exposed(k, h)' => Exposed(k, h)
  BY <1>1 DEF Exposed, At
<1>. QED BY <1>1, <1>2, <1>3 DEF ExposureAccountable

\* The raw POST boundary: the row says raw before anything can leave.
LEMMA AccountRawEnter ==
    ASSUME BaseInv, ExposureAccountable, NEW w \in Worker, RawEnter(w), Current(w)
    PROVE  ExposureAccountable'
<1>1. RowsEvolve /\ entry'[worker[w].l].raw
  BY RawEnterRows DEF BaseInv
<1>2. worker' = [worker EXCEPT ![w].pc = "entered"] /\ UNCHANGED <<venue, wire>>
      /\ worker[w].l \in Lifecycle
  BY DEF RawEnter, At, BaseInv, KnownGenerations
<1>3. \A v \in Worker : /\ worker'[v].l = worker[v].l /\ worker'[v].gen = worker[v].gen
                        /\ worker'[v].kind = worker[v].kind
                        /\ v # w => worker'[v] = worker[v]
  BY <1>2 DEF BaseInv, TypeOK, WorkerState
<1>4. \A k \in Lifecycle : \A h \in Generation : Exposed(k, h)' =>
        Exposed(k, h) \/ (k = worker[w].l /\ h = worker[w].gen)
  BY <1>2, <1>3 DEF Exposed, At
<1>5. entry'[worker[w].l].gen = worker[w].gen
  BY <1>1, <1>2 DEF RowsEvolve, Current
<1>. QED BY <1>1, <1>4, <1>5 DEF ExposureAccountable, RowsEvolve

LEMMA AccountPost ==
    ASSUME BaseInv, ExposureAccountable, NEW w \in Worker, SendPost(w)
    PROVE  ExposureAccountable'
<1>1. /\ wire' = wire \cup {<<worker[w].l, worker[w].gen>>} /\ UNCHANGED <<entry, venue>>
      /\ worker' = [worker EXCEPT ![w].pc = "waiting"] /\ At(w, "submit", "entered")
  BY DEF SendPost
<1>2. \A v \in Worker : At(v, "submit", "entered")' =>
        worker'[v] = worker[v] /\ At(v, "submit", "entered")
  BY <1>1 DEF At, BaseInv, TypeOK, WorkerState
<1>3. NoNewExposure
  <2>1. \A l \in Lifecycle, g \in Generation :
          <<l, g>> = <<worker[w].l, worker[w].gen>> => Exposed(l, g)
    BY <1>1 DEF Exposed
  <2>. QED BY <1>1, <1>2, <2>1 DEF NoNewExposure, Exposed
<1>. QED BY <1>1, <1>3 DEF ExposureAccountable, NoNewExposure

-----------------------------------------------------------------------------
(* The inductive invariant *)

LEMMA ExposureInit == Init => ExposureInv
<1> SUFFICES ASSUME Init PROVE ExposureInv
  OBVIOUS
<1>1. BaseInv /\ HandoffInv
  BY BaseInit, HandoffInit
<1>2. /\ wire = {} /\ venue = [o \in OrderId |-> Unassigned] /\ Unassigned.label = "NONE"
      /\ Unassigned.l = NoLifecycle /\ Unassigned.matched = 0
      /\ entry = [l \in Lifecycle |-> NoEntry] /\ NoEntry.oid = NoOrder /\ NoEntry.recon = "none"
      /\ worker = [w \in Worker |-> Idle]
  BY DEF Init, Unassigned, NoEntry
<1>3. OneOrderPerPost
  BY <1>2 DEF OneOrderPerPost
<1>4. OidsExact /\ ZeroSound
  BY <1>2, IdleType DEF OidsExact, Names, ZeroSound
<1>5. ExposureAccountable
  BY <1>2, IdleType DEF ExposureAccountable, Exposed, At
<1>. QED BY <1>1, <1>3, <1>4, <1>5 DEF ExposureInv, BaseInv

LEMMA ExposureStep ==
    ASSUME LocatorExact, TypeOK, ExposureInv, [Next]_vars
    PROVE  ExposureInv'
<1>0. /\ BaseInv /\ HandoffInv /\ OneOrderPerPost /\ ExposureAccountable
      /\ Evident /\ OidsExact /\ ZeroSound /\ KnownGenerations
      /\ worker \in [Worker -> WorkerState]
  BY DEF ExposureInv, BaseInv, Evident, TypeOK
<1> DEFINE Rest == OneOrderPerPost' /\ Evident' /\ ExposureAccountable'
<1> SUFFICES Rest
  BY <1>0, BaseStep, HandoffStep DEF ExposureInv, Evident, BaseInv
<1>1. CASE UNCHANGED vars
  <2>1. UNCHANGED <<entry, worker, venue, wire>>
    BY <1>1 DEF vars
  <2>2. OneOrderPerPost'
    BY <1>0, <2>1 DEF OneOrderPerPost
  <2>3. Evident'
    BY <1>0, <2>1 DEF Evident, OidsExact, ZeroSound, ZeroAtVenue, Names
  <2>4. ExposureAccountable'
    BY <1>0, <2>1 DEF ExposureAccountable, Exposed, At
  <2>. QED BY <2>2, <2>3, <2>4
<1>2. ASSUME NEW w \in Worker, EndStep(w)
      PROVE  Rest
  <2>1. RowsEvolve /\ UNCHANGED <<venue, wire>>
    BY <1>0, <1>2, EndStepRows DEF EndStep
  <2>2. NoNewExposure
    <3>1. \A v \in Worker : At(v, "submit", "entered")' =>
            worker'[v] = worker[v] /\ At(v, "submit", "entered")
      BY <1>0, <1>2, IdleType DEF EndStep, At
    <3>. QED BY <1>0, <2>1, <3>1, ExposureByWorker
  <2>3. OneOrderPerPost'
    BY <1>0, <2>1 DEF OneOrderPerPost
  <2>. QED BY <1>0, <1>2, <2>1, <2>2, <2>3, EvidentEnd, AccountQuiet
<1>3. ASSUME NEW w \in Worker, NEW l \in Lifecycle, BeginStep(w, l)
      PROVE  Rest
  <2>1. RowsEvolve /\ UNCHANGED <<venue, wire>>
    BY <1>0, <1>3, BeginMarkRows DEF BeginStep
  <2>2. PICK k \in {"submit", "cancel", "refresh", "reconcile"}, pc \in {"started", "waiting"} :
          Begin(w, k, pc, l)
    BY <1>3 DEF BeginStep
  <2>3. NoNewExposure
    <3>1. \A v \in Worker : At(v, "submit", "entered")' =>
            worker'[v] = worker[v] /\ At(v, "submit", "entered")
      BY <1>0, <2>2 DEF Begin, Idle, At
    <3>. QED BY <1>0, <2>1, <3>1, ExposureByWorker
  <2>4. OneOrderPerPost'
    BY <1>0, <2>1 DEF OneOrderPerPost
  <2>. QED BY <1>0, <1>3, <2>1, <2>3, <2>4, EvidentBegin, AccountQuiet
<1>4. ASSUME NEW w \in Worker, MarkStep(w)
      PROVE  Rest
  <2>1. worker[w].l \in Lifecycle
    BY <1>0, <1>4, WorkerType DEF MarkStep, At
  <2>2. /\ RowsEvolve /\ Gains(worker[w].l, NoOrder, FALSE) /\ UNCHANGED <<venue, wire>>
        /\ worker' = [worker EXCEPT ![w].pc = "waiting"]
    BY <1>0, <1>4, <2>1, BeginMarkRows DEF MarkStep
  <2>3. NoNewExposure
    <3>1. \A v \in Worker : At(v, "submit", "entered")' =>
            worker'[v] = worker[v] /\ At(v, "submit", "entered")
      BY <1>0, <2>2 DEF At, WorkerState
    <3>. QED BY <1>0, <2>2, <3>1, ExposureByWorker
  <2>4. OneOrderPerPost'
    BY <1>0, <2>2 DEF OneOrderPerPost
  <2>5. Evident'
    BY <1>0, <2>2, EvidentMove
  <2>. QED BY <1>0, <2>2, <2>3, <2>4, <2>5, AccountQuiet
<1>5. ASSUME NEW w \in Worker, ReplyStep(w)
      PROVE  Rest
  <2>1. RowsEvolve /\ UNCHANGED <<venue, wire>>
    BY <1>0, <1>5, RowsEvolveUnchanged DEF ReplyStep, BaseInv
  <2>2. NoNewExposure
    <3>1. \A v \in Worker : At(v, "submit", "entered")' =>
            worker'[v] = worker[v] /\ At(v, "submit", "entered")
      BY <1>0, <1>5 DEF ReplyStep, At, WorkerState
    <3>. QED BY <1>0, <2>1, <3>1, ExposureByWorker
  <2>3. OneOrderPerPost'
    BY <1>0, <2>1 DEF OneOrderPerPost
  <2>. QED BY <1>0, <1>5, <2>1, <2>2, <2>3, EvidentReply, AccountQuiet
<1>6. ASSUME NEW w \in Worker, RawEnter(w), Current(w)
      PROVE  Rest
  <2>1. /\ RowsEvolve /\ Gains(w, NoOrder, FALSE) /\ UNCHANGED <<venue, wire>>
        /\ worker' = [worker EXCEPT ![w].pc = "entered"]
    BY <1>0, <1>6, RawEnterRows DEF RawEnter
  <2>2. OneOrderPerPost'
    BY <1>0, <2>1 DEF OneOrderPerPost
  <2>3. Evident'
    BY <1>0, <2>1, EvidentMove
  <2>. QED BY <1>0, <1>6, <2>2, <2>3, AccountRawEnter
<1>7. ASSUME NEW w \in Worker, SendPost(w)
      PROVE  Rest
  <2>1. entry' = entry /\ venue' = venue /\ worker' = [worker EXCEPT ![w].pc = "waiting"]
    BY <1>7 DEF SendPost
  <2>2. RowsEvolve /\ Gains(w, NoOrder, FALSE)
    BY <1>0, <2>1, RowsEvolveUnchanged DEF BaseInv
  <2>3. Evident'
    BY <1>0, <2>1, <2>2, EvidentMove
  <2>. QED BY <1>0, <1>7, <2>3, OnePostSend, AccountPost
<1>8. CASE VenueStep
  <2>0. entry' = entry
    BY <1>8 DEF VenueStep, VenueUnchanged
  <2>1. RowsEvolve
    BY <2>0, RowsEvolveUnchanged
  <2>. QED BY <1>0, <1>8, <2>1, OnePostVenue, EvidentVenue, ExposureByVenue, AccountQuiet
<1>9. ASSUME NEW l \in Lifecycle, NEW g \in Generation, InstallStep(l, g)
      PROVE  Rest
  <2>1. /\ entry' = [entry EXCEPT ![l] = FreshEntry(g)] /\ UNCHANGED <<venue, wire, worker>>
        /\ FreshEntry(g).oid = NoOrder /\ FreshEntry(g).recon = "none"
    BY <1>9 DEF InstallStep, Install, FreshEntry, NoEntry
  <2>2. \A k \in Lifecycle : entry'[k] = entry[k]
                             \/ (entry'[k].oid = NoOrder /\ entry'[k].recon = "none")
    BY <2>1 DEF BaseInv, TypeOK
  <2>3. Evident'
    BY <1>0, <2>1, <2>2 DEF Evident, OidsExact, ZeroSound, Names, ZeroAtVenue
  <2>4. OneOrderPerPost'
    BY <1>0, <2>1 DEF OneOrderPerPost
  <2>. QED BY <1>0, <1>9, <2>3, <2>4, AccountInstall
<1>10. ASSUME NEW rows \in SUBSET Lifecycle, DropStep(rows)
       PROVE  Rest
  <2>1. /\ \A k \in Lifecycle : entry'[k] = entry[k]
                                \/ (entry'[k].oid = NoOrder /\ entry'[k].recon = "none")
        /\ UNCHANGED <<venue, wire, worker>>
    BY <1>10 DEF DropStep, Drop, NoEntry
  <2>2. Evident'
    BY <1>0, <2>1 DEF Evident, OidsExact, ZeroSound, Names, ZeroAtVenue
  <2>3. OneOrderPerPost'
    BY <1>0, <2>1 DEF OneOrderPerPost
  <2>. QED BY <1>0, <1>10, <2>2, <2>3, AccountDrop
<1> HIDE DEF Rest
<1>. QED BY <1>0, <1>1, <1>2, <1>3, <1>4, <1>5, <1>6, <1>7, <1>8, <1>9, <1>10,
            NextClasses

\* With an exact order locator, the venue never holds, nor is about to hold, an
\* order that the registry has no raw-posted row for: neither supersession nor
\* release (release_terminal_zero, prune_released) forgets a live order.
THEOREM ExposureHolds == ASSUME LocatorExact PROVE Spec => []ExposureAccountable
<1>1. Init => TypeOK /\ ExposureInv
  BY BaseInit, ExposureInit DEF BaseInv
<1>2. TypeOK /\ ExposureInv /\ [Next]_vars => (TypeOK /\ ExposureInv)'
  <2> SUFFICES ASSUME TypeOK, ExposureInv, [Next]_vars PROVE (TypeOK /\ ExposureInv)'
    OBVIOUS
  <2>1. BaseInv
    BY DEF BaseInv, ExposureInv
  <2>2. BaseInv'
    BY <2>1, BaseStep
  <2>3. ExposureInv'
    BY ExposureStep
  <2>. QED BY <2>2, <2>3 DEF BaseInv
<1>. QED BY <1>1, <1>2, PTL DEF Spec, ExposureInv

\* Hence a lifecycle never stands twice at the venue: create and supersede make
\* room for a newer generation only when the older one is over, unmatched.
THEOREM SingleExposureHolds == ASSUME LocatorExact PROVE Spec => []SingleExposure
<1>1. ExposureAccountable => SingleExposure
  BY DEF ExposureAccountable, SingleExposure
<1>. QED BY <1>1, ExposureHolds, PTL

-----------------------------------------------------------------------------
(* Fills stay *)

\* No step lowers a known fill or replaces the row that owns it: create and
\* supersede refuse an owner, release refuses a row with a fill, and every
\* operation writes the larger of the known and the observed quantity.
THEOREM FillKeptHolds == Spec => FillKept
<1> DEFINE Kept == \A l \in Lifecycle : entry[l].filled > 0 =>
                      entry'[l].gen = entry[l].gen /\ entry'[l].filled >= entry[l].filled
<1>1. ASSUME BaseInv, [Next]_vars PROVE [Kept]_vars
  <2>0. TypeOK /\ KnownGenerations /\ \A l \in Lifecycle : entry[l].filled \in Nat
    BY <1>1, SizesAssumption DEF BaseInv, TypeOK, Entry
  <2>1. CASE RowsEvolve
    BY <2>1 DEF RowsEvolve
  <2>2. ASSUME NEW l \in Lifecycle, NEW g \in Generation, InstallStep(l, g)
        PROVE  Kept
    <3>1. \A k \in Lifecycle \ {l} : entry'[k] = entry[k]
      BY <2>0, <2>2 DEF InstallStep, Install, TypeOK
    <3>2. ~(entry[l].filled > 0)
      BY <2>0, <2>2 DEF InstallStep, Replaceable, Owns, KnownGenerations
    <3>. QED BY <2>0, <3>1, <3>2
  <2>3. ASSUME NEW rows \in SUBSET Lifecycle, DropStep(rows)
        PROVE  Kept
    <3>1. \A k \in Lifecycle \ rows : entry'[k] = entry[k]
      BY <2>3 DEF DropStep, Drop
    <3>2. \A k \in rows : entry[k].filled = 0
      BY <2>3 DEF DropStep, Releasable
    <3>. QED BY <2>0, <3>1, <3>2
  <2>4. ASSUME NEW w \in Worker, NEW l \in Lifecycle, BeginStep(w, l)
        PROVE  RowsEvolve
    BY <2>0, <2>4, BeginMarkRows
  <2>5. ASSUME NEW w \in Worker, MarkStep(w)
        PROVE  RowsEvolve
    <3>1. worker[w].l \in Lifecycle
      BY <2>0, <2>5, WorkerType DEF MarkStep, At
    <3>. QED BY <2>0, <2>5, <3>1, BeginMarkRows
  <2>6. ASSUME NEW w \in Worker, EndStep(w)
        PROVE  RowsEvolve
    BY <2>0, <2>6, EndStepRows
  <2>7. ASSUME NEW w \in Worker, RawEnter(w), Current(w)
        PROVE  RowsEvolve
    BY <2>0, <2>7, RawEnterRows
  <2>8. ASSUME NEW w \in Worker, ReplyStep(w) \/ SendPost(w)
        PROVE  RowsEvolve
    BY <2>0, <2>8, RowsEvolveUnchanged DEF ReplyStep, SendPost
  <2>9. CASE VenueStep
    <3>1. entry' = entry
      BY <2>9 DEF VenueStep, VenueUnchanged
    <3>. QED BY <2>0, <2>1, <3>1, RowsEvolveUnchanged
  <2>10. CASE UNCHANGED vars
    BY <2>10
  <2> HIDE DEF Kept
  <2>. QED BY <1>1, <2>0, <2>1, <2>2, <2>3, <2>4, <2>5, <2>6, <2>7, <2>8, <2>9, <2>10, NextClasses
<1>. QED BY <1>1, BaseInit, BaseStep, PTL DEF Spec, FillKept

-----------------------------------------------------------------------------
(* Stale operations leave the rows alone *)

\* Only an action of its own ends a worker's operation.
LEMMA EndsByItself ==
    ASSUME TypeOK, Next, NEW w \in Worker, worker[w] # Idle, worker'[w] = Idle
    PROVE  Continue(w) \/ NoStatus(w)
<1>0. worker \in [Worker -> WorkerState] /\ worker[w] \in WorkerState
  BY DEF TypeOK
<1>1. ~UNCHANGED worker
  OBVIOUS
<1>2. PICK v \in Worker : Start(v) \/ Continue(v) \/ Reply(v)
  <2>1. Registry => UNCHANGED worker
    BY DEF Registry, Create, Supersede, ReleaseTerminalZero, Install, Drop
  <2>2. PruneReleased \/ Venue => UNCHANGED worker
    BY DEF PruneReleased, Drop, Venue, VenueRefuse, VenueAccept, VenueMatch, VenueCancel, VenueReject
  <2>. QED BY <1>1, <2>1, <2>2 DEF Next
<1>3. CASE Start(v)
  <2>1. worker[v] = Idle /\ \E k, pc, l : Begin(v, k, pc, l)
    BY <1>3 DEF Start, SubmitStart, RefreshStart, CancelStart, ReconcileStart
  <2>. QED BY <1>0, <2>1 DEF Begin
<1>4. CASE Continue(v)
  <2>1. \E e : worker' = [worker EXCEPT ![v] = e]
    BY <1>0, <1>4 DEF Continue, SubmitDenied, RawEnter, ObserverFails, SendPost, SubmitAmbiguous,
                      SubmitConfirmed, ObserveStatus, CancelFails, CancelReturns, MarkReconciling,
                      ApplyReconciliation, CommitSubmission, Finish
  <2>. QED BY <1>0, <1>4, <2>1
<1>5. CASE Reply(v)
  <2>1. CASE NoStatus(v)
    BY <1>0, <2>1 DEF NoStatus, Finish
  <2>2. CASE Replies(v)
    <3>1. \E o, a : Answered(v, o, a)
      BY <2>2 DEF Replies, SubmitReply, StatusReply, CancelAck, EvidenceReply
    <3>2. PICK o, a : worker' = [worker EXCEPT ![v].pc = "answered", ![v].oid = o, ![v].answer = a]
      BY <3>1 DEF Answered
    <3>3. worker'[v].pc = "answered"
      BY <1>0, <3>2 DEF WorkerState
    <3>. QED BY <1>0, <3>2, <3>3 DEF Idle
  <2>. QED BY <1>5, <2>1, <2>2 DEF Reply, Replies
<1>. QED BY <1>2, <1>3, <1>4, <1>5

\* Every gated section compares generations before it writes.
LEMMA StaleLeavesRows ==
    ASSUME TransportWraps, NEW w \in Worker, entry[worker[w].l].gen # worker[w].gen,
           Continue(w) \/ NoStatus(w)
    PROVE  UNCHANGED <<entry, ownerOf>>
<1>1. ~Current(w)
  BY DEF Current
<1>2. \A st, o, f : CommitSubmission(w, st, o, f) => UNCHANGED <<entry, ownerOf>>
  BY <1>1 DEF CommitSubmission
<1>3. CASE SubmitDenied(w) \/ ObserverFails(w) \/ SubmitAmbiguous(w) \/ SubmitConfirmed(w)
  BY <1>2, <1>3 DEF SubmitDenied, ObserverFails, SubmitAmbiguous, SubmitConfirmed
<1>4. CASE RawEnter(w) \/ SendPost(w) \/ NoStatus(w)
  BY <1>1, <1>4 DEF RawEnter, SendPost, NoStatus, VenueUnchanged
<1>5. CASE CancelFails(w) \/ CancelReturns(w)
  BY <1>1, <1>5 DEF CancelFails, CancelReturns
<1>6. CASE ObserveStatus(w) \/ MarkReconciling(w) \/ ApplyReconciliation(w)
  BY <1>1, <1>6 DEF ObserveStatus, MarkReconciling, ApplyReconciliation
<1>. QED BY <1>3, <1>4, <1>5, <1>6 DEF Continue

\* While every transport failure arrives as a ClobTransportError, the end of an
\* operation of an older generation changes neither rows nor the order-id index.
THEOREM StaleGenerationFrozenHolds ==
    ASSUME TransportWraps PROVE Spec => StaleGenerationFrozen
<1> DEFINE Frozen == \A w \in Worker :
        (/\ worker[w] # Idle /\ worker'[w] = Idle
         /\ entry[worker[w].l].gen # worker[w].gen) => UNCHANGED <<entry, ownerOf>>
<1>1. ASSUME TypeOK, [Next]_vars PROVE [Frozen]_vars
  <2>1. CASE UNCHANGED vars
    BY <2>1
  <2>2. CASE Next
    BY <1>1, <2>2, EndsByItself, StaleLeavesRows
  <2>. QED BY <1>1, <2>1, <2>2
<1>. QED BY <1>1, TypeCorrect, PTL DEF Spec, StaleGenerationFrozen

-----------------------------------------------------------------------------
(* What an operation writes *)

\* _set_working with state st and order id o on the row of l.
Writes(l, st, o) ==
    \E f \in 0..Size, sub \in BOOLEAN, rec \in {"none", "zero", "other"} :
        SetWorking(l, st, o, f, sub, rec)

\* The worker w may close the row of l: its submission is denied, or its answer
\* says that the order is over.
MayClose(w, l) == /\ l = worker[w].l /\ Current(w)
                  /\ At(w, "submit", "started") \/ Closes(worker[w].answer)

\* An operation writes one row at most; it names an order id only for the row of
\* its own generation, and closes a row only for a reason.
OperationWrite(w) ==
    \/ UNCHANGED <<entry, ownerOf>>
    \/ \E l \in Lifecycle, st \in State, o \in OrderId \cup {NoOrder} :
          /\ Writes(l, st, o)
          /\ o # NoOrder => Current(w) /\ l = worker[w].l /\ o = worker[w].oid
          /\ st \in Terminal => st = entry[l].state \/ MayClose(w, l)

\* An order id or closing state that a submission ends with.
LEMMA CommitWrites ==
    ASSUME TypeOK, KnownGenerations, NEW w \in Worker, worker[w].kind # "none",
           NEW st \in State, NEW o \in {NoOrder, worker[w].oid}, NEW f \in 0..Size,
           st \in Terminal => At(w, "submit", "started") \/ Closes(worker[w].answer),
           CommitSubmission(w, st, o, f)
    PROVE  OperationWrite(w)
<1>1. CASE ~Current(w)
  BY <1>1 DEF CommitSubmission, OperationWrite
<1>2. CASE Current(w)
  <2>1. /\ worker[w].l \in Lifecycle /\ o \in OrderId \cup {NoOrder}
        /\ entry[worker[w].l].recon \in {"none", "zero", "other"}
    BY WorkerType
  <2>2. SetWorking(worker[w].l, st, o, f, TRUE, entry[worker[w].l].recon)
    BY <1>2 DEF CommitSubmission
  <2>3. Writes(worker[w].l, st, o)
    BY <2>1, <2>2 DEF Writes
  <2>. QED BY <1>2, <2>1, <2>3 DEF OperationWrite, MayClose
<1>. QED BY <1>1, <1>2

\* A row written with what it has, apart from state, order id and fill.
LEMMA PlainWrites ==
    ASSUME TypeOK, NEW w \in Worker, NEW l \in Lifecycle, NEW st \in State,
           NEW o \in OrderId \cup {NoOrder}, NEW f \in 0..Size,
           NEW rec \in {"zero", "other", entry[l].recon},
           o # NoOrder => Current(w) /\ l = worker[w].l /\ o = worker[w].oid,
           st \in Terminal => st = entry[l].state \/ MayClose(w, l),
           SetWorking(l, st, o, f, entry[l].submitted, rec)
    PROVE  OperationWrite(w)
<1>1. entry[l].submitted \in BOOLEAN /\ rec \in {"none", "zero", "other"}
  BY DEF TypeOK, Entry
<1>2. Writes(l, st, o)
  BY <1>1 DEF Writes
<1>. QED BY <1>2 DEF OperationWrite

LEMMA StartWrites ==
    ASSUME TypeOK, KnownGenerations, NEW w \in Worker, Start(w)
    PROVE  OperationWrite(w)
<1>1. 0 \in 0..Size /\ {"SUBMITTING", "CANCEL_REQUESTED"} \subseteq State \ Terminal
  BY SizesAssumption DEF State, Terminal, MayOwnLiveOrder
<1>2. PICK l \in Lifecycle : Begins(w, l)
  BY DEF Start, Begins
<1>3. CASE SubmitStart(w, l)
  <2>1. SetWorking(l, "SUBMITTING", NoOrder, 0, FALSE, entry[l].recon)
        /\ entry[l].recon \in {"none", "zero", "other"}
    BY <1>3 DEF SubmitStart, TypeOK, Entry
  <2>2. Writes(l, "SUBMITTING", NoOrder)
    BY <1>1, <2>1 DEF Writes
  <2>. QED BY <1>1, <2>2 DEF OperationWrite
<1>4. CASE CancelStart(w, l)
  BY <1>1, <1>4, PlainWrites DEF CancelStart
<1>5. CASE RefreshStart(w, l) \/ ReconcileStart(w, l)
  BY <1>5 DEF RefreshStart, ReconcileStart, OperationWrite
<1>. QED BY <1>2, <1>3, <1>4, <1>5 DEF Begins

\* The states that operations choose are closing only for a reason.
LEMMA ClosingStates ==
    ASSUME NEW a \in Answer, NEW e \in Entry
    PROVE  /\ \A stale \in BOOLEAN :
                 LET st == ObservedState(e.state, NormalizedState(a.label, a.matched), stale)
                 IN st \in State /\ (st \in Terminal => st = e.state \/ Closes(a))
           /\ CancelledState(a) \in State /\ (CancelledState(a) \in Terminal => Closes(a))
           /\ ReconciledState(e, a) \in State
           /\ ReconciledState(e, a) \in Terminal => ReconciledState(e, a) = e.state \/ Closes(a)
<1> DEFINE st == NormalizedState(a.label, a.matched)
<1>1. a.label \in Label /\ a.matched \in 0..Size /\ e.state \in State
  BY DEF Answer, Entry
<1>2. st \in State
  BY <1>1, NormalizedStateType
<1>3. a.matched >= Size => st = "FILLED"
  BY <1>1, SizesAssumption DEF NormalizedState
<1>4. Outcome(a) = "FILLED" => a.matched >= Size
  BY <1>1, SizesAssumption DEF Outcome
<1>5. Closes(a) <=> a.what = "ack" \/ st \in Terminal
  BY DEF Closes
<1> HIDE DEF st
<1>6. \A stale \in BOOLEAN : /\ ObservedState(e.state, st, stale) \in {e.state, st}
                             /\ ObservedState(e.state, st, stale) \in State
  BY <1>1, <1>2 DEF ObservedState
<1>7. /\ CancelledState(a) \in State
      /\ CancelledState(a) \in Terminal => Closes(a)
  BY <1>2, <1>5 DEF CancelledState, State, Terminal, MayOwnLiveOrder, st
<1>8. /\ Outcome(a) = "FILLED" => ReconciledState(e, a) = "FILLED" /\ st = "FILLED"
      /\ Outcome(a) = "PARTIALLY_FILLED" =>
            ReconciledState(e, a) \in {st, e.state, "PARTIALLY_FILLED"}
      /\ Outcome(a) = "WORKING" => ReconciledState(e, a) \in {"PARTIALLY_FILLED", "WORKING"}
      /\ Outcome(a) = "ZERO" => ReconciledState(e, a) = st
      /\ Outcome(a) = "AMBIGUOUS" => ReconciledState(e, a) \in {"CANCEL_UNKNOWN", "RECONCILING"}
  BY <1>3, <1>4 DEF ReconciledState, st
<1>9. Outcome(a) \in {"FILLED", "PARTIALLY_FILLED", "WORKING", "ZERO", "AMBIGUOUS"}
  BY OutcomeType
<1>10. /\ ReconciledState(e, a) \in State
       /\ ReconciledState(e, a) \in Terminal => ReconciledState(e, a) = e.state \/ Closes(a)
  BY <1>1, <1>2, <1>5, <1>8, <1>9 DEF State, Terminal, MayOwnLiveOrder
<1>. QED BY <1>5, <1>6, <1>7, <1>10 DEF st

LEMMA ContinueWrites ==
    ASSUME TypeOK, KnownGenerations, NEW w \in Worker, Continue(w), ~(RawEnter(w) /\ Current(w))
    PROVE  OperationWrite(w)
<1> DEFINE l == worker[w].l
           a == worker[w].answer
           o == worker[w].oid
<1>1. worker[w].kind # "none"
  BY DEF Continue, At, SubmitDenied, RawEnter, ObserverFails, SendPost, SubmitAmbiguous,
         SubmitConfirmed, ObserveStatus, CancelFails, CancelReturns, MarkReconciling,
         ApplyReconciliation
<1>2. /\ l \in Lifecycle /\ entry[l] \in Entry /\ entry[l].recon \in {"none", "zero", "other"}
      /\ a \in Answer /\ a.label \in Label /\ a.matched \in 0..Size
      /\ o \in OrderId \cup {NoOrder} /\ 0 \in 0..Size
  BY <1>1, WorkerType, SizesAssumption
<1>3. /\ {"REJECTED", "FAILED"} \subseteq State
      /\ {"SUBMISSION_UNKNOWN", "CANCEL_UNKNOWN", "RECONCILING"} \subseteq State \ Terminal
  BY DEF State, Terminal, MayOwnLiveOrder
<1>4. CASE SubmitDenied(w)
  BY <1>1, <1>2, <1>3, <1>4, CommitWrites DEF SubmitDenied
<1>5. CASE ObserverFails(w) \/ SubmitAmbiguous(w)
  <2>1. CommitSubmission(w, "SUBMISSION_UNKNOWN", NoOrder, 0)
    BY <1>5 DEF ObserverFails, SubmitAmbiguous
  <2>. QED BY <1>1, <1>2, <1>3, <2>1, CommitWrites
<1>6. CASE SubmitConfirmed(w)
  <2>1. CommitSubmission(w, NormalizedState(a.label, a.matched), o, a.matched)
    BY <1>6 DEF SubmitConfirmed
  <2>2. /\ NormalizedState(a.label, a.matched) \in State
        /\ NormalizedState(a.label, a.matched) \in Terminal => Closes(a)
    BY <1>2, NormalizedStateType DEF Closes
  <2>. QED BY <1>1, <1>2, <2>1, <2>2, CommitWrites
<1>7. CASE ObserveStatus(w)
  <2> DEFINE st == ObservedState(entry[l].state, NormalizedState(a.label, a.matched),
                                 a.matched < entry[l].filled)
  <2>1. CASE ~(Current(w) /\ entry[l].oid = o)
    BY <1>7, <2>1 DEF ObserveStatus, OperationWrite
  <2>2. CASE Current(w) /\ entry[l].oid = o
    <3>1. SetWorking(l, st, o, a.matched, entry[l].submitted, entry[l].recon)
      BY <1>7, <2>2 DEF ObserveStatus
    <3>2. (a.matched < entry[l].filled) \in BOOLEAN
      OBVIOUS
    <3>3. st \in State /\ (st \in Terminal => st = entry[l].state \/ Closes(a))
      BY <1>2, <3>2, ClosingStates
    <3> HIDE DEF st
    <3>. QED BY <1>2, <2>2, <3>1, <3>3, PlainWrites DEF MayClose
  <2>. QED BY <2>1, <2>2
<1>8. CASE CancelFails(w)
  <2>1. \/ UNCHANGED <<entry, ownerOf>>
        \/ SetWorking(l, "CANCEL_UNKNOWN", NoOrder, 0, entry[l].submitted, entry[l].recon)
    BY <1>8 DEF CancelFails
  <2>2. CASE UNCHANGED <<entry, ownerOf>>
    BY <2>2 DEF OperationWrite
  <2>3. CASE SetWorking(l, "CANCEL_UNKNOWN", NoOrder, 0, entry[l].submitted, entry[l].recon)
    BY <1>2, <1>3, <2>3, PlainWrites
  <2>. QED BY <2>1, <2>2, <2>3
<1>9. CASE CancelReturns(w)
  <2>1. CASE ~Current(w)
    BY <1>9, <2>1 DEF CancelReturns, OperationWrite
  <2>2. CASE Current(w)
    <3>1. SetWorking(l, CancelledState(a), o, a.matched, entry[l].submitted, entry[l].recon)
      BY <1>9, <2>2 DEF CancelReturns
    <3>2. CancelledState(a) \in State /\ (CancelledState(a) \in Terminal => Closes(a))
      BY <1>2, ClosingStates
    <3>. QED BY <1>2, <2>2, <3>1, <3>2, PlainWrites DEF MayClose
  <2>. QED BY <2>1, <2>2
<1>10. CASE MarkReconciling(w)
  <2>1. \/ UNCHANGED <<entry, ownerOf>>
        \/ SetWorking(l, "RECONCILING", NoOrder, 0, entry[l].submitted, entry[l].recon)
    BY <1>10 DEF MarkReconciling
  <2>2. CASE UNCHANGED <<entry, ownerOf>>
    BY <2>2 DEF OperationWrite
  <2>3. CASE SetWorking(l, "RECONCILING", NoOrder, 0, entry[l].submitted, entry[l].recon)
    BY <1>2, <1>3, <2>3, PlainWrites
  <2>. QED BY <2>1, <2>2, <2>3
<1>11. CASE ApplyReconciliation(w)
  <2> DEFINE zero == Outcome(a) = "ZERO"
             rec == IF zero THEN "zero" ELSE "other"
  <2>1. CASE ~(Current(w) /\ ~(zero /\ entry[l].filled > 0))
    BY <1>11, <2>1 DEF ApplyReconciliation, OperationWrite
  <2>2. CASE Current(w) /\ ~(zero /\ entry[l].filled > 0)
    <3>1. SetWorking(l, ReconciledState(entry[l], a), o, a.matched, entry[l].submitted, rec)
      BY <1>11, <2>2 DEF ApplyReconciliation
    <3>2. rec \in {"zero", "other"}
      OBVIOUS
    <3>3. /\ ReconciledState(entry[l], a) \in State
          /\ ReconciledState(entry[l], a) \in Terminal =>
                ReconciledState(entry[l], a) = entry[l].state \/ Closes(a)
      BY <1>2, ClosingStates
    <3> HIDE DEF rec, zero
    <3>. QED BY <1>2, <2>2, <3>1, <3>2, <3>3, PlainWrites DEF MayClose
  <2>. QED BY <2>1, <2>2
<1>12. CASE (RawEnter(w) /\ ~Current(w)) \/ SendPost(w)
  BY <1>12 DEF RawEnter, SendPost, OperationWrite
<1>. QED BY <1>4, <1>5, <1>6, <1>7, <1>8, <1>9, <1>10, <1>11, <1>12 DEF Continue

\* _set_working keeps generation and raw flag, and writes its own row only.
LEMMA WritesRow ==
    ASSUME TypeOK, NEW l \in Lifecycle, NEW st \in State, NEW o \in OrderId \cup {NoOrder},
           Writes(l, st, o)
    PROVE  /\ \A k \in Lifecycle : /\ entry'[k].gen = entry[k].gen /\ entry'[k].raw = entry[k].raw
                                   /\ k # l => entry'[k] = entry[k]
           /\ entry'[l].state \in {entry[l].state, st}
           /\ o = NoOrder => entry'[l].state = st
<1>1. PICK f \in 0..Size, sub \in BOOLEAN, rec \in {"none", "zero", "other"} :
        SetWorking(l, st, o, f, sub, rec)
  BY DEF Writes
<1>2. entry \in [Lifecycle -> Entry]
  BY DEF TypeOK
<1>3. CASE OidConflict(l, o)
  BY <1>1, <1>2, <1>3 DEF SetWorking, OidConflict
<1>4. CASE ~OidConflict(l, o)
  <2>1. \E e : /\ entry' = [entry EXCEPT ![l] = e]
               /\ e.gen = entry[l].gen /\ e.raw = entry[l].raw /\ e.state = st
    <3> DEFINE row == [entry[l] EXCEPT !.state = st, !.oid = NextOid(l, o),
                                       !.filled = Larger(entry[l].filled, f)]
    <3>1. /\ row.gen = entry[l].gen /\ row.raw = entry[l].raw /\ row.state = st
          /\ row.submitted = entry[l].submitted /\ row.recon = entry[l].recon
      BY <1>2 DEF Entry
    <3>2. LET done == [row EXCEPT !.submitted = sub, !.recon = rec]
          IN done.gen = entry[l].gen /\ done.raw = entry[l].raw /\ done.state = st
      BY <1>2 DEF Entry
    <3>3. \/ entry' = [entry EXCEPT ![l] = row]
          \/ entry' = [entry EXCEPT ![l] = [row EXCEPT !.submitted = sub, !.recon = rec]]
      BY <1>1, <1>4 DEF SetWorking
    <3> HIDE DEF row
    <3>. QED BY <3>1, <3>2, <3>3
  <2>. QED BY <1>2, <2>1
<1>. QED BY <1>3, <1>4

-----------------------------------------------------------------------------
(* A closed row is the truth *)

\* What an operation of w can do to the states of the rows.
StatesMove(w) == \A k \in Lifecycle :
    /\ entry'[k].gen = entry[k].gen /\ entry'[k].raw = entry[k].raw
    /\ entry'[k].state \in Terminal => entry[k].state \in Terminal \/ MayClose(w, k)

LEMMA WriteMovesStates ==
    ASSUME TypeOK, NEW w \in Worker, OperationWrite(w)
    PROVE  StatesMove(w)
BY WritesRow DEF OperationWrite, StatesMove

\* The venue decides about an identity only after its POST.
LEMMA OverIsPosted ==
    ASSUME BaseInv, NEW l \in Lifecycle, NEW g, OverAtVenue(l, g)
    PROVE  posts[<<l, g>>] > 0
BY DEF OverAtVenue, BaseInv, VenueWellFormed

LEMMA OverStable ==
    ASSUME BaseInv, VenueStep \/ venue' = venue, NEW l, NEW g, OverAtVenue(l, g)
    PROVE  OverAtVenue(l, g)'
BY VenueKeeps DEF OverAtVenue

\* Rows that were closed before stay true.
LEMMA TerminalKept ==
    ASSUME BaseInv, TerminalIsTrue, VenueStep \/ venue' = venue,
           \A l \in Lifecycle : entry'[l].gen # 0 /\ entry'[l].raw /\ entry'[l].state \in Terminal =>
              entry[l].gen = entry'[l].gen /\ entry[l].raw /\ entry[l].state \in Terminal
    PROVE  TerminalIsTrue'
<1> SUFFICES ASSUME NEW l \in Lifecycle, entry'[l].gen # 0, entry'[l].raw,
                    entry'[l].state \in Terminal
             PROVE  OverAtVenue(l, entry[l].gen)'
  BY DEF TerminalIsTrue
<1>1. OverAtVenue(l, entry[l].gen) /\ entry'[l].gen = entry[l].gen
  BY DEF TerminalIsTrue
<1>2. PICK o \in OrderId : /\ venue[o].l = l /\ venue[o].gen = entry[l].gen
                          /\ venue[o].label \notin {"NONE", "LIVE"}
  BY <1>1 DEF OverAtVenue
<1>3. venue'[o] = venue[o]
  BY <1>2, VenueKeeps
<1>. QED BY <1>1, <1>2, <1>3 DEF OverAtVenue

\* No row of a submission that may still be denied is closed by another worker.
LEMMA NotClosedByOthers ==
    ASSUME BaseInv, HandoffInv, TerminalInv, NEW v \in Worker, NEW w \in Worker, v # w,
           BeforePost(v), Current(v)
    PROVE  ~MayClose(w, worker[v].l)
<1> SUFFICES ASSUME MayClose(w, worker[v].l) PROVE FALSE
  OBVIOUS
<1>1. Same(v, w) /\ worker[v].l \in Lifecycle /\ posts[<<worker[v].l, worker[v].gen>>] = 0
  BY DEF MayClose, Same, Current, BeforePost, HandoffInv, BaseInv, KnownGenerations
<1>2. CASE At(w, "submit", "started")
  BY <1>1, <1>2 DEF HandoffInv, BeforePost, At
<1>3. CASE Closes(worker[w].answer)
  <2>1. OverAtVenue(worker[v].l, worker[v].gen)
    BY <1>1, <1>3 DEF TerminalInv, Same
  <2>2. posts[<<worker[v].l, worker[v].gen>>] > 0
    BY <1>1, <2>1, OverIsPosted
  <2>. QED BY <1>1, <2>2
<1>. QED BY <1>2, <1>3 DEF MayClose

\* A step of one worker that keeps raw flags.
LEMMA TerminalByWorker ==
    ASSUME BaseInv, HandoffInv, TerminalInv, NEW w \in Worker, StatesMove(w), venue' = venue,
           \A v \in Worker \ {w} : worker'[v] = worker[v],
           At(w, "submit", "started")' => /\ entry'[worker'[w].l].state \notin Terminal
                                          /\ ~entry'[worker'[w].l].raw,
           Closes(worker'[w].answer) => OverAtVenue(worker'[w].l, worker'[w].gen)
    PROVE  TerminalInv'
<1>1. \A l, g : OverAtVenue(l, g)' <=> OverAtVenue(l, g)
  BY DEF OverAtVenue
<1>2. ASSUME NEW l \in Lifecycle, entry'[l].gen # 0, entry'[l].raw, entry'[l].state \in Terminal
      PROVE  OverAtVenue(l, entry'[l].gen)
  <2>1. entry[l].gen # 0 /\ entry[l].raw /\ entry'[l].gen = entry[l].gen
    BY <1>2 DEF StatesMove
  <2>2. CASE entry[l].state \in Terminal
    BY <2>1, <2>2 DEF TerminalInv, TerminalIsTrue, OverAtVenue
  <2>3. CASE MayClose(w, l)
    BY <2>1, <2>3 DEF TerminalInv, MayClose, Current
  <2>. QED BY <1>2, <2>2, <2>3 DEF StatesMove
<1>3. TerminalIsTrue'
  BY <1>1, <1>2 DEF TerminalIsTrue, OverAtVenue
<1>4. \A v \in Worker : Closes(worker'[v].answer) => OverAtVenue(worker'[v].l, worker'[v].gen)
  BY DEF TerminalInv
<1>5. ASSUME NEW v \in Worker, At(v, "submit", "started")', Current(v)', v # w
      PROVE  entry'[worker'[v].l].state \notin Terminal /\ ~entry'[worker'[v].l].raw
  <2>1. worker'[v] = worker[v] /\ At(v, "submit", "started") /\ BeforePost(v)
    BY <1>5 DEF At, BeforePost
  <2>2. worker[v].l \in Lifecycle
    BY <2>1 DEF At, BaseInv, KnownGenerations
  <2>3. Current(v)
    BY <1>5, <2>1, <2>2 DEF Current, StatesMove
  <2>4. ~MayClose(w, worker[v].l)
    BY <1>5, <2>1, <2>3, NotClosedByOthers
  <2>. QED BY <2>1, <2>2, <2>3, <2>4 DEF TerminalInv, StatesMove
<1>6. (\A v \in Worker : Closes(worker[v].answer) => OverAtVenue(worker[v].l, worker[v].gen))'
  BY <1>1, <1>4 DEF Closes, NormalizedState
<1>7. (\A v \in Worker : At(v, "submit", "started") /\ Current(v) =>
          entry[worker[v].l].state \notin Terminal /\ ~entry[worker[v].l].raw)'
  BY <1>5 DEF At
<1>. QED BY <1>3, <1>6, <1>7 DEF TerminalInv

LEMMA TerminalStart ==
    ASSUME BaseInv, HandoffInv, TerminalInv, NEW w \in Worker, Start(w)
    PROVE  TerminalInv'
<1>0. TypeOK /\ KnownGenerations /\ worker \in [Worker -> WorkerState]
  BY DEF BaseInv, TypeOK
<1>1. StatesMove(w) /\ venue' = venue
  BY <1>0, StartWrites, WriteMovesStates
     DEF Start, SubmitStart, RefreshStart, CancelStart, ReconcileStart
<1> PICK l \in Lifecycle : Begins(w, l)
  BY DEF Start, Begins
<1>2. PICK k, pc : Begin(w, k, pc, l) /\ (k = "submit" => SubmitStart(w, l))
  <2>1. CASE SubmitStart(w, l)
    BY <2>1 DEF SubmitStart
  <2>2. CASE RefreshStart(w, l)
    BY <2>2 DEF RefreshStart
  <2>3. CASE CancelStart(w, l)
    BY <2>3 DEF CancelStart
  <2>4. CASE ReconcileStart(w, l)
    BY <2>4 DEF ReconcileStart
  <2>. QED BY <2>1, <2>2, <2>3, <2>4 DEF Begins
<1>3. /\ worker'[w].kind = k /\ worker'[w].l = l /\ worker'[w].answer = NoAnswer
      /\ \A v \in Worker \ {w} : worker'[v] = worker[v]
  BY <1>0, <1>2 DEF Begin, Idle
<1>4. ~Closes(NoAnswer)
  BY SizesAssumption DEF Closes, NoAnswer, NormalizedState, Terminal
<1>5. ASSUME k = "submit"
      PROVE  entry'[l].state \notin Terminal /\ ~entry'[l].raw
  <2>1. SetWorking(l, "SUBMITTING", NoOrder, 0, FALSE, entry[l].recon) /\ ~entry[l].raw
    BY <1>2, <1>5 DEF SubmitStart
  <2>2. entry[l].recon \in {"none", "zero", "other"} /\ 0 \in 0..Size
    BY <1>0, SizesAssumption DEF TypeOK, Entry
  <2>3. Writes(l, "SUBMITTING", NoOrder)
    BY <2>1, <2>2 DEF Writes
  <2>4. "SUBMITTING" \in State \ Terminal
    BY DEF State, Terminal, MayOwnLiveOrder
  <2>. QED BY <1>0, <2>1, <2>3, <2>4, WritesRow
<1>. QED BY <1>1, <1>3, <1>4, <1>5, TerminalByWorker DEF At

LEMMA TerminalContinue ==
    ASSUME BaseInv, HandoffInv, TerminalInv, NEW w \in Worker, Continue(w),
           ~(RawEnter(w) /\ Current(w))
    PROVE  TerminalInv'
<1>0. TypeOK /\ KnownGenerations /\ worker \in [Worker -> WorkerState]
  BY DEF BaseInv, TypeOK
<1>1. StatesMove(w) /\ venue' = venue
  <2>1. venue' = venue
    BY DEF Continue, CommitSubmission, SubmitDenied, RawEnter, ObserverFails, SendPost,
           SubmitAmbiguous, SubmitConfirmed, ObserveStatus, CancelFails, CancelReturns,
           MarkReconciling, ApplyReconciliation
  <2>. QED BY <1>0, <2>1, ContinueWrites, WriteMovesStates
<1>2. \/ worker' = [worker EXCEPT ![w] = Idle]
      \/ worker' = [worker EXCEPT ![w].pc = "waiting"]
  BY DEF Continue, Finish, CommitSubmission, SubmitDenied, RawEnter, ObserverFails, SendPost,
         SubmitAmbiguous, SubmitConfirmed, ObserveStatus, CancelFails, CancelReturns,
         MarkReconciling, ApplyReconciliation
<1>3. ~Closes(NoAnswer)
  BY SizesAssumption DEF Closes, NoAnswer, NormalizedState, Terminal
<1>4. /\ \A v \in Worker \ {w} : worker'[v] = worker[v]
      /\ ~At(w, "submit", "started")'
      /\ \/ worker'[w].answer = NoAnswer
         \/ /\ worker'[w].answer = worker[w].answer
            /\ worker'[w].l = worker[w].l /\ worker'[w].gen = worker[w].gen
  BY <1>0, <1>2 DEF Idle, At, WorkerState
<1>5. Closes(worker'[w].answer) => OverAtVenue(worker'[w].l, worker'[w].gen)
  BY <1>3, <1>4 DEF TerminalInv
<1>. QED BY <1>1, <1>4, <1>5, TerminalByWorker

\* The row becomes raw while it is open.
LEMMA TerminalRawEnter ==
    ASSUME BaseInv, HandoffInv, TerminalInv, NEW w \in Worker, RawEnter(w), Current(w)
    PROVE  TerminalInv'
<1> DEFINE l == worker[w].l
<1>0. worker \in [Worker -> WorkerState] /\ entry \in [Lifecycle -> Entry]
  BY DEF BaseInv, TypeOK
<1>1. /\ At(w, "submit", "started") /\ venue' = venue
      /\ entry' = [entry EXCEPT ![l].raw = TRUE]
      /\ worker' = [worker EXCEPT ![w].pc = "entered"]
  BY DEF RawEnter
<1>2. l \in Lifecycle /\ entry[l].state \notin Terminal
  BY <1>1 DEF At, BaseInv, KnownGenerations, TerminalInv
<1>3. \A k \in Lifecycle : /\ entry'[k].gen = entry[k].gen /\ entry'[k].state = entry[k].state
                           /\ k # l => entry'[k] = entry[k]
  BY <1>0, <1>1, <1>2 DEF Entry
<1>4. \A v \in Worker : /\ worker'[v].answer = worker[v].answer /\ worker'[v].l = worker[v].l
                        /\ worker'[v].gen = worker[v].gen
                        /\ At(v, "submit", "started")' => v # w /\ worker'[v] = worker[v]
  BY <1>0, <1>1 DEF At, WorkerState
<1>5. TerminalIsTrue'
  BY <1>1, <1>2, <1>3, TerminalKept DEF TerminalInv
<1>6. (\A v \in Worker : Closes(worker[v].answer) => OverAtVenue(worker[v].l, worker[v].gen))'
  <2>1. \A k, g : OverAtVenue(k, g)' <=> OverAtVenue(k, g)
    BY <1>1 DEF OverAtVenue
  <2>. QED BY <1>4, <2>1 DEF TerminalInv, Closes, NormalizedState
<1>7. ASSUME NEW v \in Worker, At(v, "submit", "started")', Current(v)'
      PROVE  entry'[worker'[v].l].state \notin Terminal /\ ~entry'[worker'[v].l].raw
  <2>1. v # w /\ worker'[v] = worker[v] /\ At(v, "submit", "started")
    BY <1>4, <1>7 DEF At
  <2>2. worker[v].l \in Lifecycle /\ Current(v)
    BY <1>3, <1>7, <2>1 DEF At, Current, BaseInv, KnownGenerations
  <2>3. worker[v].l # l
    BY <1>1, <2>1, <2>2 DEF HandoffInv, BeforePost, At, Same, Current
  <2>. QED BY <1>3, <2>1, <2>2, <2>3 DEF TerminalInv
<1>8. (\A v \in Worker : At(v, "submit", "started") /\ Current(v) =>
          entry[worker[v].l].state \notin Terminal /\ ~entry[worker[v].l].raw)'
  BY <1>7 DEF At
<1>. QED BY <1>5, <1>6, <1>8 DEF TerminalInv

\* An answer closes an order only when the venue has closed it.
LEMMA ClosingAnswer ==
    ASSUME BaseInv, NEW o \in OrderId, NEW a \in Evidence(o),
           NormalizedState(a.label, a.matched) \in Terminal
    PROVE  venue[o].label \notin {"NONE", "LIVE"}
<1>0. /\ venue[o].label \in Label /\ venue[o].matched \in 0..Size
      /\ Size \in Nat /\ Size > 0
  BY SizesAssumption DEF BaseInv, TypeOK, VenueOrder
<1>1. a.label \in {venue[o].label, "NONE"} /\ a.matched \in 0..venue[o].matched
  <2>1. 0 \in 0..venue[o].matched
    BY <1>0
  <2>. QED BY <2>1 DEF Evidence, Reports
<1>2. ASSUME venue[o].label \in {"NONE", "LIVE"} PROVE FALSE
  <2>1. venue[o].matched < Size
    <3>1. CASE venue[o].label = "NONE"
      <4>1. venue[o] = Unassigned
        BY <3>1 DEF BaseInv, VenueWellFormed
      <4>2. venue[o].matched = 0
        BY <4>1 DEF Unassigned
      <4>. QED BY <1>0, <4>2
    <3>2. CASE venue[o].label = "LIVE"
      BY <3>2 DEF BaseInv, VenueWellFormed
    <3>. QED BY <1>2, <3>1, <3>2
  <2>2. a.matched \in Nat /\ a.matched < Size /\ a.label \in {"NONE", "LIVE"}
    BY <1>0, <1>1, <1>2, <2>1
  <2>3. NormalizedState(a.label, a.matched) \in {"PARTIALLY_FILLED", "WORKING"}
    BY <1>0, <2>2 DEF NormalizedState
  <2>. QED BY <2>3 DEF Terminal
<1>. QED BY <1>2

LEMMA TerminalReply ==
    ASSUME BaseInv, HandoffInv, OidsExact, TerminalInv, LocatorExact,
           NEW w \in Worker, Replies(w)
    PROVE  TerminalInv'
<1>0. TypeOK /\ KnownGenerations /\ worker \in [Worker -> WorkerState]
  BY DEF BaseInv, TypeOK
<1>1. worker[w].kind # "none" /\ worker[w].oid \in OrderId \cup {NoOrder}
  <2>1. worker[w].kind # "none"
    BY DEF Replies, SubmitReply, StatusReply, CancelAck, EvidenceReply, At
  <2>. QED BY <1>0, <2>1, WorkerType
<1>2. ~Closes([NoAnswer EXCEPT !.what = "noOid"])
  BY SizesAssumption DEF Closes, NoAnswer, NormalizedState, Terminal
<1>3. \A o \in OrderId : Names(o, worker[w].l, worker[w].gen) /\ venue[o].label \notin {"NONE", "LIVE"}
        => OverAtVenue(worker[w].l, worker[w].gen)
  BY SentinelAssumption DEF Names, OverAtVenue
<1>4. ASSUME NEW o \in OrderId, NEW a \in Evidence(o), Names(o, worker[w].l, worker[w].gen),
             NormalizedState(a.label, a.matched) \in Terminal
      PROVE  OverAtVenue(worker[w].l, worker[w].gen)
  BY <1>3, <1>4, ClosingAnswer
<1>5. \A o \in OrderId : \A a \in Reports(o) : a \in Evidence(o) /\ a.what = "order"
  BY DEF Evidence, Reports
<1>6. \A o \in OrderId : \A a \in Evidence(o) : a.what # "ack"
  BY DEF Evidence, Reports
<1>7. PICK o, a : Answered(w, o, a) /\ (Closes(a) => OverAtVenue(worker[w].l, worker[w].gen))
  <2>1. CASE SubmitReply(w)
    <3>1. PICK o \in OrderId : /\ venue[o].label # "NONE" /\ BelongsTo(o, w)
                               /\ \E a \in Reports(o) : Answered(w, o, a)
      BY <2>1 DEF SubmitReply
    <3>2. PICK a \in Reports(o) : Answered(w, o, a)
      BY <3>1
    <3>3. Names(o, worker[w].l, worker[w].gen)
      BY <3>1 DEF Names, BelongsTo
    <3>. QED BY <1>4, <1>5, <1>6, <3>2, <3>3 DEF Closes
  <2>2. CASE StatusReply(w)
    <3>1. worker[w].oid \in OrderId /\ Names(worker[w].oid, worker[w].l, worker[w].gen)
      BY <1>0, <1>1, <2>2 DEF StatusReply, KnownGenerations, OidsExact
    <3>2. PICK a \in Reports(worker[w].oid) : Answered(w, worker[w].oid, a)
      BY <2>2 DEF StatusReply
    <3>. QED BY <1>4, <1>5, <1>6, <3>1, <3>2 DEF Closes
  <2>3. CASE CancelAck(w)
    <3>1. worker[w].oid \in OrderId /\ Names(worker[w].oid, worker[w].l, worker[w].gen)
      BY <1>0, <1>1, <2>3 DEF CancelAck, At, KnownGenerations, OidsExact
    <3>2. PICK a : Answered(w, worker[w].oid, a)
      BY <2>3 DEF CancelAck
    <3>3. OverAtVenue(worker[w].l, worker[w].gen)
      BY <1>3, <2>3, <3>1 DEF CancelAck
    <3>. QED BY <3>2, <3>3
  <2>4. CASE EvidenceReply(w)
    <3>1. CASE Answered(w, NoOrder, [NoAnswer EXCEPT !.what = "noOid"])
      BY <1>2, <3>1
    <3>2. ASSUME NEW o \in Located(w), NEW a \in Evidence(o), Answered(w, o, a)
          PROVE  Closes(a) => OverAtVenue(worker[w].l, worker[w].gen)
      <4>1. o \in OrderId /\ Names(o, worker[w].l, worker[w].gen)
        <5>1. CASE worker[w].oid # NoOrder
          BY <1>1, <5>1 DEF Located, OidsExact
        <5>2. CASE worker[w].oid = NoOrder
          BY <5>2 DEF Located, Names, BelongsTo
        <5>. QED BY <5>1, <5>2
      <4>. QED BY <1>4, <1>6, <4>1 DEF Closes
    <3>. QED BY <2>4, <3>1, <3>2 DEF EvidenceReply
  <2>. QED BY <2>1, <2>2, <2>3, <2>4 DEF Replies
<1>8. /\ worker' = [worker EXCEPT ![w].pc = "answered", ![w].oid = o, ![w].answer = a]
      /\ UNCHANGED <<entry, venue>>
  BY <1>7 DEF Answered, VenueUnchanged
<1>9. /\ worker'[w].answer = a /\ worker'[w].l = worker[w].l /\ worker'[w].gen = worker[w].gen
      /\ worker'[w].pc = "answered"
      /\ \A v \in Worker \ {w} : worker'[v] = worker[v]
  BY <1>0, <1>8 DEF WorkerState
<1>10. StatesMove(w)
  BY <1>8 DEF StatesMove
<1>. QED BY <1>7, <1>8, <1>9, <1>10, TerminalByWorker DEF At

LEMMA TerminalInit == Init => TerminalInv
<1> SUFFICES ASSUME Init PROVE TerminalInv
  OBVIOUS
<1>1. /\ entry = [l \in Lifecycle |-> NoEntry] /\ NoEntry.gen = 0
      /\ worker = [w \in Worker |-> Idle] /\ Idle.answer = NoAnswer /\ Idle.kind = "none"
  BY DEF Init, NoEntry, Idle
<1>2. ~Closes(NoAnswer)
  BY SizesAssumption DEF Closes, NoAnswer, NormalizedState, Terminal
<1>. QED BY <1>1, <1>2 DEF TerminalInv, TerminalIsTrue, At

LEMMA TerminalStep ==
    ASSUME LocatorExact, TypeOK, ExposureInv, TerminalInv, [Next]_vars
    PROVE  TerminalInv'
<1>0. BaseInv /\ HandoffInv /\ OidsExact /\ KnownGenerations
  BY DEF ExposureInv, BaseInv
<1>1. CASE UNCHANGED vars
  <2>1. (\A v \in Worker : Closes(worker[v].answer) => OverAtVenue(worker[v].l, worker[v].gen))'
    BY <1>1 DEF vars, TerminalInv, OverAtVenue, Closes, NormalizedState
  <2>2. TerminalIsTrue'
    BY <1>0, <1>1, TerminalKept DEF vars, TerminalInv
  <2>. QED BY <1>1, <2>1, <2>2 DEF vars, TerminalInv, At, Current
<1>2. CASE VenueStep
  <2>1. UNCHANGED <<entry, worker>>
    BY <1>2 DEF VenueStep, VenueUnchanged
  <2>3. TerminalIsTrue'
    BY <1>0, <1>2, <2>1, TerminalKept DEF TerminalInv
  <2>4. (\A v \in Worker : Closes(worker[v].answer) => OverAtVenue(worker[v].l, worker[v].gen))'
    <3>1. \A v \in Worker : \A l, g : OverAtVenue(l, g) => OverAtVenue(l, g)'
      BY <1>0, <1>2, OverStable
    <3>. QED BY <2>1, <3>1 DEF TerminalInv, Closes, NormalizedState
  <2>. QED BY <2>1, <2>3, <2>4 DEF TerminalInv, At, Current
<1>3. ASSUME NEW l \in Lifecycle, NEW g \in Generation, InstallStep(l, g)
      PROVE  TerminalInv'
  <2>1. /\ entry' = [entry EXCEPT ![l] = FreshEntry(g)] /\ UNCHANGED <<worker, venue>>
        /\ FreshEntry(g).gen = g /\ ~FreshEntry(g).raw /\ g > lastGen[l]
    BY <1>3 DEF InstallStep, Install, FreshEntry, NoEntry
  <2>2. entry'[l] = FreshEntry(g) /\ \A k \in Lifecycle \ {l} : entry'[k] = entry[k]
    BY <1>0, <2>1 DEF BaseInv, TypeOK
  <2>3. TerminalIsTrue'
    BY <1>0, <2>1, <2>2, TerminalKept DEF TerminalInv
  <2>4. (\A v \in Worker : Closes(worker[v].answer) => OverAtVenue(worker[v].l, worker[v].gen))'
    BY <2>1 DEF TerminalInv, OverAtVenue, Closes, NormalizedState
  <2>5. ASSUME NEW v \in Worker, At(v, "submit", "started"), Current(v)'
        PROVE  worker[v].l # l /\ worker[v].l \in Lifecycle
    <3>1. /\ worker[v].l \in Lifecycle /\ worker[v].gen \in Generation
          /\ worker[v].gen <= lastGen[worker[v].l] /\ lastGen[l] \in 0..MaxGeneration
      BY <1>0, <2>5 DEF At, KnownGenerations, BaseInv, TypeOK
    <3>. QED BY <2>1, <2>2, <2>5, <3>1, SizesAssumption DEF Current, Generation
  <2>6. (\A v \in Worker : At(v, "submit", "started") /\ Current(v) =>
            entry[worker[v].l].state \notin Terminal /\ ~entry[worker[v].l].raw)'
    BY <2>1, <2>2, <2>5 DEF TerminalInv, At, Current
  <2>. QED BY <2>3, <2>4, <2>6 DEF TerminalInv
<1>4. ASSUME NEW rows \in SUBSET Lifecycle, DropStep(rows)
      PROVE  TerminalInv'
  <2>1. /\ \A k \in Lifecycle : entry'[k] = entry[k] \/ entry'[k].gen = 0
        /\ UNCHANGED <<worker, venue>>
    BY <1>4 DEF DropStep, Drop, NoEntry
  <2>2. TerminalIsTrue'
    BY <1>0, <2>1, TerminalKept DEF TerminalInv
  <2>3. (\A v \in Worker : Closes(worker[v].answer) => OverAtVenue(worker[v].l, worker[v].gen))'
    BY <2>1 DEF TerminalInv, OverAtVenue, Closes, NormalizedState
  <2>4. \A v \in Worker : At(v, "submit", "started") => worker[v].l \in Lifecycle /\ worker[v].gen # 0
    BY <1>0, SizesAssumption DEF At, KnownGenerations, Generation
  <2>5. (\A v \in Worker : At(v, "submit", "started") /\ Current(v) =>
            entry[worker[v].l].state \notin Terminal /\ ~entry[worker[v].l].raw)'
    BY <2>1, <2>4 DEF TerminalInv, At, Current
  <2>. QED BY <2>2, <2>3, <2>5 DEF TerminalInv
<1>5. ASSUME NEW w \in Worker, Start(w) \/ Continue(w) \/ Reply(w)
      PROVE  TerminalInv'
  <2>1. CASE Continue(w)
    BY <1>0, <2>1, TerminalContinue, TerminalRawEnter
  <2>2. CASE NoStatus(w)
    <3>1. /\ worker' = [worker EXCEPT ![w] = Idle] /\ UNCHANGED <<entry, venue>>
      BY <2>2 DEF NoStatus, Finish, VenueUnchanged
    <3>2. worker'[w] = Idle /\ \A v \in Worker \ {w} : worker'[v] = worker[v]
      BY <1>0, <3>1 DEF BaseInv, TypeOK
    <3>3. ~Closes(Idle.answer) /\ Idle.kind = "none"
      BY SizesAssumption DEF Idle, Closes, NoAnswer, NormalizedState, Terminal
    <3>4. StatesMove(w)
      BY <3>1 DEF StatesMove
    <3>. QED BY <1>0, <3>1, <3>2, <3>3, <3>4, TerminalByWorker DEF At
  <2>. QED BY <1>0, <1>5, <2>1, <2>2, TerminalStart, TerminalReply DEF Reply, Replies
<1>6. Next => \/ \E l \in Lifecycle, g \in Generation : InstallStep(l, g)
              \/ \E rows \in SUBSET Lifecycle : DropStep(rows)
              \/ VenueStep
              \/ \E w \in Worker : Start(w) \/ Continue(w) \/ Reply(w)
  BY <1>0, RegistryClasses DEF Next
<1>. QED BY <1>1, <1>2, <1>3, <1>4, <1>5, <1>6

-----------------------------------------------------------------------------
(* The exact order-id index *)

\* The index and the rows agree in both directions.
IndexAgrees ==
    /\ \A l \in Lifecycle : entry[l].oid # NoOrder => ownerOf[entry[l].oid] = l
    /\ \A o \in OrderId : ownerOf[o] # NoLifecycle => entry[ownerOf[o]].oid = o

\* While every order id is named by its own identity only, _set_working never
\* meets a foreign owner, and writes row and index together.
LEMMA IndexWritten ==
    ASSUME TypeOK, OidsExact, IndexAgrees, NEW l \in Lifecycle, NEW st \in State,
           NEW o \in OrderId \cup {NoOrder}, Names(o, l, entry[l].gen), Writes(l, st, o)
    PROVE  IndexAgrees'
<1>1. PICK f \in 0..Size, sub \in BOOLEAN, rec \in {"none", "zero", "other"} :
        SetWorking(l, st, o, f, sub, rec)
  BY DEF Writes
<1>2. entry \in [Lifecycle -> Entry] /\ ownerOf \in [OrderId -> Lifecycle \cup {NoLifecycle}]
      /\ \A k \in Lifecycle : entry[k].oid \in OrderId \cup {NoOrder}
  BY DEF TypeOK, Entry
<1> DEFINE n == NextOid(l, o)
<1>3. n \in OrderId \cup {NoOrder} /\ Names(n, l, entry[l].gen)
  BY <1>2 DEF NextOid, OidsExact
<1>4. ~ForeignOwner(l, o)
  <2> SUFFICES ASSUME ForeignOwner(l, o) PROVE FALSE
    OBVIOUS
  <2>1. /\ n # NoOrder /\ n \in OrderId
        /\ ownerOf[n] \in Lifecycle /\ ownerOf[n] # l
    BY <1>2, <1>3 DEF ForeignOwner
  <2>2. entry[ownerOf[n]].oid = n
    BY <2>1, SentinelAssumption DEF IndexAgrees
  <2>3. venue[n].l = ownerOf[n]
    BY <2>1, <2>2 DEF OidsExact, Names
  <2>. QED BY <1>3, <2>1, <2>3 DEF Names
<1>5. CASE OidConflict(l, o)
  BY <1>1, <1>5 DEF SetWorking, IndexAgrees
<1>6. CASE ~OidConflict(l, o)
  <2>1. \E e : entry' = [entry EXCEPT ![l] = e] /\ e.oid = n
    <3> DEFINE row == [entry[l] EXCEPT !.state = st, !.oid = NextOid(l, o),
                                       !.filled = Larger(entry[l].filled, f)]
    <3>1. row.oid = n /\ [row EXCEPT !.submitted = sub, !.recon = rec].oid = n
      BY <1>2 DEF Entry
    <3>2. entry' = [entry EXCEPT ![l] = [row EXCEPT !.submitted = sub, !.recon = rec]]
      BY <1>1, <1>4, <1>6 DEF SetWorking
    <3> HIDE DEF row
    <3>. QED BY <3>1, <3>2
  <2>2. ownerOf' = IF n = NoOrder THEN ownerOf ELSE [ownerOf EXCEPT ![n] = l]
    BY <1>1, <1>4, <1>6 DEF SetWorking
  <2>3. entry[l].oid \in {NoOrder, n}
    BY <1>6 DEF OidConflict, NextOid
  <2>4. entry'[l].oid = n /\ \A k \in Lifecycle \ {l} : entry'[k] = entry[k]
    BY <1>2, <2>1
  <2> HIDE DEF n
  <2>5. CASE n = NoOrder
    BY <1>2, <2>2, <2>3, <2>4, <2>5 DEF IndexAgrees
  <2>6. CASE n # NoOrder
    <3>1. n \in OrderId /\ ownerOf'[n] = l /\ \A p \in OrderId \ {n} : ownerOf'[p] = ownerOf[p]
      BY <1>2, <1>3, <2>2, <2>6
    <3>2. \A k \in Lifecycle \ {l} : entry[k].oid # n
      <4>1. ASSUME NEW k \in Lifecycle \ {l}, entry[k].oid = n PROVE FALSE
        <5>1. venue[n].l = k
          BY <2>6, <4>1 DEF OidsExact, Names
        <5>. QED BY <1>3, <2>6, <4>1, <5>1 DEF Names
      <4>. QED BY <4>1
    <3>3. \A k \in Lifecycle : entry'[k].oid # NoOrder => ownerOf'[entry'[k].oid] = k
      BY <1>2, <2>4, <3>1, <3>2 DEF IndexAgrees
    <3>4. \A p \in OrderId : ownerOf'[p] # NoLifecycle => entry'[ownerOf'[p]].oid = p
      <4>1. ASSUME NEW p \in OrderId \ {n}, ownerOf[p] # NoLifecycle
            PROVE  entry'[ownerOf[p]].oid = p
        <5>1. ownerOf[p] \in Lifecycle /\ entry[ownerOf[p]].oid = p
          BY <1>2, <4>1 DEF IndexAgrees
        <5>2. ownerOf[p] # l
          BY <2>3, <2>6, <4>1, <5>1, SentinelAssumption
        <5>. QED BY <2>4, <5>1, <5>2
      <4>. QED BY <2>4, <3>1, <4>1
    <3>. QED BY <3>3, <3>4 DEF IndexAgrees
  <2>. QED BY <2>5, <2>6
<1>. QED BY <1>5, <1>6

\* Removed rows take their order ids out of the index, and nobody else's.
LEMMA IndexWithout ==
    ASSUME TypeOK, IndexAgrees, NEW rows \in SUBSET Lifecycle, ownerOf' = WithoutOids(rows),
           \A k \in Lifecycle : k \notin rows => entry'[k] = entry[k],
           \A k \in rows : entry'[k].oid = NoOrder
    PROVE  IndexAgrees'
<1>0. /\ ownerOf \in [OrderId -> Lifecycle \cup {NoLifecycle}]
      /\ \A k \in Lifecycle : entry[k].oid \in OrderId \cup {NoOrder}
  BY DEF TypeOK, Entry
<1>1. \A o \in OrderId : ownerOf'[o] = IF \E k \in rows : entry[k].oid = o
                                       THEN NoLifecycle ELSE ownerOf[o]
  BY DEF WithoutOids
<1>2. ASSUME NEW k \in Lifecycle, entry'[k].oid # NoOrder
      PROVE  ownerOf'[entry'[k].oid] = k
  <2>1. k \notin rows /\ entry'[k] = entry[k] /\ entry[k].oid \in OrderId /\ ownerOf[entry[k].oid] = k
    BY <1>0, <1>2 DEF IndexAgrees
  <2>2. ASSUME NEW j \in rows, entry[j].oid = entry[k].oid PROVE FALSE
    BY <1>2, <2>1, <2>2 DEF IndexAgrees
  <2>. QED BY <1>1, <2>1, <2>2
<1>3. ASSUME NEW o \in OrderId, ownerOf'[o] # NoLifecycle
      PROVE  entry'[ownerOf'[o]].oid = o
  <2>1. ownerOf'[o] = ownerOf[o] /\ \A k \in rows : entry[k].oid # o
    BY <1>1, <1>3
  <2>2. ownerOf[o] \in Lifecycle /\ entry[ownerOf[o]].oid = o
    BY <1>0, <1>3, <2>1 DEF IndexAgrees
  <2>. QED BY <2>1, <2>2
<1>. QED BY <1>2, <1>3 DEF IndexAgrees

LEMMA IndexInit == Init => IndexAgrees
BY DEF Init, IndexAgrees, NoEntry

LEMMA IndexStep ==
    ASSUME TypeOK, ExposureInv, IndexAgrees, [Next]_vars
    PROVE  IndexAgrees'
<1>0. KnownGenerations /\ OidsExact
  BY DEF ExposureInv
<1>1. CASE UNCHANGED <<entry, ownerOf>>
  BY <1>1 DEF IndexAgrees
<1>2. ASSUME NEW w \in Worker, OperationWrite(w)
      PROVE  IndexAgrees'
  <2>1. ASSUME NEW l \in Lifecycle, NEW st \in State, NEW o \in OrderId \cup {NoOrder},
               Writes(l, st, o), o # NoOrder => Current(w) /\ l = worker[w].l /\ o = worker[w].oid
        PROVE  IndexAgrees'
    <3>1. Names(o, l, entry[l].gen)
      BY <1>0, <2>1 DEF OidsExact, Names, Current
    <3>. QED BY <1>0, <2>1, <3>1, IndexWritten
  <2>. QED BY <1>1, <1>2, <2>1 DEF OperationWrite
<1>3. ASSUME NEW w \in Worker, RawEnter(w), Current(w)
      PROVE  IndexAgrees'
  <2>1. Gains(w, NoOrder, FALSE) /\ ownerOf' = ownerOf
    BY <1>0, <1>3, RawEnterRows DEF RawEnter
  <2>2. \A k \in Lifecycle : entry'[k].oid = entry[k].oid
    BY <2>1 DEF Gains
  <2>. QED BY <2>1, <2>2 DEF IndexAgrees, TypeOK
<1>4. ASSUME NEW l \in Lifecycle, NEW g \in Generation, InstallStep(l, g)
      PROVE  IndexAgrees'
  <2>1. /\ entry' = [entry EXCEPT ![l] = FreshEntry(g)] /\ FreshEntry(g).oid = NoOrder
        /\ ownerOf' = WithoutOids({l})
    BY <1>4 DEF InstallStep, Install, FreshEntry, NoEntry
  <2>. QED BY <2>1, IndexWithout DEF TypeOK
<1>5. ASSUME NEW rows \in SUBSET Lifecycle, DropStep(rows)
      PROVE  IndexAgrees'
  BY <1>5, IndexWithout DEF DropStep, Drop, NoEntry
<1>6. ASSUME NEW w \in Worker, Reply(w)
      PROVE  UNCHANGED <<entry, ownerOf>>
  BY <1>6 DEF Reply, SubmitReply, StatusReply, NoStatus, CancelAck, EvidenceReply, Answered,
              VenueUnchanged
<1>7. CASE UNCHANGED vars
  BY <1>1, <1>7 DEF vars
<1>8. CASE VenueStep
  BY <1>1, <1>8 DEF VenueStep, VenueUnchanged
<1>. QED BY <1>0, <1>1, <1>2, <1>3, <1>4, <1>5, <1>6, <1>7, <1>8,
            RegistryClasses, StartWrites, ContinueWrites DEF Next

-----------------------------------------------------------------------------
(* What the rows say about the venue *)

LEMMA TruthInvariant ==
    ASSUME LocatorExact
    PROVE  Spec => [](TypeOK /\ ExposureInv /\ TerminalInv /\ IndexAgrees)
<1> DEFINE I == TypeOK /\ ExposureInv /\ TerminalInv /\ IndexAgrees
<1>1. Init => I
  BY BaseInit, ExposureInit, TerminalInit, IndexInit DEF BaseInv
<1>2. I /\ [Next]_vars => I'
  <2> SUFFICES ASSUME I, [Next]_vars PROVE I'
    OBVIOUS
  <2>1. BaseInv'
    BY BaseStep DEF BaseInv, ExposureInv
  <2>2. ExposureInv' /\ TerminalInv' /\ IndexAgrees'
    BY ExposureStep, TerminalStep, IndexStep
  <2>. QED BY <2>1, <2>2 DEF BaseInv
<1>. QED BY <1>1, <1>2, PTL DEF Spec

\* With an exact order locator, a raw-posted row is FILLED, CANCELLED, REJECTED or
\* FAILED only after the venue's order of that generation is over: no denied
\* submission, status, cancel answer or reconciliation closes a live order.
THEOREM TerminalIsTrueHolds == ASSUME LocatorExact PROVE Spec => []TerminalIsTrue
BY TruthInvariant, PTL DEF TerminalInv

\* With an exact order locator, an undecided POST and an order resting at the
\* venue have a row of their generation that owns the lifecycle, so create and
\* the duplicate-execution checks (has_owner_for_token) see it.
THEOREM ExposureOwnedHolds == ASSUME LocatorExact PROVE Spec => []ExposureOwned
<1>1. ASSUME TypeOK, ExposureInv, TerminalInv PROVE ExposureOwned
  <2>1. SUFFICES ASSUME NEW l \in Lifecycle, NEW g \in Generation,
                        \/ <<l, g>> \in wire
                        \/ \E o \in OrderId : venue[o].l = l /\ venue[o].gen = g
                                              /\ venue[o].label = "LIVE"
                 PROVE  entry[l].gen = g /\ Owns(l)
    BY DEF ExposureOwned
  <2>2. entry[l].gen = g /\ entry[l].raw
    BY <1>1, <2>1 DEF ExposureInv, ExposureAccountable, Exposed
  <2>3. posts[<<l, g>>] > 0
    BY <1>1, <2>1 DEF ExposureInv, VenueWellFormed
  <2>4. entry[l].state # "CREATED"
    <3>1. <<l, g>> \in Identity
      BY DEF Identity
    <3>. QED BY <1>1, <2>2, <2>3, <3>1 DEF ExposureInv, HandoffInv
  <2>5. ~OverAtVenue(l, g)
    BY <1>1, <2>1 DEF OverAtVenue, ExposureInv, OneOrderPerPost
  <2>6. entry[l].gen # 0
    BY <2>2, SizesAssumption DEF Generation
  <2>7. entry[l].state \notin Terminal
    BY <1>1, <2>2, <2>5, <2>6 DEF TerminalInv, TerminalIsTrue
  <2>8. entry[l].state \in State
    BY <1>1 DEF TypeOK, Entry
  <2>. QED BY <2>2, <2>4, <2>6, <2>7, <2>8 DEF Owns, State
<1>. QED BY <1>1, TruthInvariant, PTL

\* With an exact order locator, the order-id index and the rows agree in both
\* directions, and a row's order id is the order the venue made for that very
\* generation: _set_working never meets a foreign owner half-way.
THEOREM ExactAffinityHolds == ASSUME LocatorExact PROVE Spec => []ExactAffinity
<1>1. ASSUME ExposureInv, IndexAgrees PROVE ExactAffinity
  BY <1>1 DEF ExposureInv, OidsExact, Names, IndexAgrees, ExactAffinity
<1>. QED BY <1>1, TruthInvariant, PTL

=============================================================================
