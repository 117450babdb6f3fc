------------------------- MODULE PermitLedgerProofs -------------------------
(* Proofs about PermitLedger for every set of pipelines, candidates and tokens. *)
EXTENDS PermitLedger, TLAPS, FiniteSetTheorems

-----------------------------------------------------------------------------
(* The inductive invariant *)

\* What the ledger holds came from a decision; used and active are disjoint.
LedgerInv ==
    /\ IsFiniteSet(active)
    /\ active \subseteq decisions
    /\ \A d \in decisions : d.issued <= now /\ d.expires <= d.issued + Ttl
    /\ active \cap Remembered = {}
    /\ \A u \in consumed : u.permit \in decisions /\ u.permit.issued <= u.at

\* A used permit cannot come back: it is remembered until it has expired.
SpentInv ==
    \A h \in handoffs : /\ h.permit \notin active
                        /\ h.permit \in Remembered \/ Expired(h.permit)

\* The lock is held throughout the commit section, whose thread comes last.
CommitInv ==
    /\ \A p \in Pipeline :
           pipe[p].pc \in {"counting", "checking", "signing", "posting"} <=> lock = p
    /\ \A p \in Pipeline :
           pipe[p].pc \in {"idle", "counting", "checking", "signing"} =>
               thread[p] = "none" /\ p \notin posts

\* A thread that may post has consumed its permit, in time.
AuthorisedInv ==
    \A p \in Pipeline : p \in posts \/ thread[p] = "authorised" =>
        \E h \in handoffs : /\ h.permit = pipe[p].permit
                            /\ h.by = p /\ h.as = "post"
                            /\ h.at <= h.permit.expires

InSlot == {"sealing", "counting", "checking", "entering", "authorised", "sent"}
BeforePost == {"waiting", "sealing", "counting", "checking", "entering",
               "authorised", "denied"}
Handed == BeforePost \cup {"sent", "ambiguous", "confirmed"}

SlotInv == \A p \in Pipeline : thread[p] \in InSlot => slot = p

\* A row is handed to one thread, and owns its execution while an order may live.
RowInv ==
    /\ \A c \in Candidate : row[c] \in {"absent", "created"} => wire[c] = "none"
    /\ \A c \in Candidate : wire[c] \in {"out", "live"} => row[c] \in Unresolved
    /\ \A p \in Pipeline : thread[p] \in BeforePost => wire[CandidateOf[p]] = "none"
    /\ \A p \in Pipeline : thread[p] \in Handed => row[CandidateOf[p]] = "submitting"
    /\ \A p, q \in Pipeline : /\ thread[p] \in Handed /\ thread[q] \in Handed
                              /\ CandidateOf[p] = CandidateOf[q]
                              => p = q
    /\ \A p \in posts : wire[CandidateOf[p]] # "none"

\* A thread past the seal has the token to itself.
Sealed == {"entering", "authorised"}

TokenInv ==
    \A p \in Pipeline : thread[p] \in Sealed =>
        \A d \in Exposing \ {CandidateOf[p]} : TokenOf[d] # TokenOf[CandidateOf[p]]

\* A thread past the recount has a place below the limit.
Recounted == Sealed \cup {"checking"}

PlaceInv ==
    \A p \in Pipeline : thread[p] \in Recounted =>
        Cardinality(Exposing \ {CandidateOf[p]}) < MaxUnresolved

-----------------------------------------------------------------------------
(* Helpers *)

LEMMA UnindexedType ==
  ASSUME NEW A, NEW index \in [Candidate -> A \cup {NoPermit}], NEW S
  PROVE  Unindexed(index, S) \in [Candidate -> (A \ S) \cup {NoPermit}]
  BY DEF Unindexed

\* Registering keeps the ledger within its bound, whatever is evicted for it.
LEMMA EvictedBound ==
  ASSUME NEW A, IsFiniteSet(A), NEW S \in Evictable(A)
  PROVE  IsFiniteSet(A \ S) /\ Cardinality(A \ S) <= MaxActive
<1>1. S \subseteq A /\ Cardinality(S) = Overflow(A)
  BY DEF Evictable
<1>2. /\ IsFiniteSet(A \ S)
      /\ Cardinality(A \ S) = Cardinality(A) - Cardinality(A \cap S)
  BY FS_Difference
<1>3. A \cap S = S
  BY <1>1
<1>4. Cardinality(A) \in Nat
  BY FS_CardinalityType
<1>5. Cardinality(A \ S) = Cardinality(A) - Overflow(A)
  BY <1>1, <1>2, <1>3
<1>6. Cardinality(A) - Overflow(A) <= MaxActive
  BY <1>4, NumberAssumption DEF Overflow
<1> QED BY <1>2, <1>5, <1>6

LEMMA ConsumeType ==
  ASSUME TypeOK, LedgerInv, NEW p \in Pipeline, NEW as \in {"post", "retired"},
         Consumable(pipe[p].permit), Consume(p, pipe[p].permit, as)
  PROVE  /\ active' \subseteq Permit /\ IsFiniteSet(active')
         /\ Cardinality(active') <= MaxActive
         /\ indexed' \in [Candidate -> active' \cup {NoPermit}]
         /\ consumed' \subseteq Consumption
         /\ handoffs' \subseteq Handoff
<1> DEFINE d == pipe[p].permit
<1>1. d \in active /\ d \in Permit /\ now \in Time
  BY DEF Consumable, TypeOK
<1>2. /\ IsFiniteSet(active') /\ Cardinality(active') <= MaxActive
  <2>1. /\ IsFiniteSet(active \ {d}) /\ Cardinality(active \ {d}) <= Cardinality(active)
    BY FS_Subset DEF LedgerInv
  <2>2. Cardinality(active) \in Nat /\ Cardinality(active \ {d}) \in Nat
    BY <2>1, FS_CardinalityType DEF LedgerInv
  <2> QED BY <2>1, <2>2, NumberAssumption DEF TypeOK, Consume
<1>3. indexed' \in [Candidate -> active' \cup {NoPermit}]
  BY UnindexedType DEF TypeOK, Consume
<1>4. active' \subseteq Permit
  BY DEF TypeOK, Consume
<1>5. [permit |-> d, at |-> now] \in Consumption
  BY <1>1 DEF Consumption
<1>6. [permit |-> d, by |-> p, as |-> as, at |-> now] \in Handoff
  BY <1>1 DEF Handoff
<1>7. consumed' \subseteq Consumption /\ handoffs' \subseteq Handoff
  BY <1>5, <1>6 DEF TypeOK, Consume
<1> QED BY <1>2, <1>3, <1>4, <1>7

LEMMA RetireType ==
  ASSUME TypeOK, LedgerInv, NEW p \in Pipeline, Retire(p)
  PROVE  /\ active' \subseteq Permit /\ IsFiniteSet(active')
         /\ Cardinality(active') <= MaxActive
         /\ indexed' \in [Candidate -> active' \cup {NoPermit}]
         /\ consumed' \subseteq Consumption
         /\ handoffs' \subseteq Handoff
<1>1. CASE Consumable(pipe[p].permit) /\ Consume(p, pipe[p].permit, "retired")
  BY <1>1, ConsumeType
<1>2. CASE UNCHANGED <<ledger, handoffs>>
  BY <1>2 DEF TypeOK, LedgerInv, ledger
<1> QED BY <1>1, <1>2 DEF Retire

LEMMA PrepareType ==
  ASSUME TypeOK, LedgerInv, NEW p \in Pipeline, NEW d \in Permit,
         d.cand = CandidateOf[p], Prepare(p, d)
  PROVE  TypeOK' /\ IsFiniteSet(active')
<1>1. d.cand \in Candidate
  BY CandidateAssumption
<1>2. CASE Registrable(d) /\ Register(d) /\ UNCHANGED lock
           /\ pipe' = [pipe EXCEPT ![p].pc = "signing", ![p].permit = d]
  <2>1. PICK S \in Evictable(active \cup {d}) :
            /\ active' = (active \cup {d}) \ S
            /\ indexed' = Unindexed([indexed EXCEPT ![d.cand] = d], S)
            /\ prepared' = prepared \cup {d}
    BY <1>2 DEF Register
  <2>2. IsFiniteSet(active \cup {d})
    BY FS_AddElement DEF LedgerInv
  <2>3. IsFiniteSet(active') /\ Cardinality(active') <= MaxActive
    BY <2>1, <2>2, EvictedBound
  <2>4. [indexed EXCEPT ![d.cand] = d] \in [Candidate -> (active \cup {d}) \cup {NoPermit}]
    <3>1. indexed \in [Candidate -> active \cup {NoPermit}]
      BY DEF TypeOK
    <3> QED BY <1>1, <3>1
  <2>5. indexed' \in [Candidate -> active' \cup {NoPermit}]
    BY <2>1, <2>4, UnindexedType
  <2>6. active' \subseteq Permit /\ prepared' \subseteq Permit /\ decisions' \subseteq Permit
    BY <2>1 DEF TypeOK, Prepare
  <2>7. pipe' \in [Pipeline -> PipeState]
    <3>1. pipe \in [Pipeline -> PipeState]
      BY DEF TypeOK
    <3> QED BY <1>2, <3>1 DEF PipeState
  <2>8. UNCHANGED <<now, lock, slot, thread, consumed, handoffs, row, wire, posts>>
    BY <1>2 DEF Prepare, order
  <2> QED BY <2>3, <2>5, <2>6, <2>7, <2>8 DEF TypeOK
<1>3. CASE LeaveCommit(p) /\ UNCHANGED <<active, indexed, prepared>>
  BY <1>3 DEF TypeOK, LedgerInv, Prepare, LeaveCommit, order, PipeState
<1> QED BY <1>2, <1>3 DEF Prepare

LEMMA FreshPermit ==
  ASSUME TypeOK, NEW p \in Pipeline, NEW e \in now..(now + Ttl)
  PROVE  [cand |-> CandidateOf[p], issued |-> now, expires |-> e] \in Permit
<1>1. e \in 0..(MaxTime + Ttl) /\ now \in Time
  BY NumberAssumption DEF TypeOK, Time
<1> QED BY <1>1, CandidateAssumption DEF Permit

-----------------------------------------------------------------------------
(* Types *)

LEMMA TypeStep ==
  ASSUME TypeOK, LedgerInv, [Next]_vars
  PROVE  TypeOK' /\ IsFiniteSet(active')
<1> USE DEF ledger, history, order
<1>1. CASE UNCHANGED vars
  BY <1>1 DEF TypeOK, LedgerInv, vars
<1>2. ASSUME NEW p \in Pipeline, Commit(p)
      PROVE  TypeOK' /\ IsFiniteSet(active')
  <2>1. CASE EnterCommit(p) \/ NotAdmitted(p) \/ CountOwners(p)
    BY <2>1 DEF TypeOK, LedgerInv, PipeState, EnterCommit, NotAdmitted, CountOwners, LeaveCommit
  <2>2. CASE Admit(p)
    <3>1. PICK e \in now..(now + Ttl) :
              Prepare(p, [cand |-> CandidateOf[p], issued |-> now, expires |-> e])
      BY <2>2 DEF Admit
    <3> QED BY <3>1, FreshPermit, PrepareType
  <2>3. CASE AdmitKept(p)
    <3>1. PICK d \in decisions : d.cand = CandidateOf[p] /\ Prepare(p, d)
      BY <2>3 DEF AdmitKept
    <3>2. d \in Permit
      BY <3>1 DEF TypeOK
    <3> QED BY <3>1, <3>2, PrepareType
  <2>4. CASE Launch(p)
    <3>1. /\ pipe' \in [Pipeline -> PipeState] /\ thread' \in [Pipeline -> ThreadState]
          /\ row' \in [Candidate -> RowState]
      BY <2>4, CandidateAssumption DEF TypeOK, Launch, PipeState, ThreadState, RowState
    <3> QED BY <2>4, <3>1 DEF TypeOK, LedgerInv, Launch
  <2>5. CASE SignFails(p) \/ Collect(p) \/ Cancel(p)
    <3>1. /\ pipe' \in [Pipeline -> PipeState] /\ thread' \in [Pipeline -> ThreadState]
          /\ lock' = NoPipeline
      BY <2>5 DEF TypeOK, SignFails, Collect, Cancel, LeaveCommit, PipeState, ThreadState
    <3>2. /\ Retire(p)
          /\ UNCHANGED <<now, slot, prepared, decisions, row, wire, posts>>
      BY <2>5 DEF SignFails, Collect, Cancel
    <3> QED BY <3>1, <3>2, RetireType DEF TypeOK
  <2> QED BY <1>2, <2>1, <2>2, <2>3, <2>4, <2>5 DEF Commit
<1>3. ASSUME NEW p \in Pipeline, Submit(p)
      PROVE  TypeOK' /\ IsFiniteSet(active')
  <2>1. CASE PickUp(p) \/ AcquireSlot(p) \/ PermitSealed(p) \/ RecountOwners(p)
             \/ EvidenceSealed(p) \/ Denied(p) \/ PostReturns(p)
    BY <2>1 DEF TypeOK, LedgerInv, ThreadState, PickUp, AcquireSlot, PermitSealed,
         RecountOwners, EvidenceSealed, Denied, PostReturns, Goto, Leave
  <2>2. CASE SubmitStart(p) \/ Record(p)
    <3>1. thread' \in [Pipeline -> ThreadState] /\ row' \in [Candidate -> RowState]
      BY <2>2, CandidateAssumption DEF TypeOK, ThreadState, RowState, SubmitStart, Record,
           Goto, RowAfter
    <3> QED BY <2>2, <3>1 DEF TypeOK, LedgerInv, SubmitStart, Record
  <2>3. CASE EnterRawPost(p)
    <3>1. /\ thread' \in [Pipeline -> ThreadState] /\ slot' \in Pipeline \cup {NoPipeline}
          /\ prepared' \subseteq Permit
      BY <2>3 DEF TypeOK, EnterRawPost, Goto, Leave, ThreadState
    <3>2. CASE UNCHANGED <<ledger, handoffs>>
      BY <2>3, <3>1, <3>2 DEF TypeOK, LedgerInv, EnterRawPost
    <3>3. CASE Consumable(pipe[p].permit) /\ Consume(p, pipe[p].permit, "post")
      BY <2>3, <3>1, <3>3, ConsumeType DEF TypeOK, EnterRawPost
    <3> QED BY <2>3, <3>2, <3>3 DEF EnterRawPost
  <2>4. CASE RawPost(p)
    BY <2>4, CandidateAssumption DEF TypeOK, LedgerInv, ThreadState, RawPost, Goto
  <2> QED BY <1>3, <2>1, <2>2, <2>3, <2>4 DEF Submit
<1>4. CASE \E c \in Candidate : VenueAccepts(c) \/ VenueEnds(c) \/ Resolved(c)
  BY <1>4 DEF TypeOK, LedgerInv, RowState, VenueAccepts, VenueEnds, Resolved
<1>5. CASE Prune
  <2> DEFINE old == {d \in active : Expired(d)}
  <2>1. /\ active' = active \ old /\ indexed' = Unindexed(indexed, old)
        /\ consumed' = consumed \ Forgettable
        /\ UNCHANGED <<now, lock, slot, pipe, thread, prepared, decisions, handoffs,
                       row, wire, posts>>
    BY <1>5 DEF Prune
  <2> HIDE DEF old
  <2>2. IsFiniteSet(active \ old) /\ Cardinality(active \ old) <= Cardinality(active)
    BY FS_Subset DEF LedgerInv
  <2>3. Cardinality(active) \in Nat /\ Cardinality(active \ old) \in Nat
    BY <2>2, FS_CardinalityType DEF LedgerInv
  <2>4. IsFiniteSet(active') /\ Cardinality(active') <= MaxActive
    BY <2>1, <2>2, <2>3, NumberAssumption DEF TypeOK
  <2>5. indexed' \in [Candidate -> active' \cup {NoPermit}]
    BY <2>1, UnindexedType DEF TypeOK
  <2> QED BY <2>1, <2>4, <2>5 DEF TypeOK
<1>6. CASE Tick
  BY <1>6, NumberAssumption DEF TypeOK, LedgerInv, Time, Tick
<1> QED BY <1>1, <1>2, <1>3, <1>4, <1>5, <1>6 DEF Next, Outside

-----------------------------------------------------------------------------
(* What a step can do to the ledger *)

LedgerRests == UNCHANGED <<now, active, indexed, consumed, decisions, handoffs>>

Decides(d) == d \in decisions \/ (d.issued = now /\ d.expires <= now + Ttl)

Prepares(p) == \E d \in Permit : d.cand = CandidateOf[p] /\ Decides(d) /\ Prepare(p, d)

Consumes(p) == /\ Consumable(pipe[p].permit)
               /\ \E as \in {"post", "retired"} : Consume(p, pipe[p].permit, as)
               /\ UNCHANGED <<now, decisions>>

LEMMA RetireSteps ==
  ASSUME NEW p \in Pipeline, Retire(p), UNCHANGED <<now, decisions>>
  PROVE  Consumes(p) \/ LedgerRests
  BY DEF Retire, Consumes, LedgerRests, ledger

LEMMA LedgerSteps ==
  ASSUME TypeOK, [Next]_vars
  PROVE  \/ LedgerRests
         \/ \E p \in Pipeline : Prepares(p) \/ Consumes(p)
         \/ Prune
         \/ Tick
<1> USE DEF ledger, history, order
<1>1. CASE UNCHANGED vars
  BY <1>1 DEF vars, LedgerRests
<1>2. ASSUME NEW p \in Pipeline, Commit(p)
      PROVE  Prepares(p) \/ Consumes(p) \/ LedgerRests
  <2>1. CASE EnterCommit(p) \/ NotAdmitted(p) \/ CountOwners(p) \/ Launch(p)
    BY <2>1 DEF EnterCommit, NotAdmitted, CountOwners, Launch, LedgerRests
  <2>2. CASE Admit(p)
    <3>1. PICK e \in now..(now + Ttl) :
              Prepare(p, [cand |-> CandidateOf[p], issued |-> now, expires |-> e])
      BY <2>2 DEF Admit
    <3> DEFINE d == [cand |-> CandidateOf[p], issued |-> now, expires |-> e]
    <3>2. d \in Permit /\ d.cand = CandidateOf[p] /\ d.issued = now /\ d.expires <= now + Ttl
      BY FreshPermit, NumberAssumption DEF TypeOK, Time
    <3> HIDE DEF d
    <3> QED BY <3>1, <3>2 DEF Prepares, Decides, d
  <2>3. CASE AdmitKept(p)
    BY <2>3 DEF AdmitKept, Prepares, Decides, TypeOK
  <2>4. CASE SignFails(p) \/ Collect(p) \/ Cancel(p)
    BY <2>4, RetireSteps DEF SignFails, Collect, Cancel
  <2> QED BY <1>2, <2>1, <2>2, <2>3, <2>4 DEF Commit
<1>3. ASSUME NEW p \in Pipeline, Submit(p)
      PROVE  Consumes(p) \/ LedgerRests
  <2>1. CASE EnterRawPost(p)
    BY <2>1 DEF EnterRawPost, Consumes, LedgerRests
  <2>2. CASE ~EnterRawPost(p)
    BY <1>3, <2>2 DEF Submit, PickUp, SubmitStart, AcquireSlot, PermitSealed, RecountOwners,
         EvidenceSealed, Denied, RawPost, PostReturns, Record, LedgerRests
  <2> QED BY <2>1, <2>2
<1>4. CASE \E c \in Candidate : VenueAccepts(c) \/ VenueEnds(c) \/ Resolved(c)
  BY <1>4 DEF VenueAccepts, VenueEnds, Resolved, LedgerRests
<1> QED BY <1>1, <1>2, <1>3, <1>4 DEF Next, Outside

LEMMA PrepareEffect ==
  ASSUME NEW p, NEW d, Prepare(p, d)
  PROVE  /\ UNCHANGED <<now, consumed, handoffs>>
         /\ decisions' = decisions \cup {d}
         /\ active' \subseteq active \cup {d}
         /\ d \in active' => d \in active \/ Registrable(d)
  BY DEF Prepare, Register, Evictable

LEMMA RememberedMore ==
  ASSUME NEW d, consumed' = consumed \cup {[permit |-> d, at |-> now]}
  PROVE  Remembered' = Remembered \cup {d}
<1> DEFINE u == [permit |-> d, at |-> now]
<1>1. u.permit = d /\ consumed' = consumed \cup {u}
  OBVIOUS
<1> HIDE DEF u
<1> QED BY <1>1 DEF Remembered

LEMMA LedgerStep ==
  ASSUME TypeOK, LedgerInv, [Next]_vars
  PROVE  LedgerInv'
<1>0. IsFiniteSet(active') /\ now \in Nat /\ Ttl \in Nat
  BY TypeStep, NumberAssumption DEF TypeOK, Time
<1>1. CASE LedgerRests
  BY <1>1 DEF LedgerRests, LedgerInv, Remembered
<1>2. ASSUME NEW p \in Pipeline, NEW d \in Permit, Decides(d), Prepare(p, d)
      PROVE  LedgerInv'
  <2>1. d.issued <= now /\ d.expires <= d.issued + Ttl
    BY <1>0, <1>2 DEF Decides, LedgerInv
  <2>2. active' \cap Remembered' = {}
    BY <1>2, PrepareEffect DEF LedgerInv, Remembered, Registrable
  <2> QED BY <1>0, <1>2, <2>1, <2>2, PrepareEffect DEF LedgerInv
<1>3. ASSUME NEW p \in Pipeline, Consumes(p)
      PROVE  LedgerInv'
  <2> DEFINE d == pipe[p].permit
  <2>1. /\ d \in active /\ active' = active \ {d}
        /\ consumed' = consumed \cup {[permit |-> d, at |-> now]}
        /\ UNCHANGED <<now, decisions>>
    BY <1>3 DEF Consumes, Consumable, Consume
  <2> HIDE DEF d
  <2>2. Remembered' = Remembered \cup {d}
    BY <2>1, RememberedMore
  <2>3. d \in decisions /\ d.issued <= now
    BY <2>1 DEF LedgerInv
  <2> QED BY <1>0, <2>1, <2>2, <2>3 DEF LedgerInv
<1>4. CASE Prune
  BY <1>0, <1>4 DEF Prune, LedgerInv, Remembered, history
<1>5. CASE Tick
  BY <1>0, <1>5 DEF Tick, LedgerInv, Remembered, TypeOK, Permit, Time, ledger, history
<1> QED BY <1>1, <1>2, <1>3, <1>4, <1>5, LedgerSteps DEF Prepares

\* The heart of ConsumedOnce: pruning forgets a used permit only when it has expired.
LEMMA SpentStep ==
  ASSUME Ttl < Keep, TypeOK, LedgerInv, SpentInv, ConsumedOnce, [Next]_vars
  PROVE  SpentInv' /\ ConsumedOnce'
<1>0. now \in Nat /\ Ttl \in Nat /\ Keep \in Nat
  BY NumberAssumption DEF TypeOK, Time
<1>1. CASE LedgerRests
  BY <1>1 DEF LedgerRests, SpentInv, ConsumedOnce, Remembered, Expired
<1>2. ASSUME NEW p \in Pipeline, NEW d \in Permit, Decides(d), Prepare(p, d)
      PROVE  SpentInv' /\ ConsumedOnce'
  <2>1. /\ UNCHANGED <<now, consumed, handoffs>> /\ active' \subseteq active \cup {d}
        /\ d \in active' => d \in active \/ Registrable(d)
    BY <1>2, PrepareEffect
  <2> QED BY <2>1 DEF SpentInv, ConsumedOnce, Registrable, Expired, Remembered
<1>3. ASSUME NEW p \in Pipeline, Consumes(p)
      PROVE  SpentInv' /\ ConsumedOnce'
  <2>1. PICK as \in {"post", "retired"} : Consume(p, pipe[p].permit, as)
    BY <1>3 DEF Consumes
  <2> DEFINE d == pipe[p].permit
             h == [permit |-> d, by |-> p, as |-> as, at |-> now]
  <2>2. /\ d \in active /\ active' = active \ {d}
        /\ consumed' = consumed \cup {[permit |-> d, at |-> now]}
        /\ handoffs' = handoffs \cup {h}
        /\ UNCHANGED <<now, decisions>>
    BY <1>3, <2>1 DEF Consumes, Consumable, Consume
  <2>3. h.permit = d
    OBVIOUS
  <2> HIDE DEF d, h
  <2>4. Remembered' = Remembered \cup {d}
    BY <2>2, RememberedMore
  <2>5. \A g \in handoffs : g.permit # d
    BY <2>2 DEF SpentInv
  <2> QED BY <2>2, <2>3, <2>4, <2>5 DEF SpentInv, ConsumedOnce, Expired
<1>4. CASE Prune
  <2>1. /\ active' \subseteq active /\ consumed' = consumed \ Forgettable
        /\ UNCHANGED <<now, handoffs>>
    BY <1>4 DEF Prune, history
  <2>2. ASSUME NEW h \in handoffs
        PROVE  h.permit \in Remembered' \/ Expired(h.permit)'
    <3>1. CASE Expired(h.permit)
      BY <2>1, <3>1 DEF Expired
    <3>2. CASE h.permit \in Remembered
      <4>1. PICK u \in consumed : u.permit = h.permit
        BY <3>2 DEF Remembered
      <4>2. CASE u \in Forgettable
        <5>1. now - u.at >= Keep
          BY <4>2 DEF Forgettable
        <5>2. /\ u.permit \in Permit /\ u.at \in Nat /\ u.permit.issued <= u.at
              /\ u.permit.expires <= u.permit.issued + Ttl
          BY <4>1 DEF LedgerInv, TypeOK, Consumption, Time
        <5>3. u.permit.issued \in Nat /\ u.permit.expires \in Nat
          BY <5>2, NumberAssumption DEF Permit, Time
        <5> QED BY <1>0, <2>1, <4>1, <5>1, <5>2, <5>3 DEF Expired
      <4>3. CASE u \notin Forgettable
        BY <2>1, <4>1, <4>3 DEF Remembered
      <4> QED BY <4>2, <4>3
    <3> QED BY <3>1, <3>2 DEF SpentInv
  <2> QED BY <2>1, <2>2 DEF SpentInv, ConsumedOnce
<1>5. CASE Tick
  <2>1. ASSUME NEW h \in handoffs, Expired(h.permit)
        PROVE  Expired(h.permit)'
    <3>1. h.permit \in Permit
      BY DEF TypeOK, Handoff
    <3>2. h.permit.expires \in Nat
      BY <3>1, NumberAssumption DEF Permit
    <3> QED BY <1>0, <1>5, <2>1, <3>2 DEF Tick, Expired
  <2> QED BY <1>5, <2>1 DEF Tick, SpentInv, ConsumedOnce, Remembered, ledger, history
<1> QED BY <1>1, <1>2, <1>3, <1>4, <1>5, LedgerSteps DEF Prepares

-----------------------------------------------------------------------------
(* The commit section and its authority *)

LEMMA CommitStep ==
  ASSUME TypeOK, CommitInv, [Next]_vars
  PROVE  CommitInv'
<1> USE PipelineAssumption DEF ledger, history, order
<1>1. CASE UNCHANGED vars
  BY <1>1 DEF CommitInv, vars
<1>2. ASSUME NEW p \in Pipeline, Commit(p)
      PROVE  CommitInv'
  <2>1. CASE EnterCommit(p) \/ NotAdmitted(p) \/ CountOwners(p)
    BY <2>1 DEF TypeOK, PipeState, CommitInv, EnterCommit, NotAdmitted, CountOwners,
         LeaveCommit
  <2>2. ASSUME NEW d, pipe[p].pc = "checking", Prepare(p, d)
        PROVE  CommitInv'
    BY <2>2 DEF TypeOK, PipeState, CommitInv, Prepare, LeaveCommit
  <2>3. CASE Launch(p)
    BY <2>3 DEF TypeOK, PipeState, CommitInv, Launch
  <2>4. CASE SignFails(p) \/ Collect(p) \/ Cancel(p)
    BY <2>4 DEF TypeOK, PipeState, CommitInv, SignFails, Collect, Cancel, LeaveCommit
  <2> QED BY <1>2, <2>1, <2>2, <2>3, <2>4 DEF Commit, Admit, AdmitKept
<1>3. ASSUME NEW p \in Pipeline, Submit(p)
      PROVE  CommitInv'
  <2>1. /\ UNCHANGED <<lock, pipe>> /\ posts' \subseteq posts \cup {p}
        /\ thread[p] # "none"
        /\ \A q \in Pipeline \ {p} : thread'[q] = thread[q]
    BY <1>3 DEF TypeOK, Submit, PickUp, SubmitStart, AcquireSlot, PermitSealed, RecountOwners,
         EvidenceSealed, Denied, EnterRawPost, RawPost, PostReturns, Record, RowAfter,
         Goto, Leave
  <2> QED BY <2>1 DEF CommitInv
<1>4. CASE \E c \in Candidate : VenueAccepts(c) \/ VenueEnds(c) \/ Resolved(c)
  BY <1>4 DEF CommitInv, VenueAccepts, VenueEnds, Resolved
<1>5. CASE Prune \/ Tick
  BY <1>5 DEF CommitInv, Prune, Tick
<1> QED BY <1>1, <1>2, <1>3, <1>4, <1>5 DEF Next, Outside

\* A usable permit of a pipeline is consumed when the pipeline retires it.
LEMMA RetiredAuthority ==
  ASSUME TypeOK, LedgerInv, AuthorityCommitted, NEW p \in Pipeline, lock = p,
         Retire(p), UNCHANGED now, NEW d \in active'
  PROVE  Expired(d)'
<1>1. d \in active
  BY DEF Retire, Consume, ledger
<1>2. CASE Expired(d)
  BY <1>2 DEF Expired
<1>3. CASE ~Expired(d)
  <2>1. pipe[p].permit = d
    BY <1>1, <1>3 DEF AuthorityCommitted
  <2>2. Consumable(d)
    BY <1>1, <1>3 DEF Consumable, LedgerInv
  <2> QED BY <2>1, <2>2 DEF Retire, Consume
<1> QED BY <1>2, <1>3

LEMMA AuthorityStep ==
  ASSUME TypeOK, LedgerInv, CommitInv, AuthorityCommitted, [Next]_vars
  PROVE  AuthorityCommitted'
<1> USE PipelineAssumption DEF ledger, history, order
<1>1. CASE UNCHANGED vars
  BY <1>1 DEF AuthorityCommitted, Expired, vars
<1>2. ASSUME NEW p \in Pipeline, Commit(p)
      PROVE  AuthorityCommitted'
  <2>1. CASE EnterCommit(p)
    BY <2>1 DEF AuthorityCommitted, Expired, EnterCommit
  <2>2. ASSUME pipe[p].pc \in {"counting", "checking"}, NEW d \in active
        PROVE  Expired(d)
    BY <2>2 DEF AuthorityCommitted, CommitInv
  <2>3. CASE NotAdmitted(p) \/ CountOwners(p)
    BY <2>2, <2>3 DEF AuthorityCommitted, Expired, NotAdmitted, CountOwners
  <2>4. ASSUME NEW d, pipe[p].pc = "checking", Prepare(p, d)
        PROVE  AuthorityCommitted'
    <3>1. lock = p
      BY <2>4 DEF CommitInv
    <3>2. CASE Registrable(d) /\ Register(d) /\ UNCHANGED lock
               /\ pipe' = [pipe EXCEPT ![p].pc = "signing", ![p].permit = d]
      <4>1. pipe'[p].pc = "signing" /\ pipe'[p].permit = d
        BY <3>2 DEF TypeOK, PipeState
      <4>2. active' \subseteq active \cup {d} /\ UNCHANGED now
        BY <2>4, PrepareEffect
      <4> QED BY <2>2, <2>4, <3>1, <3>2, <4>1, <4>2 DEF AuthorityCommitted, Expired
    <3>3. CASE LeaveCommit(p) /\ UNCHANGED <<active, indexed, prepared>>
      BY <2>2, <2>4, <3>3 DEF AuthorityCommitted, Expired, Prepare
    <3> QED BY <2>4, <3>2, <3>3 DEF Prepare
  <2>5. CASE Launch(p)
    BY <2>5 DEF AuthorityCommitted, Expired, Launch, TypeOK, PipeState
  <2>6. CASE SignFails(p) \/ Collect(p) \/ Cancel(p)
    <3>1. lock = p /\ Retire(p) /\ UNCHANGED now
      BY <2>6 DEF CommitInv, SignFails, Collect, Cancel
    <3> QED BY <3>1, RetiredAuthority DEF AuthorityCommitted
  <2> QED BY <1>2, <2>1, <2>3, <2>4, <2>5, <2>6 DEF Commit, Admit, AdmitKept
<1>3. ASSUME NEW p \in Pipeline, Submit(p)
      PROVE  AuthorityCommitted'
  <2>1. UNCHANGED <<now, lock, pipe>> /\ active' \subseteq active
    BY <1>3 DEF Submit, PickUp, SubmitStart, AcquireSlot, PermitSealed, RecountOwners,
         EvidenceSealed, Denied, EnterRawPost, Consume, RawPost, PostReturns, Record
  <2> QED BY <2>1 DEF AuthorityCommitted, Expired
<1>4. CASE \E c \in Candidate : VenueAccepts(c) \/ VenueEnds(c) \/ Resolved(c)
  BY <1>4 DEF AuthorityCommitted, Expired, VenueAccepts, VenueEnds, Resolved
<1>5. CASE Prune
  BY <1>5 DEF AuthorityCommitted, Expired, Prune
<1>6. CASE Tick
  <2>1. ASSUME NEW d \in active, Expired(d) PROVE Expired(d)'
    <3>1. d.expires \in Nat /\ now \in Nat
      BY NumberAssumption DEF TypeOK, Permit, Time
    <3> QED BY <1>6, <2>1, <3>1 DEF Tick, Expired
  <2> QED BY <1>6, <2>1 DEF AuthorityCommitted, Tick
<1> QED BY <1>1, <1>2, <1>3, <1>4, <1>5, <1>6 DEF Next, Outside

\* Only EnterRawPost leads to a POST, and it has consumed the permit.
LEMMA AuthorisedStep ==
  ASSUME TypeOK, CommitInv, AuthorisedInv, [Next]_vars
  PROVE  AuthorisedInv'
<1> USE DEF ledger, history, order
<1>1. handoffs \subseteq handoffs'
  BY LedgerSteps, PrepareEffect DEF LedgerRests, Prepares, Consumes, Consume, Prune, Tick
<1>2. CASE \E p \in Pipeline : EnterRawPost(p)
  <2>1. PICK p \in Pipeline : EnterRawPost(p)
    BY <1>2
  <2> DEFINE d == pipe[p].permit
             h == [permit |-> d, by |-> p, as |-> "post", at |-> now]
  <2>2. /\ UNCHANGED <<pipe, posts>>
        /\ \A q \in Pipeline \ {p} : thread'[q] = thread[q]
        /\ thread[p] = "entering"
    BY <2>1 DEF TypeOK, EnterRawPost, Goto, Leave
  <2>3. p \in posts => \E g \in handoffs : /\ g.permit = d /\ g.by = p /\ g.as = "post"
                                           /\ g.at <= g.permit.expires
    BY DEF AuthorisedInv
  <2>4. CASE Consumable(d) /\ Consume(p, d, "post")
    <3>1. d \in Permit /\ now \in Nat /\ ~(now > d.expires)
      BY <2>4 DEF Consumable, Expired, TypeOK, Time
    <3>2. d.expires \in Nat
      BY <3>1, NumberAssumption DEF Permit
    <3>3. /\ h \in handoffs' /\ h.permit = d /\ h.by = p /\ h.as = "post"
          /\ h.at <= h.permit.expires
      BY <2>4, <3>1, <3>2 DEF Consume
    <3> HIDE DEF h
    <3> QED BY <1>1, <2>2, <3>3 DEF AuthorisedInv
  <2>5. CASE Leave(p, "ambiguous")
    <3>1. thread'[p] = "ambiguous"
      BY <2>5 DEF TypeOK, Leave, Goto
    <3> QED BY <1>1, <2>2, <2>3, <3>1 DEF AuthorisedInv
  <2> QED BY <2>1, <2>4, <2>5 DEF EnterRawPost
<1>3. ASSUME NEW p \in Pipeline, RawPost(p)
      PROVE  AuthorisedInv'
  BY <1>1, <1>3 DEF TypeOK, AuthorisedInv, RawPost, Goto
<1>4. ASSUME NEW p \in Pipeline, Submit(p), ~EnterRawPost(p), ~RawPost(p)
      PROVE  AuthorisedInv'
  <2>1. /\ UNCHANGED <<pipe, posts>> /\ thread'[p] # "authorised"
        /\ \A q \in Pipeline \ {p} : thread'[q] = thread[q]
    BY <1>4 DEF TypeOK, Submit, PickUp, SubmitStart, AcquireSlot, PermitSealed, RecountOwners,
         EvidenceSealed, Denied, PostReturns, Record, Goto, Leave
  <2> QED BY <1>1, <2>1 DEF AuthorisedInv
<1>5. ASSUME NEW p \in Pipeline, Commit(p)
      PROVE  AuthorisedInv'
  <2>1. UNCHANGED posts /\ (\A q \in Pipeline \ {p} : thread'[q] = thread[q])
        /\ (thread'[p] = "authorised" => thread[p] = "authorised")
    BY <1>5 DEF TypeOK, Commit, EnterCommit, NotAdmitted, CountOwners, Admit, AdmitKept, Prepare,
         Launch, SignFails, Collect, Cancel
  <2>2. /\ \A q \in Pipeline \ {p} : pipe'[q] = pipe[q]
        /\ pipe[p].pc # "checking" => pipe'[p].permit = pipe[p].permit
    <3>1. CASE EnterCommit(p) \/ NotAdmitted(p) \/ CountOwners(p) \/ Launch(p)
      BY <3>1 DEF TypeOK, PipeState, EnterCommit, NotAdmitted, CountOwners, Launch, LeaveCommit
    <3>2. ASSUME NEW d, pipe[p].pc = "checking", Prepare(p, d)
          PROVE  \A q \in Pipeline \ {p} : pipe'[q] = pipe[q]
      BY <3>2 DEF TypeOK, Prepare, LeaveCommit
    <3>3. CASE SignFails(p) \/ Collect(p) \/ Cancel(p)
      BY <3>3 DEF TypeOK, PipeState, SignFails, Collect, Cancel, LeaveCommit
    <3> QED BY <1>5, <3>1, <3>2, <3>3 DEF Commit, Admit, AdmitKept
  <2>3. pipe[p].pc = "checking" => p \notin posts /\ thread[p] = "none"
    BY DEF CommitInv
  <2> QED BY <1>1, <2>1, <2>2, <2>3 DEF AuthorisedInv
<1>6. CASE UNCHANGED vars \/ Outside
  BY <1>1, <1>6 DEF AuthorisedInv, Outside, VenueAccepts, VenueEnds, Resolved, Prune, Tick, vars
<1> QED BY <1>2, <1>3, <1>4, <1>5, <1>6 DEF Next

-----------------------------------------------------------------------------
(* The thread, its row and its order *)

\* Only one thread is between entering and leaving the transport slot.
LEMMA SlotStep ==
  ASSUME TypeOK, CommitInv, SlotInv, [Next]_vars
  PROVE  SlotInv'
<1> USE PipelineAssumption DEF ledger, history, order
<1>1. CASE UNCHANGED vars \/ Outside
  BY <1>1 DEF SlotInv, Outside, VenueAccepts, VenueEnds, Resolved, Prune, Tick, vars
<1>2. ASSUME NEW p \in Pipeline, Commit(p)
      PROVE  SlotInv'
  <2>1. /\ UNCHANGED slot /\ \A q \in Pipeline \ {p} : thread'[q] = thread[q]
        /\ thread'[p] = thread[p] \/ thread'[p] \in {"none", "queued"}
    BY <1>2 DEF TypeOK, Commit, EnterCommit, NotAdmitted, CountOwners, Admit, AdmitKept, Prepare,
         Launch, SignFails, Collect, Cancel
  <2> QED BY <2>1 DEF SlotInv, InSlot
<1>3. ASSUME NEW p \in Pipeline, Submit(p)
      PROVE  SlotInv'
  <2>1. CASE PickUp(p) \/ SubmitStart(p) \/ Record(p)
    BY <2>1 DEF TypeOK, SlotInv, InSlot, PickUp, SubmitStart, Record, RowAfter, Goto
  <2>2. CASE AcquireSlot(p)
    BY <2>2 DEF TypeOK, SlotInv, AcquireSlot, Goto
  <2>3. CASE PermitSealed(p) \/ RecountOwners(p) \/ EvidenceSealed(p) \/ RawPost(p)
    BY <2>3 DEF TypeOK, SlotInv, InSlot, PermitSealed, RecountOwners, EvidenceSealed, RawPost,
         Goto
  <2>4. CASE Denied(p) \/ EnterRawPost(p) \/ PostReturns(p)
    BY <2>4 DEF TypeOK, SlotInv, InSlot, Denied, EnterRawPost, PostReturns, Goto, Leave
  <2> QED BY <1>3, <2>1, <2>2, <2>3, <2>4 DEF Submit
<1> QED BY <1>1, <1>2, <1>3 DEF Next

\* A thread that goes on changes neither its row nor its order.
GoesOn(p) == /\ UNCHANGED <<row, wire, posts>>
             /\ \A q \in Pipeline \ {p} : thread'[q] = thread[q]
             /\ thread'[p] \in Handed => thread[p] \in Handed
             /\ thread'[p] \in BeforePost => thread[p] \in BeforePost

LEMMA OrderSteps ==
  ASSUME TypeOK, CommitInv, [Next]_vars
  PROVE  \/ UNCHANGED <<thread, row, wire, posts>>
         \/ \E p \in Pipeline : GoesOn(p) \/ Launch(p) \/ SubmitStart(p) \/ RawPost(p) \/ Record(p)
         \/ \E c \in Candidate : VenueAccepts(c) \/ VenueEnds(c) \/ Resolved(c)
<1> USE DEF ledger, history, order
<1>1. CASE UNCHANGED vars \/ Prune \/ Tick
  BY <1>1 DEF Prune, Tick, vars
<1>2. ASSUME NEW p \in Pipeline, Commit(p), ~Launch(p)
      PROVE  UNCHANGED <<thread, row, wire, posts>> \/ GoesOn(p)
  <2>1. CASE Cancel(p)
    BY <2>1 DEF TypeOK, Cancel, GoesOn, Handed, BeforePost
  <2>2. CASE ~Cancel(p)
    BY <1>2, <2>2 DEF Commit, EnterCommit, NotAdmitted, CountOwners, Admit, AdmitKept, Prepare,
         SignFails, Collect
  <2> QED BY <2>1, <2>2
<1>3. ASSUME NEW p \in Pipeline, Submit(p), ~SubmitStart(p), ~RawPost(p), ~Record(p)
      PROVE  GoesOn(p)
  <2>1. CASE PickUp(p) \/ AcquireSlot(p) \/ PermitSealed(p) \/ RecountOwners(p)
    BY <2>1 DEF TypeOK, PickUp, AcquireSlot, PermitSealed, RecountOwners, Goto, GoesOn, Handed,
         BeforePost
  <2>2. CASE EvidenceSealed(p) \/ Denied(p)
    BY <2>2 DEF TypeOK, EvidenceSealed, Denied, Goto, Leave, GoesOn, Handed, BeforePost
  <2>3. CASE EnterRawPost(p) \/ PostReturns(p)
    BY <2>3 DEF TypeOK, EnterRawPost, PostReturns, Goto, Leave, GoesOn, Handed, BeforePost
  <2> QED BY <1>3, <2>1, <2>2, <2>3 DEF Submit
<1> QED BY <1>1, <1>2, <1>3 DEF Next, Outside

LEMMA RowStep ==
  ASSUME TypeOK, CommitInv, RowInv, [Next]_vars
  PROVE  RowInv'
<1> USE CandidateAssumption DEF ledger, history, order
<1>1. CASE UNCHANGED <<thread, row, wire, posts>>
  BY <1>1 DEF RowInv
<1>2. ASSUME NEW p \in Pipeline, GoesOn(p)
      PROVE  RowInv'
  BY <1>2 DEF GoesOn, RowInv
<1>3. ASSUME NEW p \in Pipeline, Launch(p)
      PROVE  RowInv'
  <2>1. /\ UNCHANGED <<wire, posts>> /\ thread'[p] = "queued"
        /\ \A q \in Pipeline \ {p} : thread'[q] = thread[q]
    BY <1>3 DEF TypeOK, Launch
  <2>2. \A c \in Candidate : row'[c] = row[c] \/ (row[c] = "absent" /\ row'[c] = "created")
    BY <1>3 DEF TypeOK, Launch
  <2>3. thread'[p] \notin Handed
    BY <2>1 DEF Handed, BeforePost
  <2> QED BY <2>1, <2>2, <2>3 DEF RowInv, Handed, Unresolved
<1>4. ASSUME NEW p \in Pipeline, SubmitStart(p)
      PROVE  RowInv'
  <2>1. CASE thread' = [thread EXCEPT ![p] = "raised"] /\ UNCHANGED <<row, wire, posts>>
    BY <2>1 DEF TypeOK, RowInv, Handed, BeforePost
  <2>2. CASE /\ row[CandidateOf[p]] = "created"
             /\ row' = [row EXCEPT ![CandidateOf[p]] = "submitting"]
             /\ thread' = [thread EXCEPT ![p] = "waiting"]
             /\ UNCHANGED <<wire, posts>>
    <3>1. ASSUME NEW q \in Pipeline, thread[q] \in Handed
          PROVE  CandidateOf[q] # CandidateOf[p]
      BY <2>2, <3>1 DEF RowInv
    <3>2. /\ thread'[p] = "waiting" /\ row'[CandidateOf[p]] = "submitting"
          /\ \A q \in Pipeline \ {p} : thread'[q] = thread[q]
          /\ \A c \in Candidate \ {CandidateOf[p]} : row'[c] = row[c]
      BY <2>2 DEF TypeOK
    <3>3. wire[CandidateOf[p]] = "none"
      BY <2>2 DEF RowInv
    <3> QED BY <2>2, <3>1, <3>2, <3>3 DEF RowInv, Handed, Unresolved
  <2> QED BY <1>4, <2>1, <2>2 DEF SubmitStart, TakesHandoff, Goto
<1>5. ASSUME NEW p \in Pipeline, RawPost(p)
      PROVE  RowInv'
  <2>1. /\ thread[p] = "authorised" /\ thread'[p] = "sent" /\ UNCHANGED row
        /\ wire'[CandidateOf[p]] = "out" /\ posts' = posts \cup {p}
        /\ \A q \in Pipeline \ {p} : thread'[q] = thread[q]
        /\ \A c \in Candidate \ {CandidateOf[p]} : wire'[c] = wire[c]
    BY <1>5 DEF TypeOK, RawPost, Goto
  <2>2. thread[p] \in Handed /\ thread'[p] \in Handed /\ thread'[p] \notin BeforePost
    BY <2>1 DEF Handed, BeforePost
  <2>3. \A q \in Pipeline \ {p} : thread[q] \in Handed => CandidateOf[q] # CandidateOf[p]
    BY <2>2 DEF RowInv
  <2>4. row[CandidateOf[p]] = "submitting"
    BY <2>2 DEF RowInv
  <2>5. BeforePost \subseteq Handed /\ posts \subseteq Pipeline
    BY DEF Handed, TypeOK
  <2> QED BY <2>1, <2>2, <2>3, <2>4, <2>5 DEF RowInv, Unresolved
<1>6. ASSUME NEW p \in Pipeline, Record(p)
      PROVE  RowInv'
  <2>1. /\ thread[p] \in {"denied", "ambiguous", "confirmed"} /\ thread'[p] = "returned"
        /\ row'[CandidateOf[p]] = RowAfter[thread[p]] /\ UNCHANGED <<wire, posts>>
        /\ \A q \in Pipeline \ {p} : thread'[q] = thread[q]
        /\ \A c \in Candidate \ {CandidateOf[p]} : row'[c] = row[c]
    BY <1>6 DEF TypeOK, Record, RowAfter, Goto
  <2>2. thread[p] \in Handed /\ thread'[p] \notin Handed /\ BeforePost \subseteq Handed
    BY <2>1 DEF Handed, BeforePost
  <2>3. \A q \in Pipeline \ {p} : thread[q] \in Handed => CandidateOf[q] # CandidateOf[p]
    BY <2>2 DEF RowInv
  <2>4. /\ row'[CandidateOf[p]] \notin {"absent", "created"}
        /\ row'[CandidateOf[p]] \in Unresolved \/ wire[CandidateOf[p]] = "none"
    BY <2>1 DEF RowAfter, Unresolved, RowInv, BeforePost
  <2> QED BY <2>1, <2>2, <2>3, <2>4 DEF RowInv
<1>7. ASSUME NEW c \in Candidate, VenueAccepts(c) \/ VenueEnds(c)
      PROVE  RowInv'
  <2>1. /\ UNCHANGED <<thread, row, posts>> /\ wire[c] \in {"out", "live"}
        /\ wire'[c] \in {"live", "gone"}
        /\ \A d \in Candidate \ {c} : wire'[d] = wire[d]
    BY <1>7 DEF TypeOK, VenueAccepts, VenueEnds
  <2> QED BY <2>1 DEF RowInv, TypeOK
<1>8. ASSUME NEW c \in Candidate, Resolved(c)
      PROVE  RowInv'
  <2>1. /\ UNCHANGED <<thread, wire, posts>> /\ row[c] # "submitting" /\ wire[c] = "gone"
        /\ row'[c] = "closed" /\ \A d \in Candidate \ {c} : row'[d] = row[d]
    BY <1>8 DEF TypeOK, Resolved
  <2> QED BY <2>1 DEF RowInv
<1> QED BY <1>1, <1>2, <1>3, <1>4, <1>5, <1>6, <1>7, <1>8, OrderSteps

LEMMA PostsStep ==
  ASSUME TypeOK, CommitInv, RowInv, OnePostPerCandidate, [Next]_vars
  PROVE  OnePostPerCandidate'
<1>1. ASSUME NEW p \in Pipeline, RawPost(p), NEW q \in posts
      PROVE  CandidateOf[q] # CandidateOf[p]
  BY <1>1 DEF RawPost, RowInv, BeforePost
<1>2. (\E p \in Pipeline : RawPost(p)) \/ UNCHANGED posts
  BY OrderSteps DEF GoesOn, Launch, SubmitStart, Record, VenueAccepts, VenueEnds, Resolved,
     history
<1> QED BY <1>1, <1>2 DEF OnePostPerCandidate, RawPost

-----------------------------------------------------------------------------
(* What is at the venue *)

LEMMA ExposingSteps ==
  ASSUME TypeOK, CommitInv, [Next]_vars
  PROVE  \/ Exposing' \subseteq Exposing
         \/ \E p \in Pipeline : /\ RawPost(p)
                                /\ Exposing' = Exposing \cup {CandidateOf[p]}
<1> USE CandidateAssumption DEF ledger, history, order
<1>1. ASSUME NEW p \in Pipeline, RawPost(p)
      PROVE  Exposing' = Exposing \cup {CandidateOf[p]}
  BY <1>1 DEF RawPost, Exposing, TypeOK
<1>2. ASSUME NEW c \in Candidate, VenueAccepts(c) \/ VenueEnds(c)
      PROVE  Exposing' \subseteq Exposing
  BY <1>2 DEF VenueAccepts, VenueEnds, Exposing, TypeOK
<1>3. CASE UNCHANGED wire
  BY <1>3 DEF Exposing
<1> QED BY <1>1, <1>2, <1>3, OrderSteps DEF GoesOn, Launch, SubmitStart, Record, Resolved

\* A thread gets past the recount and past the seal only by these steps.
LEMMA SealSteps ==
  ASSUME TypeOK, CommitInv, [Next]_vars, NEW q \in Pipeline
  PROVE  /\ thread'[q] \in Sealed => thread[q] \in Sealed \/ EvidenceSealed(q)
         /\ thread'[q] \in Recounted => thread[q] \in Recounted \/ RecountOwners(q)
<1> USE DEF ledger, history, order, Sealed, Recounted
<1>1. CASE UNCHANGED vars \/ Outside
  BY <1>1 DEF Outside, VenueAccepts, VenueEnds, Resolved, Prune, Tick, vars
<1>2. ASSUME NEW p \in Pipeline, Commit(p)
      PROVE  thread'[q] = thread[q] \/ thread'[q] \in {"none", "queued"}
  BY <1>2 DEF TypeOK, Commit, EnterCommit, NotAdmitted, CountOwners, Admit, AdmitKept, Prepare,
     Launch, SignFails, Collect, Cancel
<1>3. ASSUME NEW p \in Pipeline, Submit(p), p # q
      PROVE  thread'[q] = thread[q]
  BY <1>3 DEF TypeOK, Submit, PickUp, SubmitStart, AcquireSlot, PermitSealed, RecountOwners,
     EvidenceSealed, Denied, EnterRawPost, RawPost, PostReturns, Record, Goto, Leave
<1>4. CASE Submit(q)
  <2>1. CASE PickUp(q) \/ SubmitStart(q) \/ AcquireSlot(q) \/ PermitSealed(q) \/ RecountOwners(q)
    BY <2>1 DEF TypeOK, PickUp, SubmitStart, AcquireSlot, PermitSealed, RecountOwners, Goto
  <2>2. CASE EvidenceSealed(q) \/ Denied(q) \/ EnterRawPost(q)
    BY <2>2 DEF TypeOK, EvidenceSealed, Denied, EnterRawPost, Goto, Leave
  <2>3. CASE RawPost(q) \/ PostReturns(q) \/ Record(q)
    BY <2>3 DEF TypeOK, RawPost, PostReturns, Record, RowAfter, Goto, Leave
  <2> QED BY <1>4, <2>1, <2>2, <2>3 DEF Submit
<1> QED BY <1>1, <1>2, <1>3, <1>4 DEF Next

\* An order that is out is owned by its row, which the seal reads.
LEMMA ExposingOwned ==
  ASSUME RowInv, NEW c \in Candidate
  PROVE  Exposing \ {c} \subseteq OthersThan(c)
  BY DEF RowInv, Exposing, OthersThan

LEMMA ExposingFinite == IsFiniteSet(Exposing)
  BY FiniteAssumption, FS_Subset DEF Exposing

\* No two threads are past the seal: they would both hold the slot.
LEMMA PostsAlone ==
  ASSUME SlotInv, NEW p \in Pipeline, RawPost(p), NEW q \in Pipeline, thread[q] \in Recounted
  PROVE  p = q
  BY DEF SlotInv, InSlot, Recounted, Sealed, RawPost

LEMMA TokenStep ==
  ASSUME TypeOK, CommitInv, SlotInv, RowInv, TokenInv, OneOrderPerToken, [Next]_vars
  PROVE  TokenInv' /\ OneOrderPerToken'
<1> USE CandidateAssumption
<1>1. ASSUME NEW p \in Pipeline, RawPost(p), Exposing' = Exposing \cup {CandidateOf[p]}
      PROVE  TokenInv' /\ OneOrderPerToken'
  <2>1. \A d \in Exposing \ {CandidateOf[p]} : TokenOf[d] # TokenOf[CandidateOf[p]]
    BY <1>1 DEF RawPost, TokenInv, Sealed
  <2>2. ASSUME NEW q \in Pipeline
        PROVE  thread'[q] \notin Sealed
    <3>1. CASE q = p
      BY <1>1, <3>1 DEF TypeOK, RawPost, Goto, Sealed
    <3>2. CASE q # p
      BY <1>1, <3>2, PostsAlone DEF TypeOK, RawPost, Goto, Recounted
    <3> QED BY <3>1, <3>2
  <2> QED BY <1>1, <2>1, <2>2 DEF TokenInv, OneOrderPerToken
<1>2. CASE Exposing' \subseteq Exposing
  <2>1. ASSUME NEW q \in Pipeline, EvidenceSealed(q), NEW d \in Exposing' \ {CandidateOf[q]}
        PROVE  TokenOf[d] # TokenOf[CandidateOf[q]]
    BY <1>2, <2>1, ExposingOwned DEF EvidenceSealed, TokenFreeFor
  <2>2. TokenInv'
    BY <1>2, <2>1, SealSteps DEF TokenInv
  <2> QED BY <1>2, <2>2 DEF OneOrderPerToken
<1> QED BY <1>1, <1>2, ExposingSteps

LEMMA PlaceStep ==
  ASSUME TypeOK, CommitInv, SlotInv, RowInv, PlaceInv, WithinLimit, [Next]_vars
  PROVE  PlaceInv' /\ WithinLimit'
<1> USE CandidateAssumption
<1>1. ASSUME NEW p \in Pipeline, RawPost(p), Exposing' = Exposing \cup {CandidateOf[p]}
      PROVE  PlaceInv' /\ WithinLimit'
  <2> DEFINE Rest == Exposing \ {CandidateOf[p]}
  <2>1. Cardinality(Rest) < MaxUnresolved
    BY <1>1 DEF RawPost, PlaceInv, Recounted, Sealed
  <2>2. IsFiniteSet(Rest)
    BY ExposingFinite, FS_Subset
  <2>3. Exposing' = Rest \cup {CandidateOf[p]} /\ CandidateOf[p] \notin Rest
    BY <1>1
  <2>4. Cardinality(Rest) \in Nat /\ Cardinality(Exposing') = Cardinality(Rest) + 1
    <3> HIDE DEF Rest
    <3> QED BY <2>2, <2>3, FS_AddElement, FS_CardinalityType
  <2>5. WithinLimit'
    BY <2>1, <2>4, NumberAssumption DEF WithinLimit
  <2>6. ASSUME NEW q \in Pipeline
        PROVE  thread'[q] \notin Recounted
    <3>1. CASE q = p
      BY <1>1, <3>1 DEF TypeOK, RawPost, Goto, Recounted, Sealed
    <3>2. CASE q # p
      BY <1>1, <3>2, PostsAlone DEF TypeOK, RawPost, Goto
    <3> QED BY <3>1, <3>2
  <2> QED BY <2>5, <2>6 DEF PlaceInv
<1>2. CASE Exposing' \subseteq Exposing
  <2>1. ASSUME NEW q \in Pipeline, thread'[q] \in Recounted
        PROVE  Cardinality(Exposing \ {CandidateOf[q]}) < MaxUnresolved
    <3>1. CASE thread[q] \in Recounted
      BY <3>1 DEF PlaceInv
    <3>2. CASE RecountOwners(q)
      <4>1. Cardinality(OthersThan(CandidateOf[q])) < MaxUnresolved
        BY <3>2 DEF RecountOwners, CapacityBeside
      <4>2. IsFiniteSet(OthersThan(CandidateOf[q]))
        BY FiniteAssumption, FS_Subset DEF OthersThan
      <4>3. Cardinality(Exposing \ {CandidateOf[q]}) <= Cardinality(OthersThan(CandidateOf[q]))
        BY <4>2, ExposingOwned, FS_Subset
      <4>4. /\ Cardinality(OthersThan(CandidateOf[q])) \in Nat
            /\ Cardinality(Exposing \ {CandidateOf[q]}) \in Nat
        BY <4>2, ExposingFinite, FS_Subset, FS_CardinalityType
      <4> QED BY <4>1, <4>3, <4>4, NumberAssumption
    <3> QED BY <2>1, <3>1, <3>2, SealSteps
  <2>2. ASSUME NEW q \in Pipeline, thread'[q] \in Recounted
        PROVE  Cardinality(Exposing' \ {CandidateOf[q]}) < MaxUnresolved
    <3> DEFINE Now == Exposing \ {CandidateOf[q]}
               Then == Exposing' \ {CandidateOf[q]}
    <3>1. Cardinality(Now) < MaxUnresolved
      BY <2>1, <2>2
    <3>2. IsFiniteSet(Now) /\ Then \subseteq Now
      BY <1>2, ExposingFinite, FS_Subset
    <3> HIDE DEF Now, Then
    <3>3. IsFiniteSet(Then) /\ Cardinality(Then) <= Cardinality(Now)
      BY <3>2, FS_Subset
    <3>4. Cardinality(Now) \in Nat /\ Cardinality(Then) \in Nat
      BY <3>2, <3>3, FS_CardinalityType
    <3>5. Cardinality(Then) < MaxUnresolved
      BY <3>1, <3>3, <3>4, NumberAssumption
    <3> QED BY <3>5 DEF Then
  <2>3. /\ IsFiniteSet(Exposing') /\ Cardinality(Exposing') <= Cardinality(Exposing)
    BY <1>2, ExposingFinite, FS_Subset
  <2>4. Cardinality(Exposing) \in Nat /\ Cardinality(Exposing') \in Nat
    BY <2>3, ExposingFinite, FS_CardinalityType
  <2> QED BY <2>2, <2>3, <2>4, NumberAssumption DEF PlaceInv, WithinLimit
<1> QED BY <1>1, <1>2, ExposingSteps

-----------------------------------------------------------------------------
(* Theorems *)

\* Everything but what the ledger remembers, which depends on Ttl and Keep.
IInv == /\ TypeOK /\ LedgerInv /\ CommitInv
        /\ AuthorityCommitted /\ AuthorisedInv
        /\ SlotInv /\ RowInv /\ OnePostPerCandidate
        /\ TokenInv /\ OneOrderPerToken
        /\ PlaceInv /\ WithinLimit

LEMMA InitInv ==
  ASSUME Init
  PROVE  IInv /\ SpentInv /\ ConsumedOnce
<1> USE NumberAssumption, CandidateAssumption, PipelineAssumption DEF Init
<1>1. IsFiniteSet({}) /\ Cardinality({}) = 0
  BY FS_EmptySet
<1>2. TypeOK /\ LedgerInv
  BY <1>1 DEF TypeOK, LedgerInv, Remembered, Time, PipeState, ThreadState, RowState
<1>3. CommitInv /\ AuthorityCommitted /\ AuthorisedInv
  BY DEF CommitInv, AuthorityCommitted, AuthorisedInv
<1>4. SlotInv /\ RowInv /\ OnePostPerCandidate
  BY DEF SlotInv, InSlot, RowInv, BeforePost, Handed, OnePostPerCandidate
<1>5. Exposing = {}
  BY DEF Exposing
<1>6. TokenInv /\ OneOrderPerToken /\ PlaceInv /\ WithinLimit
  BY <1>1, <1>5 DEF TokenInv, Sealed, OneOrderPerToken, PlaceInv, Recounted, WithinLimit
<1>7. SpentInv /\ ConsumedOnce
  BY DEF SpentInv, ConsumedOnce
<1> QED BY <1>2, <1>3, <1>4, <1>6, <1>7 DEF IInv

LEMMA StepInv ==
  ASSUME IInv, [Next]_vars
  PROVE  IInv'
<1> USE DEF IInv
<1>1. TypeOK' /\ LedgerInv' /\ CommitInv'
  BY TypeStep, LedgerStep, CommitStep
<1>2. AuthorityCommitted' /\ AuthorisedInv'
  BY AuthorityStep, AuthorisedStep
<1>3. SlotInv' /\ RowInv' /\ OnePostPerCandidate'
  BY SlotStep, RowStep, PostsStep
<1>4. TokenInv' /\ OneOrderPerToken' /\ PlaceInv' /\ WithinLimit'
  BY TokenStep, PlaceStep
<1> QED BY <1>1, <1>2, <1>3, <1>4

LEMMA Invariance == Spec => []IInv
<1>1. Init => IInv
  BY InitInv
<1>2. IInv /\ [Next]_vars => IInv'
  BY StepInv
<1> QED BY <1>1, <1>2, PTL DEF Spec

\* The ledger, its index and the rows keep their types, and the ledger its bound,
\* whatever registering (admission.py) evicts and pruning drops.
THEOREM PermitTyped == Spec => []TypeOK
<1>1. IInv => TypeOK
  BY DEF IInv
<1> QED BY <1>1, Invariance, PTL

\* However a pipeline leaves the commit section (engine.py), by a return, an error or
\* a cancellation, no permit that could still be used stays behind in the ledger.
THEOREM AuthorityCommittedHolds == Spec => []AuthorityCommitted
<1>1. IInv => AuthorityCommitted
  BY DEF IInv
<1> QED BY <1>1, Invariance, PTL

\* The transport (clob_transport.py) sends no raw POST whose observer has not consumed
\* the permit of that very pipeline before it expired.
THEOREM PostAuthorisedHolds == Spec => []PostAuthorised
<1>1. IInv => PostAuthorised
  BY DEF IInv, AuthorisedInv, PostAuthorised, TypeOK
<1> QED BY <1>1, Invariance, PTL

\* A permit is one-shot (AdmissionPermitLedger.consume) when pruning keeps consumed
\* permits for longer than any permit is valid; without that it is not.
THEOREM ConsumedOnceHolds ==
  ASSUME Ttl < Keep
  PROVE  Spec => []ConsumedOnce
<1> DEFINE Inv == IInv /\ SpentInv /\ ConsumedOnce
<1>1. Init => Inv
  BY InitInv
<1>2. Inv /\ [Next]_vars => Inv'
  BY StepInv, SpentStep DEF IInv
<1>3. Inv => ConsumedOnce
  OBVIOUS
<1> HIDE DEF Inv
<1> QED BY <1>1, <1>2, <1>3, PTL DEF Spec

\* The handoff of a lifecycle row (order_lifecycle.py) makes sure that a candidate
\* is posted once, however many pipelines commit it.
THEOREM OnePostPerCandidateHolds == Spec => []OnePostPerCandidate
<1>1. IInv => OnePostPerCandidate
  BY DEF IInv
<1> QED BY <1>1, Invariance, PTL

\* The seal under the transport slot (engine.py, clob_transport.py) keeps a second
\* order off a token, also when the commit lock has been given on.
THEOREM OneOrderPerTokenHolds == Spec => []OneOrderPerToken
<1>1. IInv => OneOrderPerToken
  BY DEF IInv
<1> QED BY <1>1, Invariance, PTL

\* The recount under the transport slot (risk/manager.py) keeps the orders at the
\* venue within the limit, for every limit and any number of candidates.
THEOREM WithinLimitHolds == Spec => []WithinLimit
<1>1. IInv => WithinLimit
  BY DEF IInv
<1> QED BY <1>1, Invariance, PTL

-----------------------------------------------------------------------------
(* The abstract specification *)

\* A pipeline holds a permit of its own candidate.
BoundInv == \A p \in Pipeline :
                pipe[p].permit # NoPermit => pipe[p].permit.cand = CandidateOf[p]

LEMMA BoundStep ==
  ASSUME TypeOK, BoundInv, [Next]_vars
  PROVE  BoundInv'
<1> USE DEF ledger, history, order
<1>1. ASSUME NEW p \in Pipeline, NEW d, d.cand = CandidateOf[p], Prepare(p, d)
      PROVE  BoundInv'
  BY <1>1 DEF TypeOK, PipeState, BoundInv, Prepare, LeaveCommit
<1>2. ASSUME NEW p \in Pipeline, Admit(p)
      PROVE  BoundInv'
  <2>1. PICK e \in now..(now + Ttl) :
            Prepare(p, [cand |-> CandidateOf[p], issued |-> now, expires |-> e])
    BY <1>2 DEF Admit
  <2> DEFINE d == [cand |-> CandidateOf[p], issued |-> now, expires |-> e]
  <2>2. d.cand = CandidateOf[p] /\ Prepare(p, d)
    BY <2>1
  <2> QED BY <2>2, <1>1
<1>3. ASSUME NEW p \in Pipeline, AdmitKept(p)
      PROVE  BoundInv'
  BY <1>1, <1>3 DEF AdmitKept
<1>4. ASSUME NEW p \in Pipeline, Commit(p), ~Admit(p), ~AdmitKept(p)
      PROVE  BoundInv'
  BY <1>4 DEF TypeOK, PipeState, BoundInv, Commit, EnterCommit, NotAdmitted, CountOwners, Launch,
     SignFails, Collect, Cancel, LeaveCommit
<1>5. ASSUME NEW p \in Pipeline, Submit(p)
      PROVE  BoundInv'
  BY <1>5 DEF BoundInv, Submit, PickUp, SubmitStart, AcquireSlot, PermitSealed, RecountOwners,
     EvidenceSealed, Denied, EnterRawPost, RawPost, PostReturns, Record
<1>6. CASE UNCHANGED vars \/ Outside
  BY <1>6 DEF BoundInv, Outside, VenueAccepts, VenueEnds, Resolved, Prune, Tick, vars
<1> QED BY <1>2, <1>3, <1>4, <1>5, <1>6 DEF Next

\* No thread gets into or out of the gap between the observer and the POST.
GapKept == \A q \in Pipeline : thread'[q] = "authorised" <=> thread[q] = "authorised"

\* Steps that nobody outside sees.
Hidden == UNCHANGED <<handoffs, wire>> /\ GapKept

LEMMA ClearedKept ==
  ASSUME GapKept
  PROVE  Cleared' = Cleared
  BY DEF Cleared, GapKept

LEMMA HiddenStep ==
  ASSUME Hidden
  PROVE  UNCHANGED Promised!vars
  BY ClearedKept DEF Hidden, Promised!vars

\* A consume, by the observer or by a retirement, is the first use of its permit.
LEMMA ConsumeSpends ==
  ASSUME TypeOK, SpentInv, NEW p \in Pipeline, NEW as \in {"post", "retired"},
         Consumable(pipe[p].permit), Consume(p, pipe[p].permit, as)
  PROVE  \E u \in Handoff : /\ u.as = as /\ u.permit = pipe[p].permit
                            /\ u \notin handoffs
                            /\ Promised!Spend(u)
<1> DEFINE u == [permit |-> pipe[p].permit, by |-> p, as |-> as, at |-> now]
<1>1. pipe[p].permit \in active /\ pipe[p].permit \in Permit
  BY DEF Consumable, TypeOK
<1>2. u \in Handoff /\ u.as = as /\ u.permit = pipe[p].permit
  BY <1>1 DEF Handoff, TypeOK
<1>3. \A v \in handoffs : v.permit # u.permit
  BY <1>1 DEF SpentInv
<1>4. handoffs' = handoffs \cup {u}
  BY DEF Consume
<1> HIDE DEF u
<1>5. Promised!Spend(u)
  BY <1>3, <1>4 DEF Promised!Spend
<1> QED BY <1>2, <1>3, <1>5

\* Retirement makes a permit void.
LEMMA RetireVoids ==
  ASSUME TypeOK, SpentInv, NEW p \in Pipeline, Retire(p), UNCHANGED wire, GapKept
  PROVE  Promised!Void \/ UNCHANGED Promised!vars
<1>1. CASE UNCHANGED <<ledger, handoffs>>
  BY <1>1, HiddenStep DEF Hidden
<1>2. CASE Consumable(pipe[p].permit) /\ Consume(p, pipe[p].permit, "retired")
  <2>1. PICK u \in Handoff : u.as = "retired" /\ u \notin handoffs /\ Promised!Spend(u)
    BY <1>2, ConsumeSpends
  <2>2. handoffs' # handoffs
    BY <2>1 DEF Promised!Spend
  <2> QED BY <2>1, <2>2, ClearedKept DEF Promised!Void
<1> QED BY <1>1, <1>2 DEF Retire

\* A thread in the gap has the slot and its row to itself.
LEMMA ClearedAlone ==
  ASSUME SlotInv, RowInv, NEW p \in Pipeline, thread[p] \in {"entering", "authorised"},
         NEW q \in Pipeline, thread[q] = "authorised"
  PROVE  p = q
  BY DEF SlotInv, InSlot

\* The observer clears its candidate for the POST.
LEMMA EnterClears ==
  ASSUME TypeOK, SpentInv, SlotInv, RowInv, BoundInv,
         NEW p \in Pipeline, EnterRawPost(p)
  PROVE  Promised!Clear(CandidateOf[p]) \/ UNCHANGED Promised!vars
<1> USE CandidateAssumption
<1> DEFINE c == CandidateOf[p]
<1>1. CASE ~Consumable(pipe[p].permit)
  <2>1. Hidden
    BY <1>1 DEF EnterRawPost, Leave, Goto, ledger, order, TypeOK, Hidden, GapKept
  <2> QED BY <2>1, HiddenStep
<1>2. CASE Consumable(pipe[p].permit)
  <2>1. thread[p] = "entering" /\ thread' = [thread EXCEPT ![p] = "authorised"]
    BY <1>2 DEF EnterRawPost, Goto
  <2>2. Cleared = {}
    BY <2>1, ClearedAlone DEF Cleared
  <2>3. wire[c] = "none" /\ UNCHANGED wire
    BY <2>1 DEF RowInv, BeforePost, EnterRawPost, order
  <2>4. Cleared' = {c}
    <3>1. \A q \in Pipeline : thread'[q] = "authorised" <=> q = p
      BY <2>1, ClearedAlone DEF TypeOK
    <3> QED BY <3>1 DEF Cleared
  <2>5. PICK u \in Handoff : u.as = "post" /\ u.permit = pipe[p].permit /\ Promised!Spend(u)
    BY <1>2, ConsumeSpends DEF EnterRawPost
  <2>6. pipe[p].permit.cand = c
    BY <1>2, PermitAssumption DEF BoundInv, Consumable, TypeOK
  <2> QED BY <2>2, <2>3, <2>4, <2>5, <2>6 DEF Promised!Clear
<1> QED BY <1>1, <1>2

\* The raw POST sends the order of a cleared candidate, within the limits.
LEMMA RawPostPosts ==
  ASSUME TypeOK, SlotInv, RowInv, TokenInv, PlaceInv, NEW p \in Pipeline, RawPost(p)
  PROVE  Promised!Post(CandidateOf[p])
<1> USE CandidateAssumption
<1> DEFINE c == CandidateOf[p]
<1>1. thread[p] = "authorised" /\ thread' = [thread EXCEPT ![p] = "sent"]
  BY DEF RawPost, Goto
<1>2. Cleared = {c}
  BY <1>1, ClearedAlone DEF Cleared
<1>3. Cleared' = {}
  <2>1. \A q \in Pipeline : thread'[q] # "authorised"
    BY <1>1, ClearedAlone DEF TypeOK
  <2> QED BY <2>1 DEF Cleared
<1>4. wire[c] = "none"
  BY <1>1 DEF RowInv, BeforePost
<1>5. Promised!Exposing = Exposing /\ Exposing \ {c} = Exposing
  BY <1>4 DEF Promised!Exposing, Exposing
<1>6. (\A d \in Exposing : TokenOf[d] # TokenOf[c]) /\ Cardinality(Exposing) < MaxUnresolved
  BY <1>1, <1>5 DEF TokenInv, PlaceInv, Recounted, Sealed
<1>7. wire' = [wire EXCEPT ![c] = "out"] /\ UNCHANGED handoffs
  BY DEF RawPost, history
\* The instance has a Cardinality of its own, with the same definition.
<1>8. Promised!Cardinality(Exposing) = Cardinality(Exposing)
  BY DEF Promised!Cardinality, Cardinality
<1> QED BY <1>2, <1>3, <1>4, <1>5, <1>6, <1>7, <1>8 DEF Promised!Post

\* Every other step of a pipeline or its thread is hidden, or retires a permit.
LEMMA HiddenSteps ==
  ASSUME TypeOK, CommitInv, SpentInv, NEW p \in Pipeline,
         Commit(p) \/ Submit(p), ~EnterRawPost(p), ~RawPost(p)
  PROVE  Promised!Void \/ UNCHANGED Promised!vars
<1> USE DEF ledger, history, order
<1>1. CASE SignFails(p) \/ Collect(p) \/ Cancel(p)
  <2>1. Retire(p) /\ UNCHANGED wire
    BY <1>1 DEF SignFails, Collect, Cancel
  <2>2. GapKept
    BY <1>1 DEF SignFails, Collect, Cancel, GapKept, TypeOK
  <2> QED BY <2>1, <2>2, RetireVoids
<1>2. CASE EnterCommit(p) \/ NotAdmitted(p) \/ CountOwners(p) \/ Admit(p) \/ AdmitKept(p)
  BY <1>2, HiddenStep DEF EnterCommit, NotAdmitted, CountOwners, Admit, AdmitKept, Prepare,
     Hidden, GapKept
<1>3. CASE Launch(p)
  <2>1. thread[p] = "none"
    BY <1>3 DEF Launch, CommitInv
  <2> QED BY <1>3, <2>1, HiddenStep DEF Launch, Hidden, GapKept, TypeOK
<1>4. CASE Submit(p)
  <2>1. UNCHANGED <<handoffs, wire>>
    BY <1>4 DEF Submit, PickUp, SubmitStart, AcquireSlot, PermitSealed, RecountOwners,
       EvidenceSealed, Denied, PostReturns, Record
  <2>2. GapKept
    BY <1>4 DEF Submit, PickUp, SubmitStart, AcquireSlot, PermitSealed, RecountOwners,
       EvidenceSealed, Denied, PostReturns, Record, RowAfter, Goto, Leave, GapKept, TypeOK
  <2> QED BY <2>1, <2>2, HiddenStep DEF Hidden
<1> QED BY <1>1, <1>2, <1>3, <1>4 DEF Commit

Inv == IInv /\ SpentInv /\ ConsumedOnce /\ BoundInv

\* Every step is one of the abstract specification, or is not seen there.
LEMMA StepsAsPromised ==
  ASSUME Inv, [Next]_vars
  PROVE  [Promised!Next]_Promised!vars
<1> USE CandidateAssumption DEF Inv, IInv
<1>1. ASSUME NEW p \in Pipeline, Commit(p) \/ Submit(p)
      PROVE  [Promised!Next]_Promised!vars
  <2>1. CASE EnterRawPost(p)
    BY <2>1, EnterClears DEF Promised!Next
  <2>2. CASE RawPost(p)
    BY <2>2, RawPostPosts DEF Promised!Next
  <2>3. CASE ~EnterRawPost(p) /\ ~RawPost(p)
    BY <1>1, <2>3, HiddenSteps DEF Promised!Next
  <2> QED BY <2>1, <2>2, <2>3
<1>2. ASSUME NEW c \in Candidate, VenueAccepts(c) \/ VenueEnds(c)
      PROVE  [Promised!Next]_Promised!vars
  <2>1. GapKept /\ UNCHANGED handoffs
    BY <1>2 DEF VenueAccepts, VenueEnds, GapKept, history
  <2>2. Promised!Accept(c) \/ Promised!End(c)
    BY <1>2, <2>1, ClearedKept DEF VenueAccepts, VenueEnds, Promised!Accept, Promised!End
  <2> QED BY <2>2 DEF Promised!Next
<1>3. CASE UNCHANGED vars \/ Prune \/ Tick \/ \E c \in Candidate : Resolved(c)
  <2>1. Hidden
    BY <1>3 DEF vars, Prune, Tick, Resolved, Hidden, GapKept, history, order
  <2> QED BY <2>1, HiddenStep
<1> QED BY <1>1, <1>2, <1>3 DEF Next, Outside

LEMMA InitAsPromised ==
  ASSUME Init
  PROVE  Promised!Init
  BY DEF Init, Promised!Init, Cleared

LEMMA InvInductive ==
  ASSUME Ttl < Keep
  PROVE  Spec => []Inv
<1>1. Init => Inv
  BY InitInv DEF Inv, BoundInv, Init
<1>2. Inv /\ [Next]_vars => Inv'
  BY StepInv, SpentStep, BoundStep DEF Inv, IInv
<1> QED BY <1>1, <1>2, PTL DEF Spec

\* Commit section, ledger, lifecycle rows and transport together (engine.py,
\* admission.py, order_lifecycle.py, clob_transport.py) implement Submission, when
\* pruning keeps consumed permits for longer than any permit is valid.
THEOREM SubmissionImplemented ==
  ASSUME Ttl < Keep
  PROVE  Spec => SubmitsAsPromised
<1>1. Init => Promised!Init
  BY InitAsPromised
<1>2. Inv /\ [Next]_vars => [Promised!Next]_Promised!vars
  BY StepsAsPromised
<1>3. Spec => []Inv
  BY InvInductive
<1> QED BY <1>1, <1>2, <1>3, PTL DEF Spec, SubmitsAsPromised, Promised!Spec

=============================================================================
