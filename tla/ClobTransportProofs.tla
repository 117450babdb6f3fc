------------------------- MODULE ClobTransportProofs -------------------------
(***************************************************************************)
(* Theorems about the transport, for every set of callers and orders, every *)
(* policy of attempts and every role of the callers: types with one caller *)
(* in the slot (TypeCorrect) and, where the table of generations never has *)
(* to evict, no LIVE answer after a cancel (NotLiveAfterCancelHolds).      *)
(*                                                                         *)
(* Every step gives one call a new record (OneCall) and leaves the others. *)
(***************************************************************************)
EXTENDS ClobTransport, FiniteSetTheorems, TLAPS

-----------------------------------------------------------------------------
(* The calls: who is in the slot, who holds a key lock *)

\* The record of a single call.
Shaped(e) ==
    /\ e \in Call
    /\ e.pc = "idle" <=> e.method = "none"
    /\ e.method \in {"get_order", "cancel_order"} => e.key \in Order
    /\ e.pc \in {"locking", "looking", "got"} => e.method = "get_order"
    /\ e.pc \in {"done", "failed"} => e.method \in Write

\* The parts of TypeOK and CallShape about calls, slot and key locks.
CallsTyped ==
    /\ call \in [Caller -> Call]
    /\ \A c \in Caller : Shaped(call[c])
    /\ slot \in Caller \cup {NoCaller}
    /\ \A c \in Caller : At(c, "calling") <=> slot = c
    /\ holder \in [Order -> Caller \cup {NoCaller}]
    /\ \A k \in Order : holder[k] # NoCaller =>
           /\ call[holder[k]].key = k /\ call[holder[k]].pc \notin {"idle", "locking"}
           /\ call[holder[k]].method = "get_order"

\* The parts of TypeOK about everything else.
BookTyped ==
    /\ gens \in [Order -> Nat]
    /\ cache \in [Order -> Record \cup {NoRecord}]
RestTyped ==
    /\ starved \subseteq Caller /\ rested \in BOOLEAN
    /\ venue \in [Order -> Status]
    /\ closed \subseteq Order
    /\ told \in [Caller -> [status : Status \cup {"none", "unknown"}, late : BOOLEAN]]

Typed == CallsTyped /\ BookTyped /\ RestTyped

LEMMA TypedParts == Typed <=> TypeOK /\ CallShape
<1>1. Typed => TypeOK /\ CallShape
  BY DEF Typed, CallsTyped, Shaped, BookTyped, RestTyped, TypeOK, CallShape, At, Doing
<1>2. TypeOK /\ CallShape => Typed
  <2> SUFFICES ASSUME TypeOK, CallShape PROVE Typed
    OBVIOUS
  <2>1. \A c \in Caller : Shaped(call[c])
    BY DEF Shaped, TypeOK, CallShape, At, Doing
  <2>. QED BY <2>1 DEF Typed, CallsTyped, BookTyped, RestTyped, TypeOK, CallShape, At, Doing
<1>. QED BY <1>1, <1>2

\* The record e of c: in the slot iff it is calling, and holding only its own key.
LEMMA OneCall ==
    ASSUME CallsTyped, NEW c \in Caller, NEW e, Shaped(e), call' = [call EXCEPT ![c] = e],
           slot' \in Caller \cup {NoCaller}, e.pc = "calling" <=> slot' = c,
           \A d \in Caller \ {c} : slot' = d <=> slot = d,
           holder' \in [Order -> Caller \cup {NoCaller}],
           \A k \in Order : \/ holder'[k] = NoCaller
                            \/ holder'[k] = holder[k] /\ holder[k] # c
                            \/ /\ holder'[k] = c /\ e.method = "get_order"
                               /\ e.key = k /\ e.pc \notin {"idle", "locking"}
    PROVE  CallsTyped'
<1>1. call'[c] = e /\ \A d \in Caller \ {c} : call'[d] = call[d]
  BY DEF CallsTyped
<1>2. call' \in [Caller -> Call] /\ \A d \in Caller : Shaped(call'[d])
  BY <1>1 DEF CallsTyped, Shaped
<1>3. \A d \in Caller : At(d, "calling")' <=> slot' = d
  BY <1>1 DEF CallsTyped, At
<1>4. ASSUME NEW k \in Order, holder'[k] # NoCaller
      PROVE  /\ call'[holder'[k]].key = k /\ call'[holder'[k]].pc \notin {"idle", "locking"}
             /\ call'[holder'[k]].method = "get_order"
  BY <1>1, <1>4 DEF CallsTyped
<1>5. (\A d \in Caller : Shaped(call[d]))'
  BY <1>2 DEF Shaped
<1>6. holder' \in [Order -> Caller \cup {NoCaller}] /\ slot' \in Caller \cup {NoCaller}
  OBVIOUS
<1>. QED BY <1>2, <1>3, <1>4, <1>5, <1>6 DEF CallsTyped

\* Most steps leave the slot and the key locks alone, or give the slot back.
LEMMA QuietCall ==
    ASSUME CallsTyped, NEW c \in Caller, NEW e, Shaped(e), call' = [call EXCEPT ![c] = e],
           holder' = holder,
           \/ slot' = slot /\ e.pc # "calling" /\ ~At(c, "calling")
           \/ slot' = NoCaller /\ At(c, "calling") /\ e.pc # "calling"
           \/ slot' = c /\ slot = NoCaller /\ e.pc = "calling",
           \/ \A k \in Order : holder[k] # c
           \/ /\ e.method = call[c].method /\ e.key = call[c].key
              /\ e.pc \notin {"idle", "locking"}
    PROVE  CallsTyped'
<1>1. NoCaller \notin Caller
  BY TransportAssumption
<1>2. slot' \in Caller \cup {NoCaller} /\ (e.pc = "calling" <=> slot' = c)
  BY <1>1 DEF CallsTyped
<1>3. \A d \in Caller \ {c} : slot' = d <=> slot = d
  BY <1>1 DEF CallsTyped
<1>4. holder' \in [Order -> Caller \cup {NoCaller}]
  BY DEF CallsTyped
<1>5. \A k \in Order : \/ holder'[k] = NoCaller
                       \/ holder'[k] = holder[k] /\ holder[k] # c
                       \/ /\ holder'[k] = c /\ e.method = "get_order"
                          /\ e.key = k /\ e.pc \notin {"idle", "locking"}
  BY <1>1 DEF CallsTyped
<1>. QED BY <1>2, <1>3, <1>4, <1>5, OneCall

LEMMA NoCallTyped == Shaped(NoCall) /\ NoCall.pc = "idle" /\ NoCall.gen = 0
<1>1. 0 \in 0..2 /\ 0 \in Nat
  OBVIOUS
<1>2. NoCall \in Call
  BY <1>1 DEF NoCall, Call, Method, Status
<1>3. /\ NoCall.method = "none" /\ NoCall.pc = "idle" /\ NoCall.gen = 0
  BY DEF NoCall
<1>. QED BY <1>2, <1>3 DEF Shaped

\* A call that is over, with its key lock given back.
LEMMA EndedRead ==
    ASSUME CallsTyped, NEW c \in Caller, EndRead(c), call[c].key \in Order,
           \/ slot' = slot /\ ~At(c, "calling")
           \/ slot' = NoCaller /\ At(c, "calling")
    PROVE  CallsTyped'
<1>1. Shaped(NoCall) /\ NoCall.pc = "idle"
  BY NoCallTyped
<1>2. NoCaller \notin Caller
  BY TransportAssumption
<1>3. /\ call' = [call EXCEPT ![c] = NoCall]
      /\ holder' = [holder EXCEPT ![call[c].key] = NoCaller]
  BY DEF EndRead
<1>4. holder' \in [Order -> Caller \cup {NoCaller}]
  BY <1>3 DEF CallsTyped
<1>5. \A k \in Order : holder'[k] = NoCaller \/ (holder'[k] = holder[k] /\ holder[k] # c)
  BY <1>2, <1>3 DEF CallsTyped
<1>6. slot' \in Caller \cup {NoCaller} /\ ~(slot' = c)
      /\ \A d \in Caller \ {c} : slot' = d <=> slot = d
  BY <1>2 DEF CallsTyped
<1>. QED BY <1>1, <1>3, <1>4, <1>5, <1>6, OneCall

-----------------------------------------------------------------------------
(* The steps of a read *)

LEMMA BeginReadTyped ==
    ASSUME Typed, NEW c \in Caller, BeginRead(c)
    PROVE  Typed'
<1>1. PICK o \in Order : call' = [call EXCEPT ![c] = [NoCall EXCEPT !.method = "get_order",
                                                       !.key = o, !.pc = "locking"]]
  BY DEF BeginRead
<1> DEFINE e == [NoCall EXCEPT !.method = "get_order", !.key = o, !.pc = "locking"]
<1>2. Shaped(e) /\ e.pc = "locking"
  <2>1. NoCall \in Call
    BY NoCallTyped DEF Shaped
  <2>2. e \in Call /\ e.method = "get_order" /\ e.key = o /\ e.pc = "locking"
    BY <2>1 DEF Call, Method
  <2> HIDE DEF e
  <2>. QED BY <2>2 DEF Shaped
<1>3. At(c, "idle") /\ UNCHANGED <<slot, holder>>
  BY DEF BeginRead
<1>4. ~At(c, "calling") /\ \A k \in Order : holder[k] # c
  BY <1>3, TransportAssumption DEF Typed, CallsTyped, At
<1> HIDE DEF e
<1>5. CallsTyped'
  BY <1>1, <1>2, <1>3, <1>4, QuietCall DEF Typed, e
<1>6. Silence \in [status : Status \cup {"none", "unknown"}, late : BOOLEAN]
  BY DEF Silence
<1>7. BookTyped' /\ RestTyped'
  BY <1>6 DEF BeginRead, Typed, BookTyped, RestTyped, waiting, book
<1>. QED BY <1>5, <1>7 DEF Typed

LEMMA LockKeyTyped ==
    ASSUME Typed, NEW c \in Caller, LockKey(c)
    PROVE  Typed'
<1> DEFINE e == [call[c] EXCEPT !.pc = "looking", !.round = 1]
<1>1. call[c] \in Call /\ Shaped(call[c]) /\ At(c, "locking")
  BY DEF LockKey, Typed, CallsTyped
<1>2. Shaped(e) /\ e.pc = "looking" /\ e.method = "get_order" /\ e.key = call[c].key
      /\ call[c].key \in Order
  <2>1. 1 \in 0..2 /\ call[c].method = "get_order" /\ call[c].key \in Order
    BY <1>1 DEF Shaped, At
  <2>2. e \in Call
    BY <1>1, <2>1 DEF Call
  <2>3. e.pc = "looking" /\ e.method = "get_order" /\ e.key = call[c].key
    BY <1>1, <2>1 DEF Call
  <2> HIDE DEF e
  <2>. QED BY <2>1, <2>2, <2>3 DEF Shaped
<1>3. /\ call' = [call EXCEPT ![c] = e] /\ slot' = slot
      /\ holder' = [holder EXCEPT ![call[c].key] = c]
  BY DEF LockKey
<1> HIDE DEF e
<1>4. /\ slot' \in Caller \cup {NoCaller} /\ slot' # c
      /\ holder' \in [Order -> Caller \cup {NoCaller}]
      /\ \A k \in Order : holder'[k] = holder[k] \/ (holder'[k] = c /\ k = call[c].key)
  BY <1>1, <1>3 DEF Typed, CallsTyped, At
<1>5. \A k \in Order : holder[k] # c
  BY <1>1, TransportAssumption DEF Typed, CallsTyped, At
<1>6. CallsTyped'
  BY <1>2, <1>3, <1>4, <1>5, OneCall DEF Typed
<1>7. BookTyped' /\ RestTyped'
  BY DEF LockKey, Typed, BookTyped, RestTyped, waiting, book
<1>. QED BY <1>6, <1>7 DEF Typed

\* An answer to the caller, or an error, ends the read.
LEMMA AnswerTyped ==
    ASSUME Typed, NEW c \in Caller, NEW st \in Status \cup {"unknown"}, Answer(c, st),
           ~At(c, "calling"), call[c].key \in Order, BookTyped',
           UNCHANGED <<slot, starved, rested, venue, closed>>
    PROVE  Typed'
<1>1. CallsTyped'
  BY EndedRead DEF Typed, Answer
<1>2. RestTyped'
  BY DEF Answer, Typed, RestTyped
<1>. QED BY <1>1, <1>2 DEF Typed

LEMMA LookTyped ==
    ASSUME Typed, NEW c \in Caller,
           CacheHit(c) \/ CacheMiss(c) \/ KeepStatus(c) \/ DiscardStatus(c)
    PROVE  Typed'
<1>1. /\ call[c] \in Call /\ Shaped(call[c]) /\ call[c].pc \in {"looking", "got"}
      /\ ~At(c, "calling")
  BY DEF CacheHit, CacheMiss, KeepStatus, DiscardStatus, Typed, CallsTyped, At
<1>2. call[c].method = "get_order" /\ call[c].key \in Order /\ call[c].gen \in Nat
      /\ call[c].seen \in Status
  BY <1>1 DEF Shaped, Call
<1>3. /\ UNCHANGED <<slot, starved, rested, venue, closed>>
      /\ BookTyped
  BY DEF CacheHit, CacheMiss, KeepStatus, DiscardStatus, waiting, Typed
<1>4. CASE CacheHit(c)
  <2>1. /\ cache[call[c].key] \in Record /\ Answer(c, cache[call[c].key].status)
        /\ BookTyped'
    BY <1>2, <1>3, <1>4 DEF CacheHit, Servable, BookTyped, book
  <2>2. cache[call[c].key].status \in Status
    BY <2>1 DEF Record
  <2>. QED BY <1>1, <1>2, <1>3, <2>1, <2>2, AnswerTyped
<1>5. CASE CacheMiss(c)
  <2> DEFINE e == [call[c] EXCEPT !.pc = "queued", !.gen = gens[call[c].key], !.tries = 0]
  <2>1. gens[call[c].key] \in Nat
    BY <1>2, <1>3 DEF BookTyped
  <2>2. Shaped(e) /\ e.method = call[c].method /\ e.key = call[c].key /\ e.pc = "queued"
    BY <1>1, <1>2, <2>1 DEF Shaped, Call
  <2>3. call' = [call EXCEPT ![c] = e] /\ holder' = holder
    BY <1>5 DEF CacheMiss
  <2> HIDE DEF e
  <2>4. CallsTyped'
    BY <1>1, <1>3, <2>2, <2>3, QuietCall DEF Typed
  <2>. QED BY <1>5, <2>4 DEF CacheMiss, Typed, BookTyped, RestTyped, waiting, book
<1>6. CASE KeepStatus(c)
  <2>1. [gen |-> call[c].gen, status |-> call[c].seen] \in Record
    BY <1>2 DEF Record
  <2>2. BookTyped' /\ Answer(c, call[c].seen)
    BY <1>3, <1>6, <2>1 DEF KeepStatus, BookTyped
  <2>. QED BY <1>1, <1>2, <1>3, <2>2, AnswerTyped
<1>7. CASE DiscardStatus(c)
  <2>1. BookTyped'
    BY <1>3, <1>7 DEF DiscardStatus, BookTyped, book
  <2>2. CASE Answer(c, "unknown")
    BY <1>1, <1>2, <1>3, <2>1, <2>2, AnswerTyped
  <2>3. CASE /\ call[c].round < 2 /\ UNCHANGED <<holder, told>>
             /\ call' = [call EXCEPT ![c].pc = "looking", ![c].round = @ + 1]
    <3> DEFINE e == [call[c] EXCEPT !.pc = "looking", !.round = @ + 1]
    <3>1. Shaped(e) /\ e.method = call[c].method /\ e.key = call[c].key /\ e.pc = "looking"
      <4>1. call[c].round \in 0..2 /\ call[c].round + 1 \in 0..2
        <5>1. call[c].round \in 0..2
          BY <1>1 DEF Call
        <5>. QED BY <2>3, <5>1
      <4>2. e \in Call
        BY <1>1, <4>1 DEF Call
      <4>3. e.method = call[c].method /\ e.key = call[c].key /\ e.pc = "looking"
        BY <1>1 DEF Call
      <4> HIDE DEF e
      <4>. QED BY <1>2, <4>2, <4>3 DEF Shaped
    <3>2. call' = [call EXCEPT ![c] = e] /\ holder' = holder
      BY <2>3
    <3> HIDE DEF e
    <3>3. CallsTyped'
      BY <1>1, <1>3, <3>1, <3>2, QuietCall DEF Typed
    <3>. QED BY <1>3, <2>1, <2>3, <3>3 DEF Typed, RestTyped
  <2>. QED BY <1>7, <2>2, <2>3 DEF DiscardStatus
<1>. QED BY <1>4, <1>5, <1>6, <1>7
LEMMA ReadCallTyped ==
    ASSUME Typed, NEW c \in Caller, ReadCall(c)
    PROVE  Typed'
<1> DEFINE e == [call[c] EXCEPT !.pc = "got", !.seen = venue[call[c].key]]
<1>1. call[c] \in Call /\ Shaped(call[c]) /\ At(c, "calling") /\ call[c].method \notin Write
  BY DEF ReadCall, Typed, CallsTyped, Doing
<1>2. call[c].method = "get_order" /\ call[c].key \in Order
  BY <1>1 DEF Shaped, Call, Method, Write, At
<1>3. venue[call[c].key] \in Status
  BY <1>2 DEF Typed, RestTyped
<1>4. Shaped(e) /\ e.method = call[c].method /\ e.key = call[c].key /\ e.pc = "got"
  <2>1. e \in Call /\ e.method = call[c].method /\ e.key = call[c].key /\ e.pc = "got"
    BY <1>1, <1>3 DEF Call
  <2> HIDE DEF e
  <2>. QED BY <1>2, <2>1 DEF Shaped
<1>5. call' = [call EXCEPT ![c] = e] /\ holder' = holder /\ slot' = NoCaller
  BY DEF ReadCall
<1> HIDE DEF e
<1>6. CallsTyped'
  BY <1>1, <1>4, <1>5, QuietCall DEF Typed
<1>7. BookTyped' /\ RestTyped'
  BY DEF ReadCall, Typed, BookTyped, RestTyped, waiting, book
<1>. QED BY <1>6, <1>7 DEF Typed

-----------------------------------------------------------------------------
(* The steps of a write *)

LEMMA EvictableKeeps ==
    ASSUME BookTyped, NEW o \in Order, Bump(o)
    PROVE  BookTyped'
<1>1. PICK S : gens' = [k \in Order |-> IF k = o THEN gens[o] + 1 ELSE IF k \in S THEN 0 ELSE gens[k]]
  BY DEF Bump
<1>2. gens' \in [Order -> Nat]
  BY <1>1 DEF BookTyped
<1>3. cache' \in [Order -> Record \cup {NoRecord}]
  BY DEF Bump, BookTyped
<1>. QED BY <1>2, <1>3 DEF BookTyped

\* A call that only moves: method and key stay.
LEMMA MovedCall ==
    ASSUME CallsTyped, NEW c \in Caller, NEW e, NEW n \in Nat,
           NEW pc \in {"queued", "asleep", "calling", "done", "failed"},
           e = [call[c] EXCEPT !.pc = pc, !.tries = n],
           pc \in {"done", "failed"} => Doing(c, Write), ~At(c, "idle")
    PROVE  Shaped(e) /\ e.pc = pc /\ e.method = call[c].method /\ e.key = call[c].key
<1>1. call[c] \in Call /\ Shaped(call[c])
  BY DEF CallsTyped
<1>2. e \in Call /\ e.pc = pc /\ e.method = call[c].method /\ e.key = call[c].key
  BY <1>1 DEF Call
<1>3. pc # "idle" /\ call[c].method # "none"
  BY <1>1 DEF Shaped, At
<1>. QED BY <1>1, <1>2, <1>3 DEF Shaped, Doing

LEMMA SlotTyped ==
    ASSUME Typed, NEW c \in Caller, Acquire(c) \/ Retry(c)
    PROVE  Typed'
<1>1. /\ call[c] \in Call /\ call[c].tries \in Nat /\ call[c].tries + 1 \in Nat
      /\ CallsTyped
  BY DEF Typed, CallsTyped, Call
<1>2. CASE Acquire(c)
  <2> DEFINE e == [call[c] EXCEPT !.pc = "calling", !.tries = call[c].tries + 1]
  <2>1. call' = [call EXCEPT ![c] = e] /\ holder' = holder /\ slot = NoCaller /\ slot' = c
    BY <1>2 DEF Acquire
  <2>2. ~At(c, "idle") /\ e = [call[c] EXCEPT !.pc = "calling", !.tries = call[c].tries + 1]
    BY <1>2 DEF Acquire, At
  <2> HIDE DEF e
  <2>3. Shaped(e) /\ e.pc = "calling" /\ e.method = call[c].method /\ e.key = call[c].key
    BY <1>1, <2>2, MovedCall
  <2>4. CallsTyped'
    BY <1>1, <2>1, <2>3, QuietCall
  <2>5. RestTyped'
    BY <1>2 DEF Acquire, Typed, RestTyped
  <2>6. BookTyped'
    BY <1>2 DEF Acquire, Typed, BookTyped, book
  <2>. QED BY <2>4, <2>5, <2>6 DEF Typed
<1>3. CASE Retry(c)
  <2> DEFINE e == [call[c] EXCEPT !.pc = "queued"]
  <2>1. /\ call' = [call EXCEPT ![c] = e] /\ holder' = holder /\ slot' = slot
        /\ ~At(c, "calling") /\ ~At(c, "idle")
    BY <1>3 DEF Retry, Goto, At
  <2>2. e = [call[c] EXCEPT !.pc = "queued", !.tries = call[c].tries]
    BY <1>1 DEF Call
  <2> HIDE DEF e
  <2>3. Shaped(e) /\ e.pc = "queued" /\ e.method = call[c].method /\ e.key = call[c].key
    BY <1>1, <2>1, <2>2, MovedCall
  <2>4. CallsTyped'
    BY <1>1, <2>1, <2>3, QuietCall
  <2>. QED BY <1>3, <2>4 DEF Retry, Typed, BookTyped, RestTyped, waiting, book
<1>. QED BY <1>2, <1>3

LEMMA BeginWriteTyped ==
    ASSUME Typed, NEW c \in Caller, NEW m \in Write, NEW k \in Order \cup {NoKey},
           m = "cancel_order" => k \in Order, BeginWrite(c, m, k), BookTyped'
    PROVE  Typed'
<1> DEFINE e == [NoCall EXCEPT !.method = m, !.key = k, !.pc = "queued"]
<1>1. Shaped(e) /\ e.pc = "queued"
  <2>1. NoCall \in Call
    BY NoCallTyped DEF Shaped
  <2>2. e \in Call /\ e.method = m /\ e.key = k /\ e.pc = "queued"
    BY <2>1 DEF Call, Method, Write
  <2> HIDE DEF e
  <2>. QED BY <2>2 DEF Shaped, Write
<1>2. call' = [call EXCEPT ![c] = e] /\ At(c, "idle") /\ UNCHANGED <<slot, holder>>
  BY DEF BeginWrite
<1>3. ~At(c, "calling") /\ \A o \in Order : holder[o] # c
  BY <1>2, TransportAssumption DEF Typed, CallsTyped, At
<1> HIDE DEF e
<1>4. CallsTyped'
  BY <1>1, <1>2, <1>3, QuietCall DEF Typed
<1>5. Silence \in [status : Status \cup {"none", "unknown"}, late : BOOLEAN]
  BY DEF Silence
<1>6. RestTyped'
  BY <1>5 DEF BeginWrite, Typed, RestTyped, waiting
<1>. QED BY <1>4, <1>6 DEF Typed

\* The call is made, or raises: the slot is free again.
LEMMA CallTyped ==
    ASSUME Typed, NEW c \in Caller, CancelCall(c) \/ PostCall(c) \/ CallFails(c)
    PROVE  Typed'
<1>0. /\ At(c, "calling") /\ slot' = NoCaller /\ Shaped(call[c]) /\ call[c] \in Call
      /\ call[c].tries \in Nat
      /\ UNCHANGED <<waiting, book, closed>>
  BY DEF CancelCall, PostCall, CallFails, Typed, CallsTyped, Call
<1>1. ASSUME NEW pc \in {"asleep", "done", "failed"}, pc \in {"done", "failed"} => Doing(c, Write),
             Goto(c, pc), holder' = holder
      PROVE  CallsTyped'
  <2> DEFINE e == [call[c] EXCEPT !.pc = pc]
  <2>1. e = [call[c] EXCEPT !.pc = pc, !.tries = call[c].tries]
    BY <1>0 DEF Call
  <2>2. call' = [call EXCEPT ![c] = e] /\ ~At(c, "idle") /\ CallsTyped
    BY <1>0, <1>1 DEF Goto, At, Typed
  <2> HIDE DEF e
  <2>3. Shaped(e) /\ e.pc = pc /\ e.method = call[c].method /\ e.key = call[c].key
    BY <1>0, <1>1, <2>1, <2>2, MovedCall
  <2>4. CallsTyped'
    BY <1>0, <1>1, <2>2, <2>3, QuietCall
  <2>. QED BY <2>4
<1>2. CASE CancelCall(c)
  <2>1. CallsTyped'
    BY <1>1, <1>2 DEF CancelCall, Doing, Write
  <2>2. venue' \in [Order -> Status]
    BY <1>2 DEF CancelCall, Typed, RestTyped, Status
  <2>. QED BY <1>0, <1>2, <2>1, <2>2 DEF CancelCall, Typed, BookTyped, RestTyped, waiting, book
<1>3. CASE PostCall(c)
  <2>1. call[c].method = "post_order" /\ holder' = holder
    BY <1>3 DEF PostCall, Doing
  <2>2. \A k \in Order : holder[k] # c
    BY <2>1, TransportAssumption DEF Typed, CallsTyped
  <2>3. venue' \in [Order -> Status]
    BY <1>3 DEF PostCall, Typed, RestTyped, Status
  <2>4. CASE Goto(c, "done")
    <3>1. CallsTyped'
      BY <1>1, <2>1, <2>4 DEF Doing, Write
    <3>. QED BY <1>0, <1>3, <2>3, <3>1 DEF PostCall, Typed, BookTyped, RestTyped, waiting, book
  <2>5. ASSUME NEW k \in Order \cup {NoKey},
               call' = [call EXCEPT ![c].pc = "done", ![c].key = k]
        PROVE  Typed'
    <3> DEFINE e == [call[c] EXCEPT !.pc = "done", !.key = k]
    <3>1. e \in Call /\ e.pc = "done" /\ e.method = "post_order"
      BY <1>0, <2>1 DEF Call
    <3>2. call' = [call EXCEPT ![c] = e]
      BY <2>5
    <3> HIDE DEF e
    <3>3. Shaped(e)
      BY <3>1 DEF Shaped, Write
    <3>4. CallsTyped'
      BY <1>0, <2>1, <2>2, <3>1, <3>2, <3>3, QuietCall DEF Typed
    <3>. QED BY <1>0, <1>3, <2>3, <3>4 DEF PostCall, Typed, BookTyped, RestTyped, waiting, book
  <2>. QED BY <1>3, <2>4, <2>5 DEF PostCall
<1>4. CASE CallFails(c)
  <2>1. venue' \in [Order -> Status]
    <3>1. CASE Doing(c, {"cancel_order"})
      BY <1>4, <3>1 DEF CallFails, EffectOfFailure, Typed, RestTyped, Status, Doing
    <3>2. CASE Doing(c, {"post_order"})
      BY <1>4, <3>2 DEF CallFails, EffectOfFailure, Typed, RestTyped, Status, Doing
    <3>3. CASE ~Doing(c, {"cancel_order"}) /\ ~Doing(c, {"post_order"})
      BY <1>4, <3>3 DEF CallFails, EffectOfFailure, Typed, RestTyped
    <3>. QED BY <3>1, <3>2, <3>3
  <2>2. CallsTyped'
    <3>1. CASE Goto(c, "asleep") /\ holder' = holder
      BY <1>1, <3>1
    <3>2. CASE Doing(c, Write) /\ Goto(c, "failed") /\ holder' = holder
      BY <1>1, <3>2
    <3>3. CASE ~Doing(c, Write) /\ EndRead(c)
      <4>1. call[c].key \in Order
        BY <1>0, <3>3 DEF Shaped, Call, Method, Write, Doing, At
      <4>. QED BY <1>0, <3>3, <4>1, EndedRead DEF Typed
    <3>. QED BY <1>4, <3>1, <3>2, <3>3 DEF CallFails
  <2>. QED BY <1>0, <1>4, <2>1, <2>2 DEF CallFails, Typed, BookTyped, RestTyped, waiting, book
<1>. QED BY <1>2, <1>3, <1>4

\* A write returns; it has held no key lock.
LEMMA ReturnTyped ==
    ASSUME Typed, NEW c \in Caller, CancelReturns(c) \/ PostReturns(c)
    PROVE  Typed'
<1>1. /\ call[c].pc \in {"done", "failed"} /\ call[c].method \in Write /\ Shaped(call[c])
      /\ call' = [call EXCEPT ![c] = NoCall] /\ UNCHANGED <<slot, holder, waiting, venue, told>>
  BY DEF CancelReturns, PostReturns, Doing, Write, Typed, CallsTyped
<1>2. \A k \in Order : holder[k] # c
  BY <1>1, TransportAssumption DEF Typed, CallsTyped, Write
<1>3. CallsTyped'
  BY <1>1, <1>2, NoCallTyped, QuietCall DEF Typed, At
<1>4. CASE CancelReturns(c)
  <2>1. call[c].key \in Order
    BY <1>1, <1>4 DEF CancelReturns, Doing, Shaped
  <2>2. BookTyped'
    BY <1>4, <2>1, EvictableKeeps DEF CancelReturns, Typed
  <2>. QED BY <1>1, <1>3, <1>4, <2>1, <2>2 DEF CancelReturns, Typed, RestTyped, waiting
<1>5. CASE PostReturns(c)
  <2>1. CASE call[c].key = NoKey /\ ClearCache
    BY <1>1, <1>3, <1>5, <2>1 DEF PostReturns, ClearCache, Typed, BookTyped, RestTyped, waiting
  <2>2. CASE call[c].key # NoKey /\ Bump(call[c].key)
    <3>1. call[c].key \in Order
      BY <1>1, <2>2 DEF Shaped, Call
    <3>2. BookTyped'
      BY <2>2, <3>1, EvictableKeeps DEF Typed
    <3>. QED BY <1>1, <1>3, <1>5, <3>2 DEF PostReturns, Typed, RestTyped, waiting
  <2>. QED BY <1>5, <2>1, <2>2 DEF PostReturns
<1>. QED BY <1>4, <1>5

-----------------------------------------------------------------------------
(* Type correctness *)

LEMMA TypedInit == Init => Typed
<1> SUFFICES ASSUME Init PROVE Typed
  OBVIOUS
<1>1. Shaped(NoCall) /\ NoCall.pc = "idle"
  BY NoCallTyped
<1>2. NoCall \in Call
  BY <1>1 DEF Shaped
<1>3. Silence \in [status : Status \cup {"none", "unknown"}, late : BOOLEAN]
  BY DEF Silence
<1>4. CallsTyped
  BY <1>1, <1>2, TransportAssumption DEF Init, CallsTyped, At
<1>5. BookTyped /\ RestTyped
  BY <1>3 DEF Init, BookTyped, RestTyped, Status
<1>. QED BY <1>4, <1>5 DEF Typed

LEMMA TypedStep == Typed /\ [Next]_vars => Typed'
<1> SUFFICES ASSUME Typed, [Next]_vars PROVE Typed'
  OBVIOUS
<1>1. CASE UNCHANGED vars
  BY <1>1 DEF vars, Typed, CallsTyped, Shaped, BookTyped, RestTyped, At
<1>2. CASE Rest
  BY <1>2 DEF Rest, Typed, CallsTyped, Shaped, BookTyped, RestTyped, At, book
<1>3. ASSUME NEW c \in Caller, WaitedLong(c)
      PROVE  Typed'
  BY <1>3 DEF WaitedLong, Typed, CallsTyped, Shaped, BookTyped, RestTyped, At, book
<1>4. ASSUME NEW c \in Caller, BeginCancel(c)
      PROVE  Typed'
  <2>1. PICK o \in Order : BeginWrite(c, "cancel_order", o) /\ Bump(o)
    BY <1>4 DEF BeginCancel
  <2>2. BookTyped'
    BY <2>1, EvictableKeeps DEF Typed
  <2>. QED BY <2>1, <2>2, BeginWriteTyped DEF Write
<1>5. ASSUME NEW c \in Caller, BeginPost(c)
      PROVE  Typed'
  <2>1. BeginWrite(c, "post_order", NoKey) /\ BookTyped'
    BY <1>5 DEF BeginPost, Typed, BookTyped, book
  <2>. QED BY <2>1, BeginWriteTyped DEF Write
<1>6. ASSUME NEW c \in Caller, Begin(c) \/ Proceed(c) \/ LockKey(c) \/ Acquire(c) \/ WaitedLong(c)
      PROVE  Typed'
  BY <1>3, <1>4, <1>5, <1>6, BeginReadTyped, LockKeyTyped, LookTyped, ReadCallTyped, SlotTyped,
     CallTyped, ReturnTyped DEF Begin, Proceed
<1>. QED BY <1>1, <1>2, <1>6 DEF Next

\* Every step keeps the types; one caller at a time is in the transport slot,
\* and a key lock is held by one read, of that order, that is past taking it.
THEOREM TypeCorrect == Spec => []TypeOK
BY TypedInit, TypedStep, TypedParts, PTL DEF Spec

-----------------------------------------------------------------------------
(* Generations: no LIVE after a cancel *)

\* Every order has room in the table of generations: none is ever evicted.
RoomForAll == IsFiniteSet(Order) /\ Cardinality(Order) <= Cap

LEMMA BumpExact ==
    ASSUME RoomForAll, BookTyped, NEW o \in Order, Bump(o)
    PROVE  /\ gens' = [gens EXCEPT ![o] = @ + 1]
           /\ cache' = [cache EXCEPT ![o] = NoRecord]
<1>1. Table \cup {o} \in SUBSET Order
  BY DEF Table
<1>2. Cardinality(Table \cup {o}) <= Cardinality(Order)
  BY <1>1, FS_Subset DEF RoomForAll
<1>3. Cardinality(Table \cup {o}) \in Nat /\ Cardinality(Order) \in Nat
  BY <1>1, FS_Subset, FS_CardinalityType DEF RoomForAll
<1>4. Cardinality(Table \cup {o}) <= Cap
  BY <1>2, <1>3, TransportAssumption DEF RoomForAll
<1>5. Evictable(o) = {{}}
  BY <1>4 DEF Evictable
<1>6. gens' = [k \in Order |-> IF k = o THEN gens[o] + 1 ELSE gens[k]]
  BY <1>5 DEF Bump
<1>. QED BY <1>6 DEF Bump, BookTyped

\* What a step may do to generations, statuses and the record of one call:
\* generations grow, gone stays gone, an order is closed only as its generation
\* grows, and a status is read from the venue or kept in its own generation.
LEMMA GenerationsKept ==
    ASSUME Typed, BookTyped', GenerationsInv, NEW c \in Caller,
           \A d \in Caller \ {c} : call'[d] = call[d],
           \A o \in Order : gens[o] <= gens'[o],
           \A o \in Order : venue[o] = "gone" => venue'[o] = "gone",
           closed' \subseteq Order,
           \A o \in closed' : o \in closed \/ (venue'[o] = "gone" /\ gens[o] < gens'[o]),
           \A o \in Order : \/ cache'[o] = NoRecord \/ cache'[o] = cache[o]
                            \/ /\ closed' = closed /\ cache'[o].gen <= gens'[o]
                               /\ ~(o \in closed /\ cache'[o].status = "live"),
           call'[c].method = "get_order" =>
               /\ closed' = closed
               /\ call'[c].gen <= gens'[call'[c].key]
               /\ call'[c].pc = "got" /\ call'[c].key \in closed => call'[c].seen # "live"
    PROVE  GenerationsInv'
<1>1. \A o \in Order : gens[o] \in Nat /\ gens'[o] \in Nat
  BY DEF Typed, BookTyped
<1>2. \A o \in closed' : venue'[o] = "gone"
  BY DEF GenerationsInv
<1>3. ASSUME NEW o \in Order, cache'[o] # NoRecord
      PROVE  /\ cache'[o].gen <= gens'[o]
             /\ o \in closed' /\ cache'[o].status = "live" => cache'[o].gen < gens'[o]
  <2>1. CASE cache'[o] = cache[o]
    <3>1. cache[o].gen \in Nat
      BY <1>3, <2>1 DEF Typed, BookTyped, Record
    <3>2. cache[o].gen <= gens[o]
      BY <1>3, <2>1 DEF GenerationsInv
    <3>3. o \in closed /\ cache[o].status = "live" => cache[o].gen < gens[o]
      BY <1>3, <2>1 DEF GenerationsInv
    <3>. QED BY <1>1, <2>1, <3>1, <3>2, <3>3
  <2>. QED BY <1>3, <2>1
<1>4. ASSUME NEW d \in Caller, call'[d].method = "get_order"
      PROVE  /\ call'[d].gen <= gens'[call'[d].key]
             /\ call'[d].pc = "got" /\ call'[d].key \in closed' /\ call'[d].seen = "live"
                   => call'[d].gen < gens'[call'[d].key]
  <2>1. CASE d # c
    <3>1. call'[d] = call[d] /\ call[d].key \in Order /\ call[d].gen \in Nat
      BY <1>4, <2>1 DEF Typed, CallsTyped, Shaped, Call
    <3>2. call[d].gen <= gens[call[d].key]
      BY <1>4, <3>1 DEF GenerationsInv, Doing
    <3>3. call[d].pc = "got" /\ call[d].key \in closed /\ call[d].seen = "live"
             => call[d].gen < gens[call[d].key]
      BY <1>4, <3>1 DEF GenerationsInv, Doing, At
    <3>. QED BY <1>1, <3>1, <3>2, <3>3
  <2>. QED BY <1>4, <2>1
<1>. QED BY <1>2, <1>3, <1>4 DEF GenerationsInv, Doing, At

\* The answers a caller gets: a late one that says LIVE is never given.
LEMMA AnswerRight ==
    ASSUME Typed, NotLiveAfterCancel, NEW c \in Caller, NEW st, Answer(c, st),
           call[c].key \in closed => st # "live"
    PROVE  NotLiveAfterCancel'
BY DEF Answer, Typed, RestTyped, NotLiveAfterCancel

\* A call that goes on, or begins as a read, changes nothing the invariant is about.
LEMMA CallGoesOn ==
    ASSUME Typed, Typed', GenerationsInv, NEW c \in Caller,
           \A d \in Caller \ {c} : call'[d] = call[d],
           UNCHANGED <<gens, closed>>,
           cache' = cache,
           \A o \in Order : venue[o] = "gone" => venue'[o] = "gone",
           call'[c].method = "get_order" =>
               /\ \/ /\ call[c].method = "get_order"
                     /\ call'[c].key = call[c].key /\ call'[c].gen = call[c].gen
                  \/ call'[c].gen = 0
                  \/ call'[c].gen = gens[call'[c].key]
               /\ \/ call'[c].pc # "got"
                  \/ call'[c].seen = venue[call'[c].key]
    PROVE  GenerationsInv'
<1>1. \A o \in Order : gens[o] \in Nat /\ gens[o] <= gens'[o]
  BY DEF Typed, BookTyped
<1>2. closed' \subseteq Order
  BY DEF Typed, RestTyped
<1>3. ASSUME call'[c].method = "get_order"
      PROVE  /\ call'[c].gen <= gens'[call'[c].key]
             /\ call'[c].pc = "got" /\ call'[c].key \in closed => call'[c].seen # "live"
  <2>1. call'[c].key \in Order
    BY <1>3 DEF Typed, CallsTyped, Shaped
  <2>2. call[c].method = "get_order" => call[c].gen <= gens[call[c].key]
    BY DEF GenerationsInv, Doing
  <2>3. call'[c].gen <= gens'[call'[c].key]
    BY <1>1, <1>3, <2>1, <2>2
  <2>4. call'[c].pc = "got" /\ call'[c].key \in closed => call'[c].seen # "live"
    BY <1>3 DEF GenerationsInv
  <2>. QED BY <2>3, <2>4
<1>4. BookTyped'
  BY DEF Typed
<1>. QED BY <1>1, <1>2, <1>3, <1>4, GenerationsKept

\* A transition of an order: what is known of it is of an older generation. The
\* call that made it is over, or begins to cancel.
LEMMA Transition ==
    ASSUME RoomForAll, Typed, Typed', GenerationsInv, NEW c \in Caller, NEW k \in Order,
           Bump(k), UNCHANGED venue, NEW e, call' = [call EXCEPT ![c] = e],
           e.method # "get_order",
           \A o \in closed' : o \in closed \/ (o = k /\ venue[o] = "gone")
    PROVE  GenerationsInv'
<1>1. gens' = [gens EXCEPT ![k] = @ + 1] /\ cache' = [cache EXCEPT ![k] = NoRecord]
  BY BumpExact DEF Typed
<1>2. \A o \in Order : gens[o] \in Nat /\ gens'[o] = IF o = k THEN gens[o] + 1 ELSE gens[o]
  BY <1>1 DEF Typed, BookTyped
<1>3. (\A o \in Order : gens[o] <= gens'[o]) /\ gens[k] < gens'[k]
  BY <1>2
<1>4. \A o \in Order : cache'[o] = NoRecord \/ cache'[o] = cache[o]
  BY <1>1 DEF Typed, BookTyped
<1>5. /\ call'[c] = e /\ \A d \in Caller \ {c} : call'[d] = call[d]
  BY DEF Typed, CallsTyped
<1>6. closed' \subseteq Order /\ BookTyped'
  BY DEF Typed, RestTyped
<1>. QED BY <1>3, <1>4, <1>5, <1>6, GenerationsKept

LEMMA ReadGenerations ==
    ASSUME Typed, Typed', GenerationsInv, NEW c \in Caller,
           \/ BeginRead(c) \/ LockKey(c) \/ Acquire(c) \/ Retry(c)
           \/ CacheHit(c) \/ CacheMiss(c) \/ ReadCall(c) \/ DiscardStatus(c)
    PROVE  GenerationsInv'
<1>1. /\ UNCHANGED <<gens, closed>> /\ cache' = cache /\ venue' = venue
      /\ call[c] \in Call /\ Shaped(call[c]) /\ call \in [Caller -> Call]
  BY DEF BeginRead, LockKey, Acquire, Retry, CacheHit, CacheMiss, ReadCall, DiscardStatus,
         book, Typed, CallsTyped
<1> DEFINE e == call'[c]
<1>2. CASE BeginRead(c)
  <2>1. PICK o \in Order : call' = [call EXCEPT ![c] = [NoCall EXCEPT !.method = "get_order",
                                                         !.key = o, !.pc = "locking"]]
    BY <1>2 DEF BeginRead
  <2>2. /\ \A d \in Caller \ {c} : call'[d] = call[d]
        /\ call'[c].gen = 0 /\ call'[c].pc = "locking"
    BY <1>1, <2>1 DEF NoCall
  <2>. QED BY <1>1, <2>2, CallGoesOn
<1>3. CASE LockKey(c)
  <2>1. /\ \A d \in Caller \ {c} : call'[d] = call[d]
        /\ call'[c] = [call[c] EXCEPT !.pc = "looking", !.round = 1]
    BY <1>1, <1>3 DEF LockKey
  <2>2. /\ call'[c].method = call[c].method /\ call'[c].key = call[c].key
        /\ call'[c].gen = call[c].gen /\ call'[c].pc = "looking"
    BY <1>1, <2>1 DEF Call
  <2>. QED BY <1>1, <2>1, <2>2, CallGoesOn
<1>4. CASE Acquire(c)
  <2>1. /\ \A d \in Caller \ {c} : call'[d] = call[d]
        /\ call'[c] = [call[c] EXCEPT !.pc = "calling", !.tries = @ + 1]
    BY <1>1, <1>4 DEF Acquire
  <2>2. /\ call'[c].method = call[c].method /\ call'[c].key = call[c].key
        /\ call'[c].gen = call[c].gen /\ call'[c].pc = "calling"
    BY <1>1, <2>1 DEF Call
  <2>. QED BY <1>1, <2>1, <2>2, CallGoesOn
<1>5. CASE Retry(c)
  <2>1. /\ \A d \in Caller \ {c} : call'[d] = call[d]
        /\ call'[c] = [call[c] EXCEPT !.pc = "queued"]
    BY <1>1, <1>5 DEF Retry, Goto
  <2>2. /\ call'[c].method = call[c].method /\ call'[c].key = call[c].key
        /\ call'[c].gen = call[c].gen /\ call'[c].pc = "queued"
    BY <1>1, <2>1 DEF Call
  <2>. QED BY <1>1, <2>1, <2>2, CallGoesOn
<1>6. CASE CacheMiss(c)
  <2>1. /\ \A d \in Caller \ {c} : call'[d] = call[d]
        /\ call'[c] = [call[c] EXCEPT !.pc = "queued", !.gen = gens[call[c].key], !.tries = 0]
    BY <1>1, <1>6 DEF CacheMiss
  <2>2. /\ call'[c].key = call[c].key /\ call'[c].gen = gens[call[c].key]
        /\ call'[c].pc = "queued"
    BY <1>1, <2>1 DEF Call
  <2>. QED BY <1>1, <2>1, <2>2, CallGoesOn
<1>7. CASE ReadCall(c)
  <2>1. /\ \A d \in Caller \ {c} : call'[d] = call[d]
        /\ call'[c] = [call[c] EXCEPT !.pc = "got", !.seen = venue[call[c].key]]
    BY <1>1, <1>7 DEF ReadCall
  <2>2. /\ call'[c].method = call[c].method /\ call'[c].key = call[c].key
        /\ call'[c].gen = call[c].gen /\ call'[c].seen = venue[call'[c].key]
    BY <1>1, <2>1 DEF Call
  <2>. QED BY <1>1, <2>1, <2>2, CallGoesOn
<1>8. ASSUME call' = [call EXCEPT ![c] = NoCall]
      PROVE  GenerationsInv'
  <2>1. /\ \A d \in Caller \ {c} : call'[d] = call[d]
        /\ call'[c].method = "none"
    BY <1>1, <1>8 DEF NoCall
  <2>. QED BY <1>1, <2>1, CallGoesOn
<1>9. CASE CacheHit(c)
  BY <1>8, <1>9 DEF CacheHit, Answer, EndRead
<1>10. CASE DiscardStatus(c)
  <2>1. CASE call' = [call EXCEPT ![c].pc = "looking", ![c].round = @ + 1]
    <3>1. /\ \A d \in Caller \ {c} : call'[d] = call[d]
          /\ call'[c] = [call[c] EXCEPT !.pc = "looking", !.round = @ + 1]
      BY <1>1, <2>1
    <3>2. /\ call'[c].method = call[c].method /\ call'[c].key = call[c].key
          /\ call'[c].gen = call[c].gen /\ call'[c].pc = "looking"
      BY <1>1, <3>1 DEF Call
    <3>. QED BY <1>1, <3>1, <3>2, CallGoesOn
  <2>. QED BY <1>8, <1>10, <2>1 DEF DiscardStatus, Answer, EndRead
<1>. QED BY <1>2, <1>3, <1>4, <1>5, <1>6, <1>7, <1>9, <1>10

\* A status is kept in the generation in which it was read: for an order that has
\* been closed meanwhile that is an older one, and then it is not kept.
LEMMA KeepGenerations ==
    ASSUME Typed, Typed', GenerationsInv, NEW c \in Caller, KeepStatus(c)
    PROVE  GenerationsInv' /\ (call[c].key \in closed => call[c].seen # "live")
<1> DEFINE k == call[c].key
<1>1. /\ call[c] \in Call /\ call[c].method = "get_order" /\ k \in Order
      /\ call[c].pc = "got" /\ call[c].gen = gens[k] /\ gens[k] \in Nat
  BY DEF KeepStatus, Unraced, At, Typed, CallsTyped, Shaped, BookTyped
<1>2. k \in closed => call[c].seen # "live"
  BY <1>1 DEF GenerationsInv, Doing, At
<1>3. /\ cache' = [cache EXCEPT ![k] = [gen |-> call[c].gen, status |-> call[c].seen]]
      /\ call' = [call EXCEPT ![c] = NoCall] /\ UNCHANGED <<gens, venue, closed>>
  BY DEF KeepStatus, Answer, EndRead
<1>4. /\ \A d \in Caller \ {c} : call'[d] = call[d]
      /\ call'[c].method = "none"
  BY <1>3 DEF Typed, CallsTyped, NoCall
<1>5. /\ cache'[k].gen <= gens'[k] /\ ~(k \in closed /\ cache'[k].status = "live")
      /\ \A o \in Order \ {k} : cache'[o] = cache[o]
  BY <1>1, <1>2, <1>3 DEF Typed, BookTyped
<1>6. \A o \in Order : gens[o] <= gens'[o]
  BY <1>3 DEF Typed, BookTyped
<1>7. closed' \subseteq Order /\ BookTyped'
  BY DEF Typed, RestTyped
<1> HIDE DEF k
<1>8. \A o \in Order : \/ cache'[o] = NoRecord \/ cache'[o] = cache[o]
                       \/ /\ closed' = closed /\ cache'[o].gen <= gens'[o]
                          /\ ~(o \in closed /\ cache'[o].status = "live")
  BY <1>3, <1>5
<1>9. GenerationsInv'
  BY <1>3, <1>4, <1>6, <1>7, <1>8, GenerationsKept
<1>. QED BY <1>2, <1>9 DEF k

LEMMA WriteGenerations ==
    ASSUME RoomForAll, Typed, Typed', GenerationsInv, NEW c \in Caller,
           \/ BeginCancel(c) \/ BeginPost(c) \/ CancelCall(c) \/ PostCall(c) \/ CallFails(c)
           \/ CancelReturns(c) \/ PostReturns(c)
    PROVE  GenerationsInv'
<1>1. /\ call[c] \in Call /\ Shaped(call[c]) /\ call \in [Caller -> Call]
      /\ venue \in [Order -> Status]
  BY DEF Typed, CallsTyped, RestTyped
<1>2. NoCall.method = "none"
  BY DEF NoCall
<1>3. CASE BeginCancel(c)
  <2>1. PICK o \in Order : BeginWrite(c, "cancel_order", o) /\ Bump(o)
    BY <1>3 DEF BeginCancel
  <2> DEFINE e == [NoCall EXCEPT !.method = "cancel_order", !.key = o, !.pc = "queued"]
  <2>2. call' = [call EXCEPT ![c] = e] /\ UNCHANGED <<venue, closed>>
    BY <2>1 DEF BeginWrite
  <2>3. e.method = "cancel_order"
    BY DEF NoCall
  <2> HIDE DEF e
  <2>. QED BY <2>1, <2>2, <2>3, Transition
<1>4. CASE BeginPost(c)
  <2>1. /\ call' = [call EXCEPT ![c] = [NoCall EXCEPT !.method = "post_order", !.key = NoKey,
                                                      !.pc = "queued"]]
        /\ UNCHANGED <<gens, cache, venue, closed>>
    BY <1>4 DEF BeginPost, BeginWrite, book
  <2>2. /\ \A d \in Caller \ {c} : call'[d] = call[d]
        /\ call'[c].method = "post_order"
    BY <1>1, <2>1 DEF NoCall
  <2>. QED BY <2>1, <2>2, CallGoesOn
<1>5. ASSUME NEW pc, Goto(c, pc), pc # "got", UNCHANGED <<gens, cache, closed>>,
             \A o \in Order : venue[o] = "gone" => venue'[o] = "gone"
      PROVE  GenerationsInv'
  <2>1. /\ \A d \in Caller \ {c} : call'[d] = call[d]
        /\ call'[c] = [call[c] EXCEPT !.pc = pc]
    BY <1>1, <1>5 DEF Goto
  <2>2. /\ call'[c].method = call[c].method /\ call'[c].key = call[c].key
        /\ call'[c].gen = call[c].gen /\ call'[c].pc = pc
    BY <1>1, <2>1 DEF Call
  <2>. QED BY <1>5, <2>1, <2>2, CallGoesOn
<1>6. CASE CancelCall(c)
  <2>1. \A o \in Order : venue[o] = "gone" => venue'[o] = "gone"
    BY <1>1, <1>6 DEF CancelCall
  <2>. QED BY <1>5, <1>6, <2>1 DEF CancelCall, book
<1>7. CASE PostCall(c)
  <2>1. \A o \in Order : venue[o] = "gone" => venue'[o] = "gone"
    BY <1>1, <1>7 DEF PostCall
  <2>2. UNCHANGED <<gens, cache, closed>> /\ call[c].method = "post_order"
    BY <1>7 DEF PostCall, book, Doing
  <2>3. CASE Goto(c, "done")
    BY <1>5, <2>1, <2>2, <2>3
  <2>4. ASSUME NEW k, call' = [call EXCEPT ![c].pc = "done", ![c].key = k]
        PROVE  GenerationsInv'
    <3>1. /\ \A d \in Caller \ {c} : call'[d] = call[d]
          /\ call'[c] = [call[c] EXCEPT !.pc = "done", !.key = k]
      BY <1>1, <2>4
    <3>2. call'[c].method = "post_order"
      BY <1>1, <2>2, <3>1 DEF Call
    <3>. QED BY <2>1, <2>2, <3>1, <3>2, CallGoesOn
  <2>. QED BY <1>7, <2>3, <2>4 DEF PostCall
<1>8. CASE CallFails(c)
  <2>1. venue' \in EffectOfFailure(c)
    BY <1>8 DEF CallFails
  <2>2. \A o \in Order : venue[o] = "gone" => venue'[o] = "gone"
    <3>1. CASE Doing(c, {"cancel_order"})
      BY <1>1, <2>1, <3>1 DEF EffectOfFailure, Doing
    <3>2. CASE Doing(c, {"post_order"})
      BY <1>1, <2>1, <3>2 DEF EffectOfFailure, Doing
    <3>3. CASE ~Doing(c, {"cancel_order"}) /\ ~Doing(c, {"post_order"})
      BY <2>1, <3>3 DEF EffectOfFailure
    <3>. QED BY <3>1, <3>2, <3>3
  <2>3. UNCHANGED <<gens, cache, closed>>
    BY <1>8 DEF CallFails, book
  <2>4. CASE Goto(c, "asleep") \/ Goto(c, "failed")
    BY <1>5, <2>2, <2>3, <2>4
  <2>5. CASE EndRead(c)
    <3>1. /\ \A d \in Caller \ {c} : call'[d] = call[d]
          /\ call'[c].method = "none"
      BY <1>1, <1>2, <2>5 DEF EndRead
    <3>. QED BY <2>2, <2>3, <3>1, CallGoesOn
  <2>. QED BY <1>8, <2>4, <2>5 DEF CallFails
<1>9. CASE CancelReturns(c)
  <2>1. call[c].key \in Order
    BY <1>1, <1>9 DEF CancelReturns, Doing, Shaped
  <2>2. \A o \in closed' : o \in closed \/ (o = call[c].key /\ venue[o] = "gone")
    BY <1>9 DEF CancelReturns
  <2>3. /\ Bump(call[c].key) /\ UNCHANGED venue /\ call' = [call EXCEPT ![c] = NoCall]
    BY <1>9 DEF CancelReturns
  <2>. QED BY <1>2, <2>1, <2>2, <2>3, Transition
<1>10. CASE PostReturns(c)
  <2>1. UNCHANGED <<venue, closed>> /\ call' = [call EXCEPT ![c] = NoCall]
    BY <1>10 DEF PostReturns
  <2>2. CASE call[c].key # NoKey /\ Bump(call[c].key)
    <3>1. call[c].key \in Order
      BY <1>1, <2>2 DEF Call
    <3>. QED BY <1>2, <2>1, <2>2, <3>1, Transition
  <2>3. CASE ClearCache
    <3>1. /\ \A d \in Caller \ {c} : call'[d] = call[d]
          /\ call'[c].method = "none"
      BY <1>1, <1>2, <2>1
    <3>2. /\ \A o \in Order : gens[o] <= gens'[o]
          /\ \A o \in Order : cache'[o] = NoRecord
      BY <2>3 DEF ClearCache, Typed, BookTyped
    <3>3. closed' \subseteq Order /\ BookTyped'
      BY DEF Typed, RestTyped
    <3>. QED BY <2>1, <3>1, <3>2, <3>3, GenerationsKept
  <2>. QED BY <1>10, <2>2, <2>3 DEF PostReturns
<1>. QED BY <1>3, <1>4, <1>6, <1>7, <1>8, <1>9, <1>10

LEMMA GenerationsStep ==
    ASSUME RoomForAll, Typed, Typed', GenerationsInv, [Next]_vars
    PROVE  GenerationsInv'
<1>1. ASSUME UNCHANGED <<call, gens, cache, venue, closed>>
      PROVE  GenerationsInv'
  BY <1>1 DEF GenerationsInv, At, Doing
<1>2. CASE UNCHANGED vars
  BY <1>1, <1>2 DEF vars
<1>3. CASE Rest
  BY <1>1, <1>3 DEF Rest, book
<1>4. ASSUME NEW c \in Caller, WaitedLong(c)
      PROVE  GenerationsInv'
  BY <1>1, <1>4 DEF WaitedLong, book
<1>5. ASSUME NEW c \in Caller, Begin(c) \/ Proceed(c) \/ LockKey(c) \/ Acquire(c) \/ WaitedLong(c)
      PROVE  GenerationsInv'
  BY <1>4, <1>5, ReadGenerations, KeepGenerations, WriteGenerations DEF Begin, Proceed
<1>. QED BY <1>2, <1>3, <1>5 DEF Next

\* What a caller is told: from the cache, or by the read it has just made.
LEMMA ToldStep ==
    ASSUME Typed, Typed', GenerationsInv, NotLiveAfterCancel, [Next]_vars
    PROVE  NotLiveAfterCancel'
<1>1. ASSUME told' = told
      PROVE  NotLiveAfterCancel'
  BY <1>1 DEF NotLiveAfterCancel
<1>2. ASSUME NEW c \in Caller, told' = [told EXCEPT ![c] = Silence]
      PROVE  NotLiveAfterCancel'
  BY <1>2 DEF Silence, Typed, RestTyped, NotLiveAfterCancel
<1>3. ASSUME NEW c \in Caller, CacheHit(c)
      PROVE  NotLiveAfterCancel'
  <2>1. call[c].key \in Order
    BY <1>3 DEF CacheHit, At, Typed, CallsTyped, Shaped
  <2>2. gens[call[c].key] \in Nat /\ Servable(call[c].key)
    BY <1>3, <2>1 DEF CacheHit, Typed, BookTyped
  <2>3. call[c].key \in closed => cache[call[c].key].status # "live"
    BY <2>1, <2>2 DEF Servable, GenerationsInv
  <2>. QED BY <1>3, <2>3, AnswerRight DEF CacheHit
<1>4. ASSUME NEW c \in Caller, KeepStatus(c)
      PROVE  NotLiveAfterCancel'
  BY <1>4, KeepGenerations, AnswerRight DEF KeepStatus
<1>5. ASSUME NEW c \in Caller, DiscardStatus(c)
      PROVE  NotLiveAfterCancel'
  BY <1>1, <1>5, AnswerRight DEF DiscardStatus
<1>6. ASSUME NEW c \in Caller, Begin(c) \/ Proceed(c) \/ LockKey(c) \/ Acquire(c) \/ WaitedLong(c)
      PROVE  NotLiveAfterCancel'
  <2>1. CASE Begin(c)
    BY <1>2, <2>1 DEF Begin, BeginRead, BeginCancel, BeginPost, BeginWrite
  <2>2. CASE Proceed(c)
    BY <1>1, <1>3, <1>4, <1>5, <2>2 DEF Proceed, CacheMiss, ReadCall, CancelCall, PostCall,
       CallFails, Retry, CancelReturns, PostReturns
  <2>3. CASE LockKey(c) \/ Acquire(c) \/ WaitedLong(c)
    BY <1>1, <2>3 DEF LockKey, Acquire, WaitedLong
  <2>. QED BY <1>6, <2>1, <2>2, <2>3
<1>7. CASE Rest
  BY <1>1, <1>7 DEF Rest
<1>8. CASE UNCHANGED vars
  BY <1>1, <1>8 DEF vars
<1>. QED BY <1>6, <1>7, <1>8 DEF Next

LEMMA GenerationsInit == Init => GenerationsInv /\ NotLiveAfterCancel
BY DEF Init, GenerationsInv, NotLiveAfterCancel, Doing, At, NoCall, Silence

\* After a cancel that ended its order has returned, get_order never says LIVE, from
\* the cache or from a read under way meanwhile, as long as no order's generation
\* has to be evicted from the table of generations.
THEOREM NotLiveAfterCancelHolds ==
    ASSUME RoomForAll
    PROVE  Spec => []NotLiveAfterCancel
<1> DEFINE I == Typed /\ GenerationsInv /\ NotLiveAfterCancel
<1>1. Init => I
  BY TypedInit, GenerationsInit
<1>2. I /\ [Next]_vars => I'
  BY TypedStep, GenerationsStep, ToldStep
<1>3. I => NotLiveAfterCancel
  OBVIOUS
<1> HIDE DEF I
<1>. QED BY <1>1, <1>2, <1>3, PTL DEF Spec
=============================================================================
