----------------------------- MODULE ClobTransport -----------------------------
(***************************************************************************)
(* ClobTransport (src/execution/clob_transport.py): threads share one SDK  *)
(* object through a single transport slot. Writes go first, a lifecycle    *)
(* read that has waited too long may pass them, failed reads and cancels   *)
(* are retried. get_order answers from a short-lived cache, and generations*)
(* keep a status that races a cancel out of it.                            *)
(*                                                                         *)
(* Simplifications:                                                        *)
(*  - time is what it makes true: a waiter has waited for the starvation   *)
(*    limit, the last escape is that long ago; a cache entry that is too   *)
(*    old, or was dropped because the cache was full, is a free choice;    *)
(*  - the table of generations evicts any entries, not the oldest;         *)
(*  - an answer counts as given when its caller last looks at the          *)
(*    generation: what happens before the value is returned is not seen;   *)
(*  - the key locks are never pruned, and cooldowns only take time;        *)
(*  - of the methods, those on single orders: the others take the slot in  *)
(*    the same way and keep nothing, or (get_trades) a cache that no write *)
(*    ever invalidates.                                                    *)
(***************************************************************************)
EXTENDS Integers, FiniteSets

CONSTANTS
    Caller, Order,
    Allowed,        \* caller -> the methods it calls
    Attempts,       \* method -> attempts of the policy
    Cap,            \* entries of the table of generations
    MaxGen,         \* bound: no cancel begins beyond this generation
    NoKey, NoCaller, NoRecord

Method == {"get_order", "cancel_order", "post_order"}
Write == {"cancel_order", "post_order"}
LifecycleRead == {"get_order"}

Status == {"absent", "live", "gone"}

ASSUME TransportAssumption ==
    /\ Allowed \in [Caller -> SUBSET Method]
    /\ Attempts \in [Method -> Nat \ {0}]
    /\ Cap \in Nat \ {0} /\ MaxGen \in Nat
    /\ NoKey \notin Order /\ NoCaller \notin Caller

VARIABLES
    call,       \* caller -> its call: where it is, generation_before, and so on
    slot,       \* the caller in the transport slot
    holder,     \* order -> the caller that holds its key lock
    starved,    \* waiters that have waited for the starvation limit
    rested,     \* the last escape is at least that long ago
    gens,       \* order -> its generation; 0 means it is not in the table
    cache,      \* order -> the cached answer and its generation
    venue,      \* order -> its status at the venue
    closed,     \* orders that a cancel, now returned, has found ended (history)
    told        \* caller -> its last answer, and whether it came after (history)

vars == <<call, slot, holder, starved, rested, gens, cache, venue, closed, told>>
waiting == <<starved, rested>>
book == <<gens, cache>>

Record == [gen : Nat, status : Status]
Call == [method : Method \cup {"none"}, key : Order \cup {NoKey},
         pc : {"idle", "locking", "looking", "queued", "asleep", "calling", "got",
               "done", "failed"},
         gen : Nat, round : 0..2, tries : Nat, seen : Status]
NoCall == [method |-> "none", key |-> NoKey, pc |-> "idle", gen |-> 0, round |-> 0,
           tries |-> 0, seen |-> "absent"]
Silence == [status |-> "none", late |-> FALSE]

Init == /\ call = [c \in Caller |-> NoCall]
        /\ slot = NoCaller
        /\ holder = [k \in Order |-> NoCaller]
        /\ starved = {}
        /\ rested = TRUE
        /\ gens = [k \in Order |-> 0]
        /\ cache = [k \in Order |-> NoRecord]
        /\ venue = [o \in Order |-> "absent"]
        /\ closed = {}
        /\ told = [c \in Caller |-> Silence]

At(c, pc) == call[c].pc = pc
Doing(c, methods) == call[c].method \in methods
Goto(c, pc) == call' = [call EXCEPT ![c].pc = pc]

-----------------------------------------------------------------------------
(* Generations and the cache *)

Table == {o \in Order : gens[o] > 0}

\* An update that takes the table over its cap removes others.
RemoveCount == IF Cap \div 4 > 0 THEN Cap \div 4 ELSE 1
Evictable(o) ==
    IF Cardinality(Table \cup {o}) <= Cap THEN {{}}
    ELSE {S \in SUBSET (Table \ {o}) : Cardinality(S) \in {RemoveCount - 1, RemoveCount}}

\* A transition of the order: its cached status goes.
Bump(o) ==
    /\ \E S \in Evictable(o) :
           gens' = [k \in Order |-> IF k = o THEN gens[o] + 1
                                  ELSE IF k \in S THEN 0 ELSE gens[k]]
    /\ cache' = [cache EXCEPT ![o] = NoRecord]

\* A post whose order is not known by its id: no cached status is kept.
ClearCache ==
    /\ cache' = [k \in Order |-> NoRecord]
    /\ UNCHANGED gens

Servable(k) == cache[k] # NoRecord /\ cache[k].gen = gens[k]

-----------------------------------------------------------------------------
(* The transport slot *)

WaitingWrites == {c \in Caller : At(c, "queued") /\ Doing(c, Write)}

EscapeReady(c) == /\ Doing(c, LifecycleRead)
                  /\ WaitingWrites # {}
                  /\ c \in starved
                  /\ rested

\* After the pause the next attempt goes for the slot.
Retry(c) ==
    /\ At(c, "asleep")
    /\ Goto(c, "queued")
    /\ UNCHANGED <<slot, holder, waiting, book, venue, closed, told>>

WritesFirst(c) == Doing(c, Write) \/ WaitingWrites = {}
MayPass(c) == WritesFirst(c) \/ EscapeReady(c)

Acquire(c) ==
    /\ At(c, "queued")
    /\ slot = NoCaller
    /\ MayPass(c)
    /\ slot' = c
    /\ starved' = starved \ {c}
    /\ rested' = (rested /\ ~EscapeReady(c))
    /\ call' = [call EXCEPT ![c].pc = "calling", ![c].tries = @ + 1]
    /\ UNCHANGED <<holder, book, venue, closed, told>>

WaitedLong(c) ==
    /\ At(c, "queued") /\ Doing(c, LifecycleRead)
    /\ c \notin starved
    /\ starved' = starved \cup {c}
    /\ UNCHANGED <<call, slot, holder, rested, book, venue, closed, told>>

Rest ==
    /\ ~rested
    /\ rested' = TRUE
    /\ UNCHANGED <<call, slot, holder, starved, book, venue, closed, told>>

-----------------------------------------------------------------------------
(* get_order *)

BeginRead(c) ==
    /\ At(c, "idle")
    /\ "get_order" \in Allowed[c]
    /\ \E o \in Order :
           /\ venue[o] # "absent"
           /\ call' = [call EXCEPT ![c] = [NoCall EXCEPT !.method = "get_order",
                                                         !.key = o, !.pc = "locking"]]
    /\ told' = [told EXCEPT ![c] = Silence]
    /\ UNCHANGED <<slot, holder, waiting, book, venue, closed>>

LockKey(c) ==
    /\ At(c, "locking")
    /\ holder[call[c].key] = NoCaller
    /\ holder' = [holder EXCEPT ![call[c].key] = c]
    /\ call' = [call EXCEPT ![c].pc = "looking", ![c].round = 1]
    /\ UNCHANGED <<slot, waiting, book, venue, closed, told>>

\* The call ends and its key lock is given back.
EndReadLocked(c) == call' = [call EXCEPT ![c] = NoCall] /\ UNCHANGED holder
EndRead(c) ==
    /\ holder' = [holder EXCEPT ![call[c].key] = NoCaller]
    /\ call' = [call EXCEPT ![c] = NoCall]

Answer(c, status) ==
    /\ EndRead(c)
    /\ told' = [told EXCEPT ![c] = [status |-> status, late |-> call[c].key \in closed]]

CacheHit(c) ==
    /\ At(c, "looking")
    /\ Servable(call[c].key)
    /\ Answer(c, cache[call[c].key].status)
    /\ UNCHANGED <<slot, waiting, book, venue, closed>>

\* There is no servable record, or it is older than the ttl.
CacheMiss(c) ==
    /\ At(c, "looking")
    /\ call' = [call EXCEPT ![c].pc = "queued", ![c].gen = gens[call[c].key],
                            ![c].tries = 0]
    /\ UNCHANGED <<slot, holder, waiting, book, venue, closed, told>>

ReadCall(c) ==
    /\ At(c, "calling") /\ ~Doing(c, Write)
    /\ call' = [call EXCEPT ![c].pc = "got", ![c].seen = venue[call[c].key]]
    /\ slot' = NoCaller
    /\ UNCHANGED <<holder, waiting, book, venue, closed, told>>

\* The generation is still that of the look: the status is cached and returned.
NotOlder(c) == gens[call[c].key] >= call[c].gen
Unraced(c) == gens[call[c].key] = call[c].gen

KeepStatus(c) ==
    /\ At(c, "got")
    /\ Unraced(c)
    /\ cache' = [cache EXCEPT ![call[c].key] = [gen |-> call[c].gen,
                                                status |-> call[c].seen]]
    /\ Answer(c, call[c].seen)
    /\ UNCHANGED <<slot, waiting, gens, venue, closed>>

\* A transition raced the read: once more, and then the answer is unknown.
DiscardStatus(c) ==
    /\ At(c, "got")
    /\ ~Unraced(c)
    /\ \/ /\ call[c].round < 2
          /\ call' = [call EXCEPT ![c].pc = "looking", ![c].round = @ + 1]
          /\ UNCHANGED <<holder, told>>
       \/ /\ call[c].round = 2
          /\ Answer(c, "unknown")
    /\ UNCHANGED <<slot, waiting, book, venue, closed>>

-----------------------------------------------------------------------------
(* cancel_order and post_order *)

BeginWrite(c, m, k) ==
    /\ At(c, "idle")
    /\ m \in Allowed[c]
    /\ call' = [call EXCEPT ![c] = [NoCall EXCEPT !.method = m, !.key = k,
                                                  !.pc = "queued"]]
    /\ told' = [told EXCEPT ![c] = Silence]
    /\ UNCHANGED <<slot, holder, waiting, venue, closed>>

\* Reads and entries from before the intent to cancel no longer count.
BeginCancel(c) ==
    \E o \in Order : /\ venue[o] # "absent"
                     /\ gens[o] < MaxGen
                     /\ BeginWrite(c, "cancel_order", o)
                     /\ Bump(o)

BeginPost(c) == BeginWrite(c, "post_order", NoKey) /\ UNCHANGED book

\* The cancel takes effect or finds nothing to cancel.
CancelCall(c) ==
    /\ At(c, "calling") /\ Doing(c, {"cancel_order"})
    /\ venue' \in {venue, [venue EXCEPT ![call[c].key] = "gone"]}
    /\ Goto(c, "done")
    /\ slot' = NoCaller
    /\ UNCHANGED <<holder, waiting, book, closed, told>>

\* The post is answered with the id of a new order, or without an id.
PostCall(c) ==
    /\ At(c, "calling") /\ Doing(c, {"post_order"})
    /\ \/ \E o \in Order : /\ venue[o] = "absent"
                           /\ venue' = [venue EXCEPT ![o] = "live"]
                           /\ \E k \in {o, NoKey} :
                                  call' = [call EXCEPT ![c].pc = "done", ![c].key = k]
       \/ Goto(c, "done") /\ UNCHANGED venue
    /\ slot' = NoCaller
    /\ UNCHANGED <<holder, waiting, book, closed, told>>

\* What a call that raises may have done at the venue all the same.
EffectOfFailure(c) ==
    CASE Doing(c, {"cancel_order"}) -> {venue, [venue EXCEPT ![call[c].key] = "gone"]}
      [] Doing(c, {"post_order"}) ->
             {venue} \cup {[venue EXCEPT ![o] = "live"] : o \in {q \in Order :
                                                                 venue[q] = "absent"}}
      [] OTHER -> {venue}

\* A post is never tried again: it may have reached the venue.
AttemptsFor(m) == IF m = "post_order" THEN 1 ELSE Attempts[m]

\* The SDK call raises. A transient error is retried while attempts are left.
CallFails(c) ==
    /\ At(c, "calling")
    /\ venue' \in EffectOfFailure(c)
    /\ slot' = NoCaller
    /\ \/ /\ call[c].tries < AttemptsFor(call[c].method)
          /\ Goto(c, "asleep")
          /\ UNCHANGED holder
       \/ /\ Doing(c, Write)
          /\ Goto(c, "failed")
          /\ UNCHANGED holder
       \/ ~Doing(c, Write) /\ EndRead(c)
    /\ UNCHANGED <<waiting, book, closed, told>>

\* Whether or not the cancel went through, reads that raced it are discarded.
CancelReturns(c) ==
    /\ call[c].pc \in {"done", "failed"} /\ Doing(c, {"cancel_order"})
    /\ Bump(call[c].key)
    /\ closed' = IF At(c, "done") /\ venue[call[c].key] = "gone"
                 THEN closed \cup {call[c].key} ELSE closed
    /\ call' = [call EXCEPT ![c] = NoCall]
    /\ UNCHANGED <<slot, holder, waiting, venue, told>>

PostReturns(c) ==
    /\ call[c].pc \in {"done", "failed"} /\ Doing(c, {"post_order"})
    /\ \/ call[c].key # NoKey /\ Bump(call[c].key)
       \/ call[c].key = NoKey /\ ClearCache
    /\ call' = [call EXCEPT ![c] = NoCall]
    /\ UNCHANGED <<slot, holder, waiting, venue, closed, told>>

-----------------------------------------------------------------------------
Begin(c) == BeginRead(c) \/ BeginCancel(c) \/ BeginPost(c)

Proceed(c) == \/ CacheHit(c) \/ CacheMiss(c) \/ ReadCall(c) \/ KeepStatus(c)
              \/ DiscardStatus(c) \/ CancelCall(c) \/ PostCall(c) \/ CallFails(c)
              \/ Retry(c) \/ CancelReturns(c) \/ PostReturns(c)

Next == \/ \E c \in Caller : \/ Begin(c) \/ Proceed(c)
                             \/ LockKey(c) \/ Acquire(c) \/ WaitedLong(c)
        \/ Rest

Spec == Init /\ [][Next]_vars

\* Callers that may begin a read that is promised an answer.
Reader == {c \in Caller : Allowed[c] \cap LifecycleRead # {}}

\* A call in the slot ends, because the SDK has timeouts, and time passes. A
\* thread whose wait is over again and again gets the slot, or the key lock, at
\* last: the condition and the locks wake every waiter. No call has to begin.
FairSpec == /\ Spec
            /\ WF_vars(Rest)
            /\ \A c \in Caller : WF_vars(Proceed(c)) /\ SF_vars(Acquire(c))
            /\ \A c \in Reader : WF_vars(WaitedLong(c)) /\ SF_vars(LockKey(c))

-----------------------------------------------------------------------------
(* Properties *)

\* Types; one caller at a time is in the slot, and one read of a key under way.
TypeOK ==
    /\ call \in [Caller -> Call]
    /\ slot \in Caller \cup {NoCaller}
    /\ \A c \in Caller : At(c, "calling") <=> slot = c
    /\ holder \in [Order -> Caller \cup {NoCaller}]
    /\ \A k \in Order : holder[k] # NoCaller =>
           call[holder[k]].key = k /\ call[holder[k]].pc \notin {"idle", "locking"}
    /\ starved \subseteq Caller /\ rested \in BOOLEAN
    /\ gens \in [Order -> Nat]
    /\ cache \in [Order -> Record \cup {NoRecord}]
    /\ venue \in [Order -> Status]
    /\ closed \subseteq Order
    /\ told \in [Caller -> [status : Status \cup {"none", "unknown"}, late : BOOLEAN]]

\* After a cancel that ended its order has returned, get_order never says LIVE:
\* not from the cache, and not from a read that was under way meanwhile. (The
\* table of generations must be large enough for every order.)
NotLiveAfterCancel ==
    \A c \in Caller : told[c].late => told[c].status # "live"

\* Every get_order is answered or raises, however many writers keep coming: one
\* that waits for the slot passes them, one that waits for the key lock gets it.
LifecycleReadServed ==
    \A c \in Reader : (Doing(c, LifecycleRead) /\ ~At(c, "idle")) ~> At(c, "idle")

-----------------------------------------------------------------------------
(* The inductive invariants behind the theorems of ClobTransportProofs *)

\* Where each method may be, and that only a read in its lock holds a key.
CallShape ==
    /\ \A c \in Caller :
          /\ At(c, "idle") <=> call[c].method = "none"
          /\ Doing(c, {"get_order", "cancel_order"}) => call[c].key \in Order
          /\ call[c].pc \in {"locking", "looking", "got"} => Doing(c, {"get_order"})
          /\ call[c].pc \in {"done", "failed"} => Doing(c, Write)
    /\ \A k \in Order : holder[k] # NoCaller => Doing(holder[k], {"get_order"})

\* A status kept or under way for a closed order is gone, or of an older generation.
GenerationsInv ==
    /\ \A o \in closed : venue[o] = "gone"
    /\ \A o \in Order : cache[o] # NoRecord =>
          /\ cache[o].gen <= gens[o]
          /\ o \in closed /\ cache[o].status = "live" => cache[o].gen < gens[o]
    /\ \A c \in Caller : Doing(c, {"get_order"}) =>
          /\ call[c].gen <= gens[call[c].key]
          /\ At(c, "got") /\ call[c].key \in closed /\ call[c].seen = "live"
                => call[c].gen < gens[call[c].key]

================================================================================
