----------------------------- MODULE MarketPipeline -----------------------------
(***************************************************************************)
(* From a published book to the seal of an order: the bounded event queue  *)
(* of each MarketWebSocketClient (src/market/websocket.py), the ingress,   *)
(* the market queue and the workers of TradingEngine (src/engine.py), and  *)
(* the configuration of markets by ApplicationRuntime (src/main.py).       *)
(*                                                                         *)
(* Ingress, configuration and the workers run in the event loop, so each   *)
(* action is the code between two awaits; the final validation runs in the *)
(* thread of the submission, under the lock of the current books.          *)
(*                                                                         *)
(* Simplifications:                                                        *)
(*  - the two books of a market are one: its version is the number of the  *)
(*    message that changed it last, and different versions are different   *)
(*    books even when they carry the same timestamp;                       *)
(*  - the connections of a client are the subject of MarketFeed;           *)
(*  - a market yields one candidate at most, from the books it was given,  *)
(*    and enrichment, which may await, is part of producing it;            *)
(*  - risk and admission are free choices; permits, orders and the rest    *)
(*    of the submission are the subject of PermitLedger;                   *)
(*  - close() of the engine is left out.                                   *)
(***************************************************************************)
EXTENDS Naturals, Sequences, SequencesExt

CONSTANTS Market, Client, Worker,
          NoClient, NoBooks,
          Status,           \* the market of an event that is not about a book
          EventCap,         \* capacity of a client's event queue
          QueueCap,         \* capacity of the market queue
          MarketSets,       \* the sets of markets that discovery may return
          MaxMessages       \* bound on the messages published

CurrentBooks == [ver : Nat, time : Nat, gen : Nat]

ASSUME BoundAssumption == /\ EventCap \in Nat \ {0} /\ QueueCap \in Nat \ {0}
                          /\ MaxMessages \in Nat
ASSUME NameAssumption == /\ NoClient \notin Client /\ Status \notin Market
                         /\ NoBooks \notin CurrentBooks
ASSUME SetAssumption == MarketSets \subseteq SUBSET Market

VARIABLES
    markets,    \* the configured markets
    feed,       \* the client of the runtime
    used,       \* clients that were started
    events,     \* client -> its queue of events
    books,      \* market -> the version and the time of its books in the store
    messages,   \* number of messages published so far
    clock,      \* the time of the last one
    ticking,    \* the time may still be the same for the next one
    cache,      \* market -> its books in the engine and their generation
    queue,      \* the market queue
    queued,     \* the markets that count as queued
    at,         \* worker -> where it is
    candidate,  \* worker -> the origin of its candidate, and whether its market
                \* stayed configured ever since (history)
    evaluated,  \* market -> version that a worker began with last (history)
    missed,     \* markets with a notification lost in a client (history)
    unqueued    \* markets with a wakeup lost by the engine (history)

runtime == <<markets, feed, used>>
source == <<books, messages, clock, ticking>>
engine == <<cache, queue, queued>>
workers == <<at, candidate>>
history == <<evaluated, missed, unqueued>>
vars == <<runtime, events, source, engine, workers, history>>

Nothing == [ver |-> 0, time |-> 0]
NoOrigin == [market |-> Status, ver |-> 0, time |-> 0, gen |-> 0, stayed |-> TRUE]

Init == /\ markets = {} /\ feed = NoClient /\ used = {}
        /\ events = [c \in Client |-> <<>>]
        /\ books = [m \in Market |-> Nothing]
        /\ messages = 0 /\ clock = 0 /\ ticking = FALSE
        /\ cache = [m \in Market |-> NoBooks]
        /\ queue = <<>> /\ queued = {}
        /\ at = [w \in Worker |-> "idle"]
        /\ candidate = [w \in Worker |-> NoOrigin]
        /\ evaluated = [m \in Market |-> 0]
        /\ missed = {} /\ unqueued = {}

Pending(m) == \E c \in Client : Contains(events[c], m)
Queued(m) == m \in queued

-----------------------------------------------------------------------------
(* The client *)

\* _emit(): when the queue is full its oldest event makes room.
Emit(c, m) ==
    LET full == Len(events[c]) = EventCap
        kept == IF full THEN Tail(events[c]) ELSE events[c]
        dropped == IF full THEN {Head(events[c])} ELSE {}
    IN  /\ events' = [events EXCEPT ![c] = Append(kept, m)]
        /\ missed' = missed \cup {d \in dropped : d \in Market /\ ~Contains(kept, d) /\ d # m}

\* A message changes the books of a market and is announced.
Publish(m) ==
    /\ feed # NoClient /\ m \in markets
    /\ messages < MaxMessages
    /\ messages' = messages + 1
    /\ \E now \in {clock, clock + 1} :
           /\ now = clock => ticking
           /\ clock' = now
           /\ books' = [books EXCEPT ![m] = [ver |-> messages + 1, time |-> now]]
    /\ ticking' = TRUE
    /\ Emit(feed, m)
    /\ UNCHANGED <<runtime, engine, workers, evaluated, unqueued>>

\* A change of the connection is announced in the same queue.
ConnectionEvent ==
    /\ feed # NoClient
    /\ Emit(feed, Status)
    /\ UNCHANGED <<runtime, source, engine, workers, evaluated, unqueued>>

-----------------------------------------------------------------------------
(* Ingress of the engine *)

\* _refresh_current_cache_sync(): new books begin a new generation.
Generation(m) == IF cache[m] = NoBooks THEN 0 ELSE cache[m].gen

Refreshed(m) ==
    [ver |-> books[m].ver, time |-> books[m].time,
     gen |-> IF cache[m] # NoBooks /\ cache[m].ver = books[m].ver
             THEN Generation(m) ELSE Generation(m) + 1]

Refresh(m) == cache' = [cache EXCEPT ![m] = Refreshed(m)]

RefreshUnlessQueued(m) ==
    cache' = [cache EXCEPT ![m] = IF Queued(m) THEN @ ELSE Refreshed(m)]
RefreshAtIngress(m) == Refresh(m)

Enqueue(m) ==
    \/ /\ Queued(m)
       /\ UNCHANGED <<queue, queued, unqueued>>
    \/ /\ ~Queued(m) /\ Len(queue) < QueueCap
       /\ queue' = Append(queue, m)
       /\ queued' = queued \cup {m}
       /\ unqueued' = unqueued \ {m}
    \/ /\ ~Queued(m) /\ Len(queue) = QueueCap
       /\ unqueued' = unqueued \cup {m}
       /\ UNCHANGED <<queue, queued>>

\* The event worker of a client calls handle_market_event(). It also does so when
\* its client was abandoned in a rotation.
ServesItsRun(c) == c = feed /\ events[c] # <<>>
Serves(c) == events[c] # <<>>

Deliver(c) ==
    /\ Serves(c)
    /\ events' = [events EXCEPT ![c] = Tail(@)]
    /\ LET m == Head(events[c])
       IN  IF m \in markets
           THEN /\ RefreshAtIngress(m)
                /\ Enqueue(m)
                /\ missed' = missed \ {m}
           ELSE UNCHANGED <<engine, missed, unqueued>>
    /\ UNCHANGED <<runtime, source, workers, evaluated>>

-----------------------------------------------------------------------------
(* Workers *)

\* A worker takes a market off the queue, and with it the books of this moment.
\* The market may have been removed meanwhile: that error is swallowed.
Skip(w) == UNCHANGED <<workers, cache, history>>

Evaluate(w, m) ==
    /\ Refresh(m)
    /\ candidate' = [candidate EXCEPT ![w] = [market |-> m, ver |-> books[m].ver,
                                              time |-> books[m].time,
                                              gen |-> Refreshed(m).gen,
                                              stayed |-> TRUE]]
    /\ at' = [at EXCEPT ![w] = "generating"]
    /\ evaluated' = [evaluated EXCEPT ![m] = books[m].ver]
    /\ missed' = missed \ {m}
    /\ unqueued' = unqueued \ {m}

\* The market no longer counts as queued before its books are read.
DequeueOnly == queue' = Tail(queue) /\ UNCHANGED queued
Dequeue == queue' = Tail(queue) /\ queued' = queued \ {Head(queue)}

Take(w) ==
    /\ at[w] = "idle"
    /\ queue # <<>>
    /\ Dequeue
    /\ IF Head(queue) \in markets THEN Evaluate(w, Head(queue)) ELSE Skip(w)
    /\ UNCHANGED <<runtime, events, source>>

Step(w, from, to) == /\ at[w] = from
                     /\ at' = [at EXCEPT ![w] = to]
                     /\ UNCHANGED <<runtime, events, source, engine, history>>

Discard(w) == candidate' = [candidate EXCEPT ![w] = NoOrigin]

\* The producer has a candidate, or has none or fails.
Propose(w) == Step(w, "generating", "waiting") /\ UNCHANGED candidate
NoCandidate(w) == Step(w, "generating", "idle") /\ Discard(w)

\* The current books are those of the candidate, as far as the code can tell.
SameTimes(w) == LET now == cache[candidate[w].market]
                IN  now # NoBooks /\ now.time = candidate[w].time
SameGeneration(w) == LET now == cache[candidate[w].market]
                     IN  now # NoBooks /\ now.gen = candidate[w].gen
Matches(w) == LET now == cache[candidate[w].market]
              IN  /\ now # NoBooks
                  /\ now.time = candidate[w].time
                  /\ now.gen = candidate[w].gen

\* The portfolio lock is held from the commit to the end of the submission.
LockedToCommit == \E w \in Worker : at[w] = "committing"
Locked == \E w \in Worker : at[w] \in {"committing", "sealed"}

Commit(w) == /\ at[w] = "waiting" /\ ~Locked /\ Matches(w)
             /\ Step(w, "waiting", "committing")
             /\ UNCHANGED candidate

\* Stale, denied, deferred or failed.
Refuse(w) == /\ ~Locked
             /\ Step(w, "waiting", "idle")
             /\ Discard(w)

\* The validator of the transport reads the current books once more.
Seal(w) == /\ at[w] = "committing" /\ Matches(w)
           /\ Step(w, "committing", "sealed")
           /\ UNCHANGED candidate
FailToSeal(w) == Step(w, "committing", "idle") /\ Discard(w)

Submitted(w) == Step(w, "sealed", "idle") /\ Discard(w)

-----------------------------------------------------------------------------
(* Rotation by the runtime *)

\* The client is stopped: its event worker drains for a while, and what is left is
\* discarded. Or it does not stop in time and is cancelled, wherever it is: then its
\* event worker goes on.
StopFeed ==
    /\ feed # NoClient
    /\ feed' = NoClient
    /\ \/ UNCHANGED <<events, missed>>
       \/ /\ events' = [events EXCEPT ![feed] = <<>>]
          /\ missed' = missed \cup {m \in Market : Contains(events[feed], m)}
    /\ UNCHANGED <<markets, used, source, engine, workers, evaluated, unqueued>>

\* The markets are configured: the books of those that left are dropped, and their
\* generations with them. A new client is started if there are markets.
Configure(new) ==
    /\ markets' = new
    /\ cache' = [m \in Market |-> IF m \in new THEN cache[m] ELSE NoBooks]
    /\ evaluated' = [m \in Market |-> IF m \in new THEN evaluated[m] ELSE books[m].ver]
    /\ missed' = missed \cap new
    /\ unqueued' = unqueued \cap new
    /\ candidate' = [w \in Worker |-> [candidate[w] EXCEPT
                         !.stayed = @ /\ candidate[w].market \in new \cup {Status}]]
    /\ UNCHANGED <<queue, queued, at, events>>

StartFeed ==
    /\ feed = NoClient
    /\ \E new \in MarketSets :
           /\ new # markets \/ new # {}
           /\ Configure(new)
           /\ \/ new = {} /\ UNCHANGED <<feed, used>>
              \/ \E c \in Client \ used :
                     new # {} /\ feed' = c /\ used' = used \cup {c}
    /\ ticking' = FALSE
    /\ UNCHANGED <<books, messages, clock>>

-----------------------------------------------------------------------------
Works(w) == \/ Take(w) \/ Propose(w) \/ NoCandidate(w) \/ Commit(w) \/ Refuse(w)
            \/ Seal(w) \/ FailToSeal(w) \/ Submitted(w)

Next == \/ \E m \in Market : Publish(m)
        \/ ConnectionEvent
        \/ \E c \in Client : Deliver(c)
        \/ \E w \in Worker : Works(w)
        \/ StopFeed \/ StartFeed

Spec == Init /\ [][Next]_vars

\* The tasks of the event loop go on when they can, and so does the thread of a
\* submission: producers, transport and policy answer or fail.
FairSpec == /\ Spec
            /\ \A c \in Client : WF_vars(Deliver(c))
            /\ \A w \in Worker : WF_vars(Works(w))

-----------------------------------------------------------------------------
(* Properties *)

Books == [ver : 0..MaxMessages, time : 0..MaxMessages]
Origin == [market : Market \cup {Status}, ver : Nat, time : Nat, gen : Nat, stayed : BOOLEAN]
Place == {"idle", "generating", "waiting", "committing", "sealed"}

\* Types; queues keep their bounds and no market is queued twice, and at most one
\* submission is under way.
TypeOK ==
    /\ markets \subseteq Market
    /\ used \subseteq Client /\ feed \in used \cup {NoClient}
    /\ events \in [Client -> Seq(Market \cup {Status})]
    /\ \A c \in Client : Len(events[c]) <= EventCap
    /\ books \in [Market -> Books]
    /\ messages \in 0..MaxMessages /\ clock \in 0..messages /\ ticking \in BOOLEAN
    /\ cache \in [Market -> CurrentBooks \cup {NoBooks}]
    /\ queue \in Seq(Market) /\ Len(queue) <= QueueCap /\ IsInjective(queue)
    /\ queued = ToSet(queue)
    /\ at \in [Worker -> Place] /\ candidate \in [Worker -> Origin]
    /\ \A v, w \in Worker : {at[v], at[w]} \subseteq {"committing", "sealed"} => v = w
    /\ evaluated \in [Market -> 0..MaxMessages]
    /\ missed \subseteq markets /\ unqueued \subseteq markets

\* The books of m changed since a worker evaluated them, or since m was configured.
Due(m) == m \in markets /\ evaluated[m] < books[m].ver

\* A market whose books changed is queued, or announced in a client's queue, or lost
\* to a full queue or a discarded one: coalescing and rotation lose no wakeup.
WakeupKept == \A m \in Market : Due(m) => \/ Contains(queue, m) \/ Pending(m)
                                          \/ m \in missed \cup unqueued

\* The engine's current books, which both validations read, fall behind the store
\* only while an announcement is on its way or was dropped, however long the market
\* waits for a worker, and also when its wakeup is lost.
CacheFollowsStore ==
    \A m \in Market : /\ Due(m)
                      /\ cache[m] = NoBooks \/ cache[m].ver # books[m].ver
                      => Pending(m) \/ m \in missed

\* An order is sealed from the books that are current for the engine, although two
\* messages may carry the same time, and a market that returns after a rotation
\* counts generations from 1 again: only both together can be mistaken.
SealedFromCurrentBooks ==
    [][\A w \in Worker : at[w] # "sealed" /\ at'[w] = "sealed" =>
           LET origin == candidate[w]
               now == cache[origin.market]
           IN  /\ origin.market \in markets
               /\ \/ now.ver = origin.ver
                  \/ ~origin.stayed /\ now.time = origin.time]_vars

\* Every change is evaluated, unless it is lost or its market goes.
ChangeEvaluated ==
    \A m \in Market : Due(m) ~> ~Due(m) \/ m \in missed \cup unqueued

=================================================================================
