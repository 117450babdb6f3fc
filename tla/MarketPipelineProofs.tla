------------------------- MODULE MarketPipelineProofs -------------------------
(* Proofs about MarketPipeline, for every set of markets, clients and workers, *)
(* any capacity of the queues and any number of messages.                      *)
EXTENDS MarketPipeline, TLAPS

-----------------------------------------------------------------------------
(* Sequences *)

LEMMA ContainsAppend ==
  ASSUME NEW S, NEW s \in Seq(S), NEW e \in S, NEW d
  PROVE  Contains(Append(s, e), d) <=> Contains(s, d) \/ d = e
<1>1. /\ Len(Append(s, e)) = Len(s) + 1 /\ Len(s) \in Nat
      /\ Append(s, e)[Len(s) + 1] = e
      /\ \A i \in 1..Len(s) : Append(s, e)[i] = s[i]
  OBVIOUS
<1> QED BY <1>1 DEF Contains

LEMMA ContainsTail ==
  ASSUME NEW S, NEW s \in Seq(S), s # <<>>, NEW d
  PROVE  Contains(s, d) <=> d = Head(s) \/ Contains(Tail(s), d)
<1>1. /\ Len(Tail(s)) = Len(s) - 1 /\ Len(s) \in Nat \ {0}
      /\ Head(s) = s[1] /\ Tail(s) \in Seq(S) /\ Head(s) \in S
      /\ \A i \in 1..(Len(s) - 1) : Tail(s)[i] = s[i + 1]
  OBVIOUS
<1>2. ASSUME NEW i \in 1..Len(s), s[i] = d
      PROVE  d = Head(s) \/ Contains(Tail(s), d)
  <2>1. CASE i = 1
    BY <1>1, <1>2, <2>1
  <2>2. CASE i # 1
    <3>1. i - 1 \in 1..Len(Tail(s)) /\ Tail(s)[i - 1] = s[i]
      BY <1>1, <2>2
    <3> QED BY <1>2, <3>1 DEF Contains
  <2> QED BY <2>1, <2>2
<1>3. ASSUME NEW i \in 1..Len(Tail(s)), Tail(s)[i] = d
      PROVE  Contains(s, d)
  <2>1. i + 1 \in 1..Len(s) /\ s[i + 1] = d
    BY <1>1, <1>3
  <2> QED BY <2>1 DEF Contains
<1>4. Contains(s, Head(s))
  <2>1. 1 \in 1..Len(s)
    BY <1>1
  <2> QED BY <1>1, <2>1 DEF Contains
<1> QED BY <1>2, <1>3, <1>4 DEF Contains

LEMMA ContainsSet ==
  ASSUME NEW S, NEW s \in Seq(S), NEW d
  PROVE  Contains(s, d) <=> d \in ToSet(s)
<1>1. DOMAIN s = 1..Len(s)
  OBVIOUS
<1> QED BY <1>1 DEF Contains, ToSet

LEMMA InjectiveAppend ==
  ASSUME NEW S, NEW s \in Seq(S), NEW e \in S, IsInjective(s), ~Contains(s, e)
  PROVE  IsInjective(Append(s, e)) /\ ToSet(Append(s, e)) = ToSet(s) \cup {e}
<1>1. /\ DOMAIN s = 1..Len(s) /\ DOMAIN Append(s, e) = 1..(Len(s) + 1) /\ Len(s) \in Nat
      /\ Append(s, e)[Len(s) + 1] = e
      /\ \A i \in 1..Len(s) : Append(s, e)[i] = s[i]
  OBVIOUS
<1>2. IsInjective(Append(s, e))
  BY <1>1 DEF IsInjective, Contains
<1>3. Append(s, e) \in Seq(S)
  OBVIOUS
<1>4. ASSUME NEW d
      PROVE  d \in ToSet(Append(s, e)) <=> d \in ToSet(s) \/ d = e
  <2>1. d \in ToSet(Append(s, e)) <=> Contains(Append(s, e), d)
    BY <1>3, ContainsSet
  <2>2. d \in ToSet(s) <=> Contains(s, d)
    BY ContainsSet
  <2> QED BY <2>1, <2>2, ContainsAppend
<1> QED BY <1>2, <1>4

LEMMA InjectiveTail ==
  ASSUME NEW S, NEW s \in Seq(S), s # <<>>, IsInjective(s)
  PROVE  IsInjective(Tail(s)) /\ ToSet(Tail(s)) = ToSet(s) \ {Head(s)}
<1>1. /\ Len(Tail(s)) = Len(s) - 1 /\ Len(s) \in Nat \ {0} /\ Tail(s) \in Seq(S)
      /\ Head(s) = s[1] /\ DOMAIN s = 1..Len(s) /\ DOMAIN Tail(s) = 1..(Len(s) - 1)
      /\ \A i \in 1..(Len(s) - 1) : Tail(s)[i] = s[i + 1]
  OBVIOUS
<1>2. ASSUME NEW i \in 1..(Len(s) - 1), NEW j \in 1..(Len(s) - 1), Tail(s)[i] = Tail(s)[j]
      PROVE  i = j
  <2>1. i + 1 \in DOMAIN s /\ j + 1 \in DOMAIN s /\ s[i + 1] = s[j + 1]
    BY <1>1, <1>2
  <2>2. i + 1 = j + 1
    BY <2>1 DEF IsInjective
  <2> QED BY <2>2
<1>3. IsInjective(Tail(s))
  BY <1>1, <1>2 DEF IsInjective
<1>4. ~Contains(Tail(s), Head(s))
  <2>1. ASSUME NEW i \in 1..(Len(s) - 1), Tail(s)[i] = s[1]
        PROVE  FALSE
    <3>1. i + 1 \in DOMAIN s /\ 1 \in DOMAIN s /\ s[i + 1] = s[1]
      BY <1>1, <2>1
    <3>2. i + 1 = 1
      BY <3>1 DEF IsInjective
    <3> QED BY <3>2
  <2> QED BY <1>1, <2>1 DEF Contains
<1>5. \A d : d \in ToSet(Tail(s)) <=> d \in ToSet(s) /\ d # Head(s)
  BY <1>1, <1>4, ContainsSet, ContainsTail
<1> QED BY <1>3, <1>5

-----------------------------------------------------------------------------
(* The invariant *)

\* The queue of a client that was never started is empty, and that of the runtime's
\* client announces configured markets only.
FeedInv ==
    /\ \A c \in Client \ used : events[c] = <<>>
    /\ feed # NoClient => \A m \in Market : Contains(events[feed], m) => m \in markets

\* The engine has no books of a market that is not configured.
CacheInv == \A m \in Market : cache[m] # NoBooks => m \in markets

\* While its market stays configured, a candidate is not newer than the current books,
\* and if its generation is the current one so are its books.
OriginInv ==
    \A w \in Worker : at[w] # "idle" =>
        LET origin == candidate[w]
            now == cache[origin.market]
        IN  /\ origin.market \in Market
            /\ origin.stayed => /\ now # NoBooks /\ origin.gen <= now.gen
                                /\ origin.gen = now.gen => origin.ver = now.ver

\* Nothing is due when a market is configured.
ConfiguredInv == \A m \in Market \ markets : evaluated[m] = books[m].ver

Inv == /\ TypeOK /\ FeedInv /\ CacheInv /\ OriginInv /\ ConfiguredInv
       /\ WakeupKept /\ CacheFollowsStore

-----------------------------------------------------------------------------
(* Effects *)

LEMMA EmitEffect ==
  ASSUME TypeOK, FeedInv, feed # NoClient, NEW e \in Market \cup {Status},
         e \in Market => e \in markets, Emit(feed, e)
  PROVE  /\ events' \in [Client -> Seq(Market \cup {Status})]
         /\ \A c \in Client : Len(events'[c]) <= EventCap
         /\ \A c \in Client : c # feed => events'[c] = events[c]
         /\ \A m \in Market : Contains(events'[feed], m) => m \in markets
         /\ missed \subseteq missed' /\ missed' \subseteq markets
         /\ \A m \in Market : Pending(m) \/ m = e => Pending(m)' \/ m \in missed'
<1> DEFINE Event == Market \cup {Status}
           full == Len(events[feed]) = EventCap
           kept == IF full THEN Tail(events[feed]) ELSE events[feed]
           dropped == IF full THEN {Head(events[feed])} ELSE {}
<1>1. /\ events' = [events EXCEPT ![feed] = Append(kept, e)]
      /\ missed' = missed \cup {d \in dropped : d \in Market /\ ~Contains(kept, d) /\ d # e}
  BY DEF Emit
<1>2. /\ feed \in Client /\ events[feed] \in Seq(Event) /\ Len(events[feed]) <= EventCap
      /\ Len(events[feed]) \in Nat /\ EventCap \in Nat \ {0}
  BY BoundAssumption DEF TypeOK
<1>3. /\ kept \in Seq(Event) /\ Len(kept) + 1 <= EventCap
      /\ \A d : Contains(events[feed], d) <=> Contains(kept, d) \/ d \in dropped
  <2>1. CASE full
    <3>1. events[feed] # <<>>
      BY <1>2, <2>1
    <3>2. Tail(events[feed]) \in Seq(Event) /\ Len(Tail(events[feed])) = Len(events[feed]) - 1
      BY <1>2, <3>1
    <3>3. \A d : Contains(events[feed], d) <=> d = Head(events[feed]) \/ Contains(Tail(events[feed]), d)
      BY <1>2, <3>1, ContainsTail
    <3> QED BY <1>2, <2>1, <3>2, <3>3
  <2>2. CASE ~full
    BY <1>2, <2>2
  <2> QED BY <2>1, <2>2
<1>4. /\ Append(kept, e) \in Seq(Event) /\ Len(Append(kept, e)) <= EventCap
  <2> HIDE DEF kept, dropped
  <2> QED BY <1>2, <1>3
<1>5. \A d : Contains(Append(kept, e), d) <=> Contains(kept, d) \/ d = e
  <2> HIDE DEF kept, dropped
  <2> QED BY <1>3, ContainsAppend
<1> HIDE DEF kept, dropped
<1>6. /\ events' \in [Client -> Seq(Event)] /\ events'[feed] = Append(kept, e)
      /\ \A c \in Client : c # feed => events'[c] = events[c]
  BY <1>1, <1>2, <1>4 DEF TypeOK
<1>7. \A c \in Client : Len(events'[c]) <= EventCap
  BY <1>4, <1>6 DEF TypeOK
<1>8. \A m \in Market : Contains(events'[feed], m) => m \in markets
  BY <1>3, <1>5, <1>6 DEF FeedInv
<1>9. missed \subseteq missed' /\ missed' \subseteq markets
  BY <1>1, <1>3 DEF FeedInv, TypeOK
<1>10. ASSUME NEW m \in Market, Pending(m) \/ m = e
       PROVE  Pending(m)' \/ m \in missed'
  <2>1. CASE Contains(events[feed], m) \/ m = e
    BY <1>1, <1>2, <1>3, <1>5, <1>6, <2>1 DEF Pending
  <2>2. CASE ~(Contains(events[feed], m) \/ m = e)
    BY <1>6, <1>10, <2>2 DEF Pending
  <2> QED BY <2>1, <2>2
<1> QED BY <1>6, <1>7, <1>8, <1>9, <1>10

\* New books begin a new generation, and the books of the other markets stay.
LEMMA RefreshEffect ==
  ASSUME TypeOK, NEW m \in Market, Refresh(m)
  PROVE  /\ cache' \in [Market -> CurrentBooks \cup {NoBooks}]
         /\ \A n \in Market : n # m => cache'[n] = cache[n]
         /\ cache'[m] = Refreshed(m) /\ cache'[m] # NoBooks
         /\ cache'[m].ver = books[m].ver /\ cache'[m].time = books[m].time
         /\ cache[m] # NoBooks => /\ cache[m].gen <= cache'[m].gen
                                  /\ cache[m].gen = cache'[m].gen => cache[m].ver = cache'[m].ver
<1>1. books[m].ver \in Nat /\ books[m].time \in Nat
  BY BoundAssumption DEF TypeOK, Books
<1>2. cache[m] # NoBooks => cache[m] \in CurrentBooks
  BY DEF TypeOK
<1>3. Generation(m) \in Nat
  BY <1>2 DEF Generation, CurrentBooks
<1>4. Refreshed(m) \in CurrentBooks
  BY <1>1, <1>3 DEF Refreshed, CurrentBooks
<1>5. /\ cache' = [cache EXCEPT ![m] = Refreshed(m)]
      /\ cache'[m] = Refreshed(m)
  BY DEF Refresh, TypeOK
<1>6. cache[m] # NoBooks => /\ cache[m].gen <= Refreshed(m).gen
                            /\ cache[m].gen = Refreshed(m).gen => cache[m].ver = Refreshed(m).ver
  BY <1>2, <1>3 DEF Refreshed, Generation, CurrentBooks
<1> QED BY <1>4, <1>5, <1>6, NameAssumption DEF TypeOK, Refreshed

LEMMA RefreshKeepsOrigins ==
  ASSUME TypeOK, OriginInv, NEW m \in Market, Refresh(m), NEW w \in Worker,
         at[w] # "idle"
  PROVE  LET origin == candidate[w]
             now == cache'[origin.market]
         IN  /\ origin.market \in Market
             /\ origin.stayed => /\ now # NoBooks /\ origin.gen <= now.gen
                                 /\ origin.gen = now.gen => origin.ver = now.ver
<1> DEFINE origin == candidate[w]
<1>1. /\ origin.market \in Market /\ origin.gen \in Nat /\ origin.ver \in Nat
      /\ origin.stayed => /\ cache[origin.market] # NoBooks
                          /\ origin.gen <= cache[origin.market].gen
                          /\ origin.gen = cache[origin.market].gen => origin.ver = cache[origin.market].ver
  BY DEF OriginInv, TypeOK, Origin
<1>2. CASE origin.market # m
  BY <1>1, <1>2, RefreshEffect
<1>3. CASE origin.market = m
  <2>1. cache[m] # NoBooks => cache[m].gen \in Nat /\ cache[m].ver \in Nat
    BY DEF TypeOK, CurrentBooks
  <2>2. cache'[m] # NoBooks /\ cache'[m].gen \in Nat
    BY RefreshEffect DEF CurrentBooks
  <2>3. cache[m] # NoBooks => /\ cache[m].gen <= cache'[m].gen
                              /\ cache[m].gen = cache'[m].gen => cache[m].ver = cache'[m].ver
    BY RefreshEffect
  <2> QED BY <1>1, <1>3, <2>1, <2>2, <2>3
<1> QED BY <1>2, <1>3

LEMMA EnqueueEffect ==
  ASSUME TypeOK, NEW m \in markets, Enqueue(m)
  PROVE  /\ queue' \in Seq(Market) /\ Len(queue') <= QueueCap
         /\ IsInjective(queue') /\ queued' = ToSet(queue')
         /\ \A n : Contains(queue, n) => Contains(queue', n)
         /\ unqueued' \subseteq markets
         /\ \A n : n \in unqueued => n \in unqueued' \/ Contains(queue', n)
         /\ Contains(queue', m) \/ m \in unqueued'
<1>1. /\ m \in Market /\ queue \in Seq(Market) /\ Len(queue) <= QueueCap /\ IsInjective(queue)
      /\ queued = ToSet(queue) /\ unqueued \subseteq markets /\ Len(queue) \in Nat
  BY DEF TypeOK
<1>2. Contains(queue, m) <=> m \in queued
  BY <1>1, ContainsSet
<1>3. CASE Queued(m) /\ UNCHANGED <<queue, queued, unqueued>>
  BY <1>1, <1>2, <1>3 DEF Queued
<1>4. CASE /\ ~Queued(m) /\ Len(queue) < QueueCap
           /\ queue' = Append(queue, m) /\ queued' = queued \cup {m}
           /\ unqueued' = unqueued \ {m}
  <2>1. Append(queue, m) \in Seq(Market) /\ Len(Append(queue, m)) <= QueueCap
    BY <1>1, <1>4, BoundAssumption
  <2>2. IsInjective(Append(queue, m)) /\ ToSet(Append(queue, m)) = ToSet(queue) \cup {m}
    BY <1>1, <1>2, <1>4, InjectiveAppend DEF Queued
  <2>3. \A n : Contains(Append(queue, m), n) <=> Contains(queue, n) \/ n = m
    BY <1>1, ContainsAppend
  <2> QED BY <1>1, <1>4, <2>1, <2>2, <2>3
<1>5. CASE /\ ~Queued(m) /\ Len(queue) = QueueCap
           /\ unqueued' = unqueued \cup {m} /\ UNCHANGED <<queue, queued>>
  BY <1>1, <1>5
<1> QED BY <1>3, <1>4, <1>5 DEF Enqueue

LEMMA DequeueEffect ==
  ASSUME TypeOK, queue # <<>>, Dequeue
  PROVE  /\ Head(queue) \in Market
         /\ queue' \in Seq(Market) /\ Len(queue') <= QueueCap
         /\ IsInjective(queue') /\ queued' = ToSet(queue')
         /\ \A n : Contains(queue, n) => n = Head(queue) \/ Contains(queue', n)
<1>1. /\ queue \in Seq(Market) /\ Len(queue) <= QueueCap /\ IsInjective(queue)
      /\ queued = ToSet(queue)
  BY DEF TypeOK
<1>2. /\ Head(queue) \in Market /\ Tail(queue) \in Seq(Market)
      /\ Len(Tail(queue)) = Len(queue) - 1 /\ Len(queue) \in Nat
  BY <1>1
<1>3. IsInjective(Tail(queue)) /\ ToSet(Tail(queue)) = ToSet(queue) \ {Head(queue)}
  BY <1>1, InjectiveTail
<1>4. \A n : Contains(queue, n) <=> n = Head(queue) \/ Contains(Tail(queue), n)
  BY <1>1, ContainsTail
<1> QED BY <1>1, <1>2, <1>3, <1>4, BoundAssumption DEF Dequeue

-----------------------------------------------------------------------------
(* Steps *)

LEMMA InitHolds == Init => Inv
<1> SUFFICES ASSUME Init PROVE Inv
  OBVIOUS
<1> USE BoundAssumption, NameAssumption DEF Init
<1>1. TypeOK
  <2>1. <<>> \in Seq(Market) /\ <<>> \in Seq(Market \cup {Status}) /\ Len(<<>>) = 0
    OBVIOUS
  <2>2. IsInjective(<<>>) /\ ToSet(<<>>) = {}
    BY DEF IsInjective, ToSet
  <2>3. NoOrigin \in Origin /\ Nothing \in Books
    BY DEF NoOrigin, Origin, Nothing, Books
  <2>4. /\ events \in [Client -> Seq(Market \cup {Status})]
        /\ \A c \in Client : Len(events[c]) <= EventCap
    BY <2>1
  <2>5. \A v, w \in Worker : {at[v], at[w]} \subseteq {"committing", "sealed"} => v = w
    <3>1. \A w \in Worker : at[w] \notin {"committing", "sealed"}
      OBVIOUS
    <3> QED BY <3>1
  <2>6. queue \in Seq(Market) /\ Len(queue) <= QueueCap /\ IsInjective(queue) /\ queued = ToSet(queue)
    BY <2>1, <2>2
  <2>7. /\ books \in [Market -> Books] /\ evaluated \in [Market -> 0..MaxMessages]
        /\ cache \in [Market -> CurrentBooks \cup {NoBooks}]
        /\ at \in [Worker -> Place] /\ candidate \in [Worker -> Origin]
    BY <2>3 DEF Place
  <2>8. messages \in 0..MaxMessages /\ clock \in 0..messages /\ ticking \in BOOLEAN
    <3>1. messages = 0 /\ clock = 0
      OBVIOUS
    <3>2. messages \in 0..MaxMessages /\ clock \in 0..messages
      BY ONLY <3>1, BoundAssumption
    <3>3. ticking \in BOOLEAN
      OBVIOUS
    <3> QED BY <3>2, <3>3
  <2>9. markets \subseteq Market /\ used \subseteq Client /\ feed \in used \cup {NoClient}
    OBVIOUS
  <2> QED BY <2>4, <2>5, <2>6, <2>7, <2>8, <2>9 DEF TypeOK
<1>2. FeedInv /\ CacheInv /\ OriginInv
  BY DEF FeedInv, CacheInv, OriginInv
<1>3. ConfiguredInv /\ WakeupKept /\ CacheFollowsStore
  BY DEF ConfiguredInv, WakeupKept, CacheFollowsStore, Due, Nothing
<1> QED BY <1>1, <1>2, <1>3 DEF Inv

\* An event goes into the queue of the runtime's client; books may change with it.
LEMMA EmitStep ==
  ASSUME Inv, feed # NoClient, NEW e \in Market \cup {Status},
         e \in Market => e \in markets, Emit(feed, e),
         books' \in [Market -> Books], \A m \in Market : m # e => books'[m] = books[m],
         messages' \in 0..MaxMessages, clock' \in 0..messages', ticking' \in BOOLEAN,
         UNCHANGED <<runtime, engine, workers, evaluated, unqueued>>
  PROVE  Inv'
<1> USE DEF Inv, runtime, engine, workers
<1>1. /\ events' \in [Client -> Seq(Market \cup {Status})]
      /\ \A c \in Client : Len(events'[c]) <= EventCap
      /\ \A c \in Client : c # feed => events'[c] = events[c]
      /\ \A m \in Market : Contains(events'[feed], m) => m \in markets
      /\ missed \subseteq missed' /\ missed' \subseteq markets
      /\ \A m \in Market : Pending(m) \/ m = e => Pending(m)' \/ m \in missed'
  BY EmitEffect
<1>2. TypeOK'
  BY <1>1 DEF TypeOK
<1>3. FeedInv'
  BY <1>1 DEF FeedInv, TypeOK
<1>4. CacheInv' /\ OriginInv' /\ ConfiguredInv'
  BY DEF CacheInv, OriginInv, ConfiguredInv
<1>5. ASSUME NEW m \in Market
      PROVE  (Due(m)' => m = e \/ Due(m)) /\ (m # e => books'[m] = books[m])
  BY DEF Due
<1>6. WakeupKept'
  BY <1>1, <1>5 DEF WakeupKept
<1>7. CacheFollowsStore'
  BY <1>1, <1>5 DEF CacheFollowsStore
<1> QED BY <1>2, <1>3, <1>4, <1>6, <1>7

LEMMA PublishStep ==
  ASSUME Inv, NEW m \in Market, Publish(m)
  PROVE  Inv'
<1>1. PICK now \in {clock, clock + 1} :
         books' = [books EXCEPT ![m] = [ver |-> messages + 1, time |-> now]] /\ clock' = now
  BY DEF Publish
<1>2. /\ messages \in Nat /\ messages < MaxMessages /\ messages' = messages + 1
      /\ clock \in 0..messages /\ ticking' = TRUE
  BY BoundAssumption DEF Publish, Inv, TypeOK
<1>3. [ver |-> messages + 1, time |-> now] \in Books
  BY <1>1, <1>2, BoundAssumption DEF Books
<1>4. /\ books' \in [Market -> Books] /\ messages' \in 0..MaxMessages /\ clock' \in 0..messages'
      /\ \A n \in Market : n # m => books'[n] = books[n]
  BY <1>1, <1>2, <1>3, BoundAssumption DEF Inv, TypeOK
<1> QED BY <1>2, <1>4, EmitStep DEF Publish

LEMMA ConnectionStep ==
  ASSUME Inv, ConnectionEvent
  PROVE  Inv'
<1>1. /\ books' \in [Market -> Books] /\ messages' \in 0..MaxMessages
      /\ clock' \in 0..messages' /\ ticking' \in BOOLEAN
      /\ \A m \in Market : m # Status => books'[m] = books[m]
  BY DEF ConnectionEvent, source, Inv, TypeOK
<1> QED BY <1>1, EmitStep, NameAssumption DEF ConnectionEvent

LEMMA DeliverStep ==
  ASSUME Inv, NEW c \in Client, Deliver(c)
  PROVE  Inv'
<1> USE DEF Inv, runtime, engine, workers
<1> DEFINE e == Head(events[c])
<1>1. /\ events[c] # <<>> /\ events[c] \in Seq(Market \cup {Status})
      /\ events' = [events EXCEPT ![c] = Tail(events[c])]
      /\ UNCHANGED <<runtime, source, workers, evaluated>>
  BY DEF Deliver, Serves, TypeOK
<1>2. /\ e \in Market \cup {Status} /\ Tail(events[c]) \in Seq(Market \cup {Status})
      /\ Len(Tail(events[c])) <= EventCap
  BY <1>1, BoundAssumption DEF TypeOK
<1>3. \A d : Contains(events[c], d) <=> d = e \/ Contains(Tail(events[c]), d)
  BY <1>1, ContainsTail
<1>4. /\ events' \in [Client -> Seq(Market \cup {Status})]
      /\ \A k \in Client : Len(events'[k]) <= EventCap
      /\ events'[c] = Tail(events[c])
      /\ \A k \in Client \ {c} : events'[k] = events[k]
  BY <1>1, <1>2 DEF TypeOK
<1> HIDE DEF e
<1>5. FeedInv'
  BY <1>1, <1>3, <1>4 DEF FeedInv, TypeOK
<1>6. \A m \in Market : Pending(m) => Pending(m)' \/ m = e
  BY <1>3, <1>4 DEF Pending
<1>7. ConfiguredInv'
  BY <1>1 DEF ConfiguredInv, source
<1>8. \A m \in Market : Due(m)' <=> Due(m)
  BY <1>1 DEF Due, source
<1>9. CASE e \in markets
  <2>1. e \in Market /\ Refresh(e) /\ Enqueue(e) /\ missed' = missed \ {e}
    BY <1>9 DEF Deliver, e, RefreshAtIngress, TypeOK
  <2>2. /\ queue' \in Seq(Market) /\ Len(queue') <= QueueCap
        /\ IsInjective(queue') /\ queued' = ToSet(queue')
        /\ \A n : Contains(queue, n) => Contains(queue', n)
        /\ unqueued' \subseteq markets
        /\ \A n : n \in unqueued => n \in unqueued' \/ Contains(queue', n)
        /\ Contains(queue', e) \/ e \in unqueued'
    BY <1>9, <2>1, EnqueueEffect
  <2>3. /\ cache' \in [Market -> CurrentBooks \cup {NoBooks}]
        /\ \A n \in Market : n # e => cache'[n] = cache[n]
        /\ cache'[e] # NoBooks /\ cache'[e].ver = books[e].ver
    BY <2>1, RefreshEffect
  <2>4. TypeOK'
    BY <1>1, <1>4, <2>1, <2>2, <2>3 DEF TypeOK, source
  <2>5. CacheInv'
    BY <1>1, <1>9, <2>3 DEF CacheInv
  <2>6. OriginInv'
    BY <1>1, <2>1, RefreshKeepsOrigins DEF OriginInv
  <2>7. WakeupKept'
    BY <1>6, <1>8, <2>1, <2>2 DEF WakeupKept
  <2>8. CacheFollowsStore'
    BY <1>1, <1>6, <1>8, <2>1, <2>3 DEF CacheFollowsStore, source
  <2> QED BY <1>5, <1>7, <2>4, <2>5, <2>6, <2>7, <2>8
<1>10. CASE e \notin markets
  <2>1. UNCHANGED <<engine, missed, unqueued>>
    BY <1>10 DEF Deliver, e
  <2>2. TypeOK'
    BY <1>1, <1>4, <2>1 DEF TypeOK, source
  <2>3. CacheInv' /\ OriginInv'
    BY <1>1, <2>1 DEF CacheInv, OriginInv
  <2>4. ~Due(e)
    BY <1>10 DEF Due
  <2>5. WakeupKept'
    BY <1>6, <1>8, <2>1, <2>4 DEF WakeupKept
  <2>6. CacheFollowsStore'
    BY <1>1, <1>6, <1>8, <2>1, <2>4 DEF CacheFollowsStore, source
  <2> QED BY <1>5, <1>7, <2>2, <2>3, <2>5, <2>6
<1> QED BY <1>9, <1>10

LEMMA TakeStep ==
  ASSUME Inv, NEW w \in Worker, Take(w)
  PROVE  Inv'
<1> USE DEF Inv, runtime, source, history
<1> DEFINE m == Head(queue)
<1>1. /\ at[w] = "idle" /\ queue # <<>> /\ Dequeue
      /\ UNCHANGED <<runtime, events, source>>
  BY DEF Take
<1>2. /\ m \in Market
      /\ queue' \in Seq(Market) /\ Len(queue') <= QueueCap
      /\ IsInjective(queue') /\ queued' = ToSet(queue')
      /\ \A n : Contains(queue, n) => n = m \/ Contains(queue', n)
  BY <1>1, DequeueEffect
<1> HIDE DEF m
<1>3. \A n \in Market : Pending(n)' <=> Pending(n)
  BY <1>1 DEF Pending
<1>4. CASE m \in markets
  <2>1. Evaluate(w, m)
    BY <1>4 DEF Take, m
  <2>2. /\ Refresh(m) /\ missed' = missed \ {m} /\ unqueued' = unqueued \ {m}
        /\ at' = [at EXCEPT ![w] = "generating"]
        /\ evaluated' = [evaluated EXCEPT ![m] = books[m].ver]
        /\ candidate' = [candidate EXCEPT ![w] = [market |-> m, ver |-> books[m].ver,
                            time |-> books[m].time, gen |-> Refreshed(m).gen, stayed |-> TRUE]]
    BY <2>1 DEF Evaluate
  <2>3. /\ cache' \in [Market -> CurrentBooks \cup {NoBooks}]
        /\ \A n \in Market : n # m => cache'[n] = cache[n]
        /\ cache'[m] = Refreshed(m) /\ cache'[m] # NoBooks /\ cache'[m].ver = books[m].ver
        /\ cache'[m].gen \in Nat
    BY <1>2, <2>2, RefreshEffect DEF CurrentBooks
  <2>4. books[m].ver \in 0..MaxMessages /\ books[m].time \in 0..MaxMessages
    BY <1>2 DEF TypeOK, Books
  <2>5. [market |-> m, ver |-> books[m].ver, time |-> books[m].time,
         gen |-> Refreshed(m).gen, stayed |-> TRUE] \in Origin
    BY <1>2, <2>3, <2>4, BoundAssumption DEF Origin
  <2>6. TypeOK'
    <3>1. at' \in [Worker -> Place] /\ candidate' \in [Worker -> Origin]
      BY <2>2, <2>5 DEF TypeOK, Place
    <3>2. evaluated' \in [Market -> 0..MaxMessages]
      BY <2>2, <2>4 DEF TypeOK
    <3>3. \A u, v \in Worker : {at'[u], at'[v]} \subseteq {"committing", "sealed"} => u = v
      BY <2>2 DEF TypeOK
    <3> QED BY <1>1, <1>2, <2>2, <2>3, <3>1, <3>2, <3>3 DEF TypeOK
  <2>7. FeedInv' /\ CacheInv'
    BY <1>1, <1>4, <2>3 DEF FeedInv, CacheInv
  <2>8. OriginInv'
    <3>1. ASSUME NEW v \in Worker, v # w, at'[v] # "idle"
          PROVE  /\ candidate'[v].market \in Market
                 /\ candidate'[v].stayed =>
                        /\ cache'[candidate'[v].market] # NoBooks
                        /\ candidate'[v].gen <= cache'[candidate'[v].market].gen
                        /\ candidate'[v].gen = cache'[candidate'[v].market].gen =>
                               candidate'[v].ver = cache'[candidate'[v].market].ver
      <4>1. candidate'[v] = candidate[v] /\ at[v] # "idle"
        BY <2>2, <3>1 DEF TypeOK
      <4> QED BY <1>2, <2>2, <4>1, RefreshKeepsOrigins
    <3>2. candidate'[w] = [market |-> m, ver |-> books[m].ver, time |-> books[m].time,
                           gen |-> Refreshed(m).gen, stayed |-> TRUE]
      BY <2>2 DEF TypeOK
    <3> QED BY <1>2, <2>3, <3>1, <3>2 DEF OriginInv
  <2>9. ConfiguredInv' /\ (\A n \in Market : Due(n)' => n # m /\ Due(n))
    BY <1>1, <1>2, <1>4, <2>2, <2>4 DEF ConfiguredInv, Due, TypeOK
  <2>10. WakeupKept'
    BY <1>2, <1>3, <2>2, <2>9 DEF WakeupKept
  <2>11. CacheFollowsStore'
    BY <1>1, <1>3, <2>2, <2>3, <2>9 DEF CacheFollowsStore
  <2> QED BY <2>6, <2>7, <2>8, <2>9, <2>10, <2>11
<1>5. CASE m \notin markets
  <2>1. UNCHANGED <<workers, cache, history>>
    BY <1>5 DEF Take, m, Skip
  <2>2. TypeOK'
    BY <1>1, <1>2, <2>1 DEF TypeOK, workers
  <2>3. FeedInv' /\ CacheInv' /\ OriginInv' /\ ConfiguredInv'
    BY <1>1, <2>1 DEF FeedInv, CacheInv, OriginInv, ConfiguredInv, workers
  <2>4. \A n \in Market : Due(n)' <=> Due(n)
    BY <1>1, <2>1 DEF Due
  <2>5. WakeupKept'
    BY <1>2, <1>3, <1>5, <2>1, <2>4 DEF WakeupKept, Due
  <2>6. CacheFollowsStore'
    BY <1>1, <1>3, <2>1, <2>4 DEF CacheFollowsStore
  <2> QED BY <2>2, <2>3, <2>5, <2>6
<1> QED BY <1>4, <1>5

\* A worker moves on with its candidate, or gives it up.
LEMMA MoveStep ==
  ASSUME Inv, NEW w \in Worker, NEW from \in Place, NEW to \in Place, Step(w, from, to),
         from # "idle",
         \/ UNCHANGED candidate
         \/ Discard(w) /\ to = "idle",
         to \in {"committing", "sealed"} => from \in {"committing", "sealed"} \/ ~Locked
  PROVE  Inv'
<1> USE DEF Inv, Step, runtime, source, engine, history
<1>1. /\ at' \in [Worker -> Place] /\ at'[w] = to /\ at[w] = from
      /\ \A v \in Worker \ {w} : at'[v] = at[v]
  BY DEF TypeOK
<1>2. NoOrigin \in Origin
  BY DEF NoOrigin, Origin
<1>3. /\ candidate' \in [Worker -> Origin]
      /\ \A v \in Worker \ {w} : candidate'[v] = candidate[v]
      /\ to # "idle" => candidate'[w] = candidate[w]
  BY <1>2 DEF TypeOK, Discard
<1>4. ASSUME NEW u \in Worker, NEW v \in Worker,
             {at'[u], at'[v]} \subseteq {"committing", "sealed"}
      PROVE  u = v
  <2>1. CASE u # w /\ v # w
    BY <1>1, <1>4, <2>1 DEF TypeOK
  <2>2. CASE u = w /\ v # w
    <3>1. at[v] \in {"committing", "sealed"} /\ to \in {"committing", "sealed"}
      BY <1>1, <1>4, <2>2
    <3>2. at[w] \in {"committing", "sealed"}
      BY <1>1, <3>1 DEF Locked
    <3> QED BY <2>2, <3>1, <3>2 DEF TypeOK
  <2>3. CASE u # w /\ v = w
    <3>1. at[u] \in {"committing", "sealed"} /\ to \in {"committing", "sealed"}
      BY <1>1, <1>4, <2>3
    <3>2. at[w] \in {"committing", "sealed"}
      BY <1>1, <3>1 DEF Locked
    <3> QED BY <2>3, <3>1, <3>2 DEF TypeOK
  <2> QED BY <2>1, <2>2, <2>3
<1>5. TypeOK'
  BY <1>1, <1>3, <1>4 DEF TypeOK
<1>6. OriginInv'
  <2>1. \A v \in Worker : at'[v] # "idle" => at[v] # "idle" /\ candidate'[v] = candidate[v]
    BY <1>1, <1>3
  <2> QED BY <2>1 DEF OriginInv
<1>7. FeedInv' /\ CacheInv' /\ ConfiguredInv'
  BY DEF FeedInv, CacheInv, ConfiguredInv
<1>8. WakeupKept' /\ CacheFollowsStore'
  BY DEF WakeupKept, CacheFollowsStore, Due, Pending
<1> QED BY <1>5, <1>6, <1>7, <1>8

LEMMA WorkStep ==
  ASSUME Inv, NEW w \in Worker, Works(w)
  PROVE  Inv'
<1> USE DEF Place
<1>1. CASE Take(w)
  BY <1>1, TakeStep
<1>2. CASE Propose(w)
  BY <1>2, MoveStep DEF Propose
<1>3. CASE NoCandidate(w)
  BY <1>3, MoveStep DEF NoCandidate
<1>4. CASE Commit(w)
  BY <1>4, MoveStep DEF Commit
<1>5. CASE Refuse(w)
  BY <1>5, MoveStep DEF Refuse
<1>6. CASE Seal(w)
  BY <1>6, MoveStep DEF Seal
<1>7. CASE FailToSeal(w)
  BY <1>7, MoveStep DEF FailToSeal
<1>8. CASE Submitted(w)
  BY <1>8, MoveStep DEF Submitted
<1> QED BY <1>1, <1>2, <1>3, <1>4, <1>5, <1>6, <1>7, <1>8 DEF Works

LEMMA StopFeedStep ==
  ASSUME Inv, StopFeed
  PROVE  Inv'
<1> USE DEF Inv, source, engine, workers
<1>1. /\ feed # NoClient /\ feed' = NoClient /\ feed \in Client
      /\ UNCHANGED <<markets, used, source, engine, workers, evaluated, unqueued>>
  BY DEF StopFeed, TypeOK
<1>2. /\ CacheInv' /\ OriginInv' /\ ConfiguredInv'
      /\ \A m \in Market : Due(m)' <=> Due(m)
  BY <1>1 DEF CacheInv, OriginInv, ConfiguredInv, Due
<1>3. CASE UNCHANGED <<events, missed>>
  <2>1. TypeOK' /\ FeedInv'
    BY <1>1, <1>3 DEF TypeOK, FeedInv
  <2>2. WakeupKept' /\ CacheFollowsStore'
    BY <1>1, <1>2, <1>3 DEF WakeupKept, CacheFollowsStore, Pending
  <2> QED BY <1>2, <2>1, <2>2
<1>4. CASE /\ events' = [events EXCEPT ![feed] = <<>>]
           /\ missed' = missed \cup {m \in Market : Contains(events[feed], m)}
  <2>1. /\ events' \in [Client -> Seq(Market \cup {Status})] /\ events'[feed] = <<>>
        /\ \A c \in Client \ {feed} : events'[c] = events[c]
    <3>1. <<>> \in Seq(Market \cup {Status}) /\ events \in [Client -> Seq(Market \cup {Status})]
      BY DEF TypeOK
    <3> QED BY <1>1, <1>4, <3>1
  <2>2. \A c \in Client : Len(events'[c]) <= EventCap
    <3>1. Len(events'[feed]) = 0
      BY <2>1
    <3>2. \A c \in Client \ {feed} : Len(events'[c]) <= EventCap
      BY <2>1 DEF TypeOK
    <3> QED BY <3>1, <3>2, BoundAssumption
  <2>3. missed' \subseteq markets
    BY <1>1, <1>4 DEF TypeOK, FeedInv
  <2>4. TypeOK'
    BY <1>1, <2>1, <2>2, <2>3 DEF TypeOK
  <2>5. FeedInv'
    BY <1>1, <2>1 DEF FeedInv
  <2>6. \A m \in Market : Pending(m) => Pending(m)' \/ m \in missed'
    BY <1>4, <2>1 DEF Pending
  <2>7. WakeupKept' /\ CacheFollowsStore'
    BY <1>1, <1>2, <1>4, <2>6 DEF WakeupKept, CacheFollowsStore
  <2> QED BY <1>2, <2>4, <2>5, <2>7
<1> QED BY <1>1, <1>3, <1>4 DEF StopFeed

LEMMA StartFeedStep ==
  ASSUME Inv, StartFeed
  PROVE  Inv'
<1> USE DEF Inv
<1>1. PICK new \in MarketSets :
         /\ Configure(new)
         /\ \/ new = {} /\ UNCHANGED <<feed, used>>
            \/ \E c \in Client \ used : feed' = c /\ used' = used \cup {c}
  BY DEF StartFeed
<1>2. /\ feed = NoClient /\ ticking' = FALSE /\ UNCHANGED <<books, messages, clock>>
      /\ new \subseteq Market
  BY SetAssumption DEF StartFeed
<1>3. /\ markets' = new
      /\ \A m \in Market : cache'[m] = IF m \in new THEN cache[m] ELSE NoBooks
      /\ \A m \in Market : evaluated'[m] = IF m \in new THEN evaluated[m] ELSE books[m].ver
      /\ missed' = missed \cap new /\ unqueued' = unqueued \cap new
      /\ UNCHANGED <<queue, queued, at, events>>
  BY <1>1 DEF Configure
<1>4. /\ candidate' = [w \in Worker |-> [candidate[w] EXCEPT
                         !.stayed = @ /\ candidate[w].market \in new \cup {Status}]]
      /\ cache' = [m \in Market |-> IF m \in new THEN cache[m] ELSE NoBooks]
      /\ evaluated' = [m \in Market |-> IF m \in new THEN evaluated[m] ELSE books[m].ver]
  BY <1>1 DEF Configure
<1>5. ASSUME NEW w \in Worker
      PROVE  /\ candidate'[w] \in Origin
             /\ candidate'[w].market = candidate[w].market
             /\ candidate'[w].ver = candidate[w].ver /\ candidate'[w].gen = candidate[w].gen
             /\ candidate'[w].stayed => candidate[w].stayed /\ candidate[w].market \in new \cup {Status}
  BY <1>4 DEF TypeOK, Origin
<1>6. TypeOK'
  <2>1. candidate' \in [Worker -> Origin]
    BY <1>4, <1>5
  <2>2. cache' \in [Market -> CurrentBooks \cup {NoBooks}]
    BY <1>3, <1>4 DEF TypeOK
  <2>3. evaluated' \in [Market -> 0..MaxMessages]
    BY <1>3, <1>4 DEF TypeOK, Books
  <2>4. feed' \in used' \cup {NoClient} /\ used' \subseteq Client
    BY <1>1 DEF TypeOK
  <2> QED BY <1>2, <1>3, <2>1, <2>2, <2>3, <2>4 DEF TypeOK
<1>7. FeedInv'
  <2>1. \A c \in Client \ used' : events'[c] = <<>>
    BY <1>1, <1>3 DEF FeedInv
  <2>2. CASE new = {} /\ UNCHANGED <<feed, used>>
    BY <1>2, <2>1, <2>2 DEF FeedInv
  <2>3. CASE \E c \in Client \ used : feed' = c /\ used' = used \cup {c}
    <3>1. events'[feed'] = <<>>
      BY <1>3, <2>3 DEF FeedInv
    <3> QED BY <2>1, <3>1 DEF FeedInv, Contains
  <2> QED BY <1>1, <2>2, <2>3
<1>8. CacheInv'
  BY <1>3 DEF CacheInv
<1>9. OriginInv'
  <2>1. \A w \in Worker : at'[w] # "idle" => candidate[w].market # Status
    BY <1>3, NameAssumption DEF OriginInv
  <2> QED BY <1>3, <1>5, <2>1 DEF OriginInv
<1>10. ConfiguredInv'
  BY <1>2, <1>3 DEF ConfiguredInv
<1>11. ASSUME NEW m \in Market, Due(m)'
       PROVE  Due(m) /\ m \in new /\ books'[m] = books[m] /\ cache'[m] = cache[m]
  <2>1. m \in new /\ evaluated[m] < books[m].ver /\ books[m].ver \in Nat
    BY <1>2, <1>3, <1>11, BoundAssumption DEF Due, TypeOK, Books
  <2>2. m \in markets
    BY <2>1 DEF ConfiguredInv
  <2> QED BY <1>2, <1>3, <2>1, <2>2 DEF Due
<1>12. \A m \in Market : Pending(m)' <=> Pending(m)
  BY <1>3 DEF Pending
<1>13. WakeupKept' /\ CacheFollowsStore'
  BY <1>3, <1>11, <1>12 DEF WakeupKept, CacheFollowsStore
<1> QED BY <1>6, <1>7, <1>8, <1>9, <1>10, <1>13

LEMMA Stutters == Inv /\ UNCHANGED vars => Inv'
  BY DEF Inv, TypeOK, FeedInv, CacheInv, OriginInv, ConfiguredInv, WakeupKept,
         CacheFollowsStore, Due, Pending, vars, runtime, source, engine, workers, history

LEMMA StepKeeps == Inv /\ [Next]_vars => Inv'
<1> SUFFICES ASSUME Inv, [Next]_vars PROVE Inv'
  OBVIOUS
<1>1. CASE \E m \in Market : Publish(m)
  BY <1>1, PublishStep
<1>2. CASE ConnectionEvent
  BY <1>2, ConnectionStep
<1>3. CASE \E c \in Client : Deliver(c)
  BY <1>3, DeliverStep
<1>4. CASE \E w \in Worker : Works(w)
  BY <1>4, WorkStep
<1>5. CASE StopFeed
  BY <1>5, StopFeedStep
<1>6. CASE StartFeed
  BY <1>6, StartFeedStep
<1>7. CASE UNCHANGED vars
  BY <1>7, Stutters
<1> QED BY <1>1, <1>2, <1>3, <1>4, <1>5, <1>6, <1>7 DEF Next

LEMMA Invariance == Spec => []Inv
  BY InitHolds, StepKeeps, PTL DEF Spec

-----------------------------------------------------------------------------
(* Theorems *)

\* Queues keep their bounds, no market is queued twice, the portfolio lock admits one
\* submission, and the variables keep their types.
THEOREM PipelineTyped == Spec => []TypeOK
<1>1. Inv => TypeOK
  BY DEF Inv
<1> QED BY <1>1, Invariance, PTL

\* Coalescing in the market queue and rotation of clients lose no wakeup of a market
\* whose books changed, other than the ones dropped from a full or discarded queue.
THEOREM WakeupKeptHolds == Spec => []WakeupKept
<1>1. Inv => WakeupKept
  BY DEF Inv
<1> QED BY <1>1, Invariance, PTL

\* The current books of the engine are behind the store only while an announcement is
\* on its way or was dropped.
THEOREM CacheFollowsStoreHolds == Spec => []CacheFollowsStore
<1>1. Inv => CacheFollowsStore
  BY DEF Inv
<1> QED BY <1>1, Invariance, PTL

LEMMA SealStep ==
  ASSUME Inv, [Next]_vars, NEW w \in Worker, at[w] # "sealed", at'[w] = "sealed"
  PROVE  Seal(w)
<1> USE DEF Inv, TypeOK
<1>1. at' # at
  BY DEF Inv
<1>2. PICK v \in Worker : Works(v)
  BY <1>1 DEF Next, Publish, ConnectionEvent, Deliver, StopFeed, StartFeed, Configure,
              vars, workers
<1>3. \E to \in Place : at' = [at EXCEPT ![v] = to] /\ (to = "sealed" => Seal(v))
  BY <1>1, <1>2 DEF Works, Take, Evaluate, Skip, workers, Propose, NoCandidate, Commit, Refuse,
              Seal, FailToSeal, Submitted, Step, Place
<1> QED BY <1>3

\* Whatever was published, delivered, dropped or configured between the production of
\* a candidate and its seal, its market is configured and its books are the current
\* ones of the engine; only after a market left and returned can other books with
\* the same time be taken for them.
THEOREM SealedFromCurrentBooksHolds == Spec => SealedFromCurrentBooks
<1>1. Inv /\ [Next]_vars =>
        [\A w \in Worker : at[w] # "sealed" /\ at'[w] = "sealed" =>
           LET origin == candidate[w]
               now == cache[origin.market]
           IN  /\ origin.market \in markets
               /\ \/ now.ver = origin.ver
                  \/ ~origin.stayed /\ now.time = origin.time]_vars
  <2> SUFFICES ASSUME Inv, [Next]_vars, NEW w \in Worker,
                      at[w] # "sealed", at'[w] = "sealed"
               PROVE  /\ candidate[w].market \in markets
                      /\ \/ cache[candidate[w].market].ver = candidate[w].ver
                         \/ /\ ~candidate[w].stayed
                            /\ cache[candidate[w].market].time = candidate[w].time
    OBVIOUS
  <2>1. at[w] = "committing" /\ Matches(w)
    BY SealStep DEF Seal
  <2>2. /\ cache[candidate[w].market] # NoBooks
        /\ cache[candidate[w].market].time = candidate[w].time
        /\ cache[candidate[w].market].gen = candidate[w].gen
    BY <2>1 DEF Matches
  <2>3. /\ candidate[w].market \in Market
        /\ candidate[w].stayed =>
               (candidate[w].gen = cache[candidate[w].market].gen =>
                   candidate[w].ver = cache[candidate[w].market].ver)
    BY <2>1 DEF Inv, OriginInv
  <2> QED BY <2>2, <2>3 DEF Inv, CacheInv
<1> QED BY <1>1, Invariance, PTL DEF Spec, SealedFromCurrentBooks

=============================================================================
