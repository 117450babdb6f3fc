--------------------------- MODULE MarketFeedProofs ---------------------------
(* Proofs about MarketFeed and its OrderBookStore, for every set of clients,   *)
(* tokens and rotations and any number of messages.                            *)
EXTENDS MarketFeed, TLAPS

-----------------------------------------------------------------------------
(* The store *)

\* Every ladder of the book that is there came after the last top of its token.
Justified(t, book) == book.proven => \A side \in {book.bids, book.asks} :
                                         Filled(side) => Current(t, side)

LEMMA BroughtSide ==
  ASSUME StoreTypeOK, messages < MaxMessages, NEW side \in Brought("ladder")
  PROVE  /\ side \in Side
         /\ Filled(side) => side.from = "ladder" /\ side.at = messages + 1
<1> USE MessageAssumption DEF Brought, Filled, Side, NoSide, StoreTypeOK
<1>1. CASE side = NoSide
  BY <1>1
<1>2. CASE side = [from |-> "ladder", at |-> messages + 1]
  BY <1>2
<1> QED BY <1>1, <1>2

\* A side that the next message brings is newer than any top.
LEMMA BroughtCurrent ==
  ASSUME StoreTypeOK, messages < MaxMessages, NEW side \in Brought("ladder"),
         Filled(side), NEW t \in Token
  PROVE  Current(t, side)
<1>1. side.from = "ladder" /\ side.at = messages + 1
  BY BroughtSide
<1>2. topAt[t] \in 0..messages /\ messages \in Nat
  BY MessageAssumption DEF StoreTypeOK
<1> QED BY <1>1, <1>2 DEF Current

LEMMA KnownBook ==
  ASSUME StoreTypeOK, ProvenDepth, NEW t \in Token
  PROVE  Known(t) \in Book /\ Justified(t, Known(t))
<1>1. Known(t) \in Book
  BY MessageAssumption DEF StoreTypeOK, Known, Empty, Book, Side, NoSide
<1>2. Known(t).proven => Known(t) = ws[t]
  BY DEF Known, Empty
<1> QED BY <1>1, <1>2 DEF ProvenDepth, Justified

LEMMA PublishKeeps ==
  ASSUME StoreTypeOK, ProvenDepth, NEW t \in Token, NEW book \in Book,
         Publish(t, book), UNCHANGED topAt, Justified(t, book)
  PROVE  StoreTypeOK' /\ ProvenDepth'
<1>1. /\ messages < MaxMessages /\ messages' = messages + 1
      /\ ws' = [ws EXCEPT ![t] = book]
  BY DEF Publish
<1>2. StoreTypeOK'
  BY <1>1, MessageAssumption DEF StoreTypeOK
<1>3. ASSUME NEW u \in Token, Known(u)'.proven
      PROVE  \A side \in {ws'[u].bids, ws'[u].asks} : Filled(side) => Current(u, side)'
  <2>1. CASE u = t
    <3>1. ws'[u] = book /\ book.proven
      BY <1>1, <1>3, <2>1 DEF StoreTypeOK, Known, Empty
    <3> QED BY <2>1, <3>1 DEF Justified, Current
  <2>2. CASE u # t
    <3>1. ws'[u] = ws[u] /\ Known(u).proven
      BY <1>1, <1>3, <2>2 DEF StoreTypeOK, Known
    <3> QED BY <3>1 DEF ProvenDepth, Current
  <2> QED BY <2>1, <2>2
<1> QED BY <1>2, <1>3 DEF ProvenDepth, Filled

LEMMA BookStep ==
  ASSUME StoreTypeOK, ProvenDepth, NEW t \in Token,
         NEW bids \in Brought("ladder"), NEW asks \in Brought("ladder"),
         PublishBook(t, bids, asks)
  PROVE  StoreTypeOK' /\ ProvenDepth'
<1> DEFINE book == [bids |-> bids, asks |-> asks, proven |-> TRUE]
<1>1. Publish(t, book) /\ UNCHANGED topAt /\ messages < MaxMessages
  BY DEF PublishBook, Publish
<1>2. book \in Book
  BY <1>1, BroughtSide DEF Book
<1>3. Justified(t, book)
  BY <1>1, BroughtCurrent DEF Justified
<1> HIDE DEF book
<1> QED BY <1>1, <1>2, <1>3, PublishKeeps

LEMMA DeltaStep ==
  ASSUME StoreTypeOK, ProvenDepth, NEW t \in Token,
         NEW bids \in Brought("ladder"), NEW asks \in Brought("ladder"),
         PublishDelta(t, bids, asks)
  PROVE  StoreTypeOK' /\ ProvenDepth'
<1> DEFINE prior == Known(t)
           book == [bids |-> Carry(bids, prior.bids), asks |-> Carry(asks, prior.asks),
                    proven |-> ProvenAfter(bids, asks, prior)]
<1>1. Publish(t, book) /\ UNCHANGED topAt /\ messages < MaxMessages
  BY DEF PublishDelta, Publish
<1>2. prior \in Book /\ Justified(t, prior)
  BY KnownBook
<1>3. bids \in Side /\ asks \in Side
  BY <1>1, BroughtSide
<1>4. ProvenAfter(bids, asks, prior) \in BOOLEAN
  BY <1>2 DEF ProvenAfter, Book, Filled
<1>5. book \in Book
  BY <1>2, <1>3, <1>4 DEF Book, Carry
<1>6. Justified(t, book)
  BY <1>1, <1>2, BroughtCurrent DEF Justified, Carry, ProvenAfter
<1> HIDE DEF book
<1> QED BY <1>1, <1>5, <1>6, PublishKeeps

LEMMA TopStep ==
  ASSUME StoreTypeOK, ProvenDepth, NEW t \in Token, PublishTop(t)
  PROVE  StoreTypeOK' /\ ProvenDepth'
<1> DEFINE level == [from |-> "top", at |-> messages + 1]
           book == [bids |-> level, asks |-> level, proven |-> FALSE]
<1>1. /\ messages < MaxMessages /\ messages' = messages + 1
      /\ ws' = [ws EXCEPT ![t] = book] /\ topAt' = [topAt EXCEPT ![t] = messages + 1]
  BY DEF PublishTop, Publish
<1>2. book \in Book
  BY <1>1, MessageAssumption DEF Book, Side, StoreTypeOK
<1>3. StoreTypeOK'
  BY <1>1, <1>2, MessageAssumption DEF StoreTypeOK
<1>4. ASSUME NEW u \in Token, Known(u)'.proven
      PROVE  u # t /\ ws'[u] = ws[u] /\ topAt'[u] = topAt[u] /\ Known(u).proven
  BY <1>1, <1>4 DEF StoreTypeOK, Known, Empty
<1> QED BY <1>3, <1>4 DEF ProvenDepth, Current

-----------------------------------------------------------------------------
(* The feed *)

\* While the next client is created there is none; while one is awaited it is there.
RotationInv == /\ rotation = "starting" => client = NoClient
               /\ rotation = "waiting" => client # NoClient

Inv == TypeOK /\ RotationInv /\ ProvenDepth

LEMMA InitInv ==
  ASSUME Init
  PROVE  Inv
<1>1. StoreTypeOK /\ ProvenDepth
  BY MessageAssumption DEF Init, StoreInit, StoreTypeOK, ProvenDepth, Known, Empty
<1> QED BY <1>1 DEF Init, Inv, TypeOK, RotationInv, Alive, Running

\* A message goes to the store for a token of the one client that is running.
LEMMA MessageStep ==
  ASSUME Inv, NEW c \in Client, NEW t \in Token, Message(c, t)
  PROVE  /\ StoreTypeOK' /\ ProvenDepth' /\ UNCHANGED <<feed, runtime>>
         /\ t \in active /\ \A u \in Token \ {t} : ws'[u] = ws[u]
<1> USE DEF Inv
<1>1. t \in active
  BY ClientAssumption DEF Message, FullBook, OneSide, TopOfBook, Receives, TypeOK, Alive, Running
<1>2. CASE FullBook(c, t)
  <2>1. PICK bids, asks \in Brought("ladder") : PublishBook(t, bids, asks)
    BY <1>2 DEF FullBook
  <2>2. \A u \in Token \ {t} : ws'[u] = ws[u]
    BY <2>1 DEF PublishBook, Publish, TypeOK, StoreTypeOK
  <2> QED BY <1>1, <1>2, <2>1, <2>2, BookStep DEF FullBook, TypeOK
<1>3. CASE OneSide(c, t)
  <2>1. NoSide \in Brought("ladder")
    BY DEF Brought
  <2>2. PICK bids, asks \in Brought("ladder") : PublishDelta(t, bids, asks)
    BY <1>3, <2>1 DEF OneSide
  <2>3. \A u \in Token \ {t} : ws'[u] = ws[u]
    BY <2>2 DEF PublishDelta, Publish, TypeOK, StoreTypeOK
  <2> QED BY <1>1, <1>3, <2>2, <2>3, DeltaStep DEF OneSide, TypeOK
<1>4. CASE TopOfBook(c, t)
  <2>1. \A u \in Token \ {t} : ws'[u] = ws[u]
    BY <1>4 DEF TopOfBook, PublishTop, Publish, TypeOK, StoreTypeOK
  <2> QED BY <1>1, <1>4, <2>1, TopStep DEF TopOfBook, TypeOK
<1> QED BY <1>2, <1>3, <1>4 DEF Message

FeedTypes == /\ run \in [Client -> Running \cup {"unused", "ended"}]
             /\ stopped \subseteq Client
             /\ socket \in [Client -> {"none", "open", "silent", "closed"}]
             /\ tokens \in [Client -> SUBSET Token]
             /\ active \in SUBSET Token /\ found \in SUBSET Token
             /\ client \in Client \cup {NoClient}
             /\ rotation \in {"steady", "stopping", "waiting", "starting"}

\* Only the client of the runtime is running, with the active tokens.
OneAlive == \A c \in Client : Alive(c) => c = client /\ tokens[c] = active

\* No connection begins or goes on without a task that was alive before.
LEMMA FeedStep ==
  ASSUME FeedTypes, OneAlive, RotationInv, UNCHANGED store,
         \/ \E c \in Client : Connection(c) \/ VenueCloses(c) \/ FallsSilent(c)
                              \/ SilenceWatchdog(c)
         \/ Discover \/ Rotation \/ UNCHANGED vars
  PROVE  FeedTypes' /\ OneAlive' /\ RotationInv'
<1> USE ClientAssumption DEF Running, feed, runtime
<1>1. ASSUME NEW c \in Client, Connection(c)
      PROVE  FeedTypes' /\ OneAlive' /\ RotationInv'
  <2>1. /\ FeedTypes' /\ RotationInv' /\ UNCHANGED <<tokens, active, client>>
        /\ Alive(c) /\ \A d \in Client \ {c} : run'[d] = run[d]
    BY <1>1 DEF Connection, RunBegins, Connect, ConnectFails, ConnectionEnds, Reconnect, Finish,
       Goto, After, FeedTypes, RotationInv, Alive
  <2> QED BY <2>1 DEF OneAlive, Alive
<1>2. ASSUME NEW c \in Client, VenueCloses(c) \/ FallsSilent(c) \/ SilenceWatchdog(c)
      PROVE  FeedTypes' /\ OneAlive' /\ RotationInv'
  BY <1>2 DEF VenueCloses, FallsSilent, SilenceWatchdog, SocketBecomes, FeedTypes, OneAlive,
     RotationInv, Alive
<1>3. CASE Discover
  BY <1>3 DEF Discover, FeedTypes, OneAlive, RotationInv, Alive
<1>4. CASE StopClient
  BY <1>4 DEF StopClient, FeedTypes, OneAlive, RotationInv, Alive
<1>5. CASE TaskEnded \/ CancelTask
  BY <1>5 DEF TaskEnded, CancelTask, Ended, Goto, FeedTypes, OneAlive, RotationInv, Alive
<1>6. CASE StartClient
  <2>1. \A c \in Client : ~Alive(c)
    BY <1>6 DEF StartClient, RotationInv, OneAlive
  <2>2. FeedTypes' /\ RotationInv'
    BY <1>6 DEF StartClient, Goto, FeedTypes, RotationInv
  <2>3. OneAlive'
    BY <1>6, <2>1 DEF StartClient, Goto, FeedTypes, OneAlive, Alive
  <2> QED BY <2>2, <2>3
<1>7. CASE UNCHANGED vars
  BY <1>7 DEF vars, FeedTypes, OneAlive, RotationInv, Alive
<1> QED BY <1>1, <1>2, <1>3, <1>4, <1>5, <1>6, <1>7 DEF Rotation

LEMMA TypeParts == TypeOK <=> StoreTypeOK /\ FeedTypes /\ OneAlive
  BY DEF TypeOK, FeedTypes, OneAlive

LEMMA StepInv ==
  ASSUME Inv, [Next]_vars
  PROVE  Inv'
<1> USE DEF Inv
<1>1. ASSUME NEW c \in Client, NEW t \in Token, Message(c, t)
      PROVE  Inv'
  <2>1. StoreTypeOK' /\ ProvenDepth' /\ UNCHANGED <<feed, runtime>>
    BY <1>1, MessageStep
  <2> QED BY <2>1, TypeParts DEF feed, runtime, FeedTypes, OneAlive, RotationInv, Alive, TypeOK
<1>2. CASE \/ \E c \in Client : Connection(c) \/ VenueCloses(c) \/ FallsSilent(c)
                                \/ SilenceWatchdog(c)
           \/ Discover \/ Rotation \/ UNCHANGED vars
  <2>1. UNCHANGED store
    BY <1>2 DEF Connection, RunBegins, Connect, ConnectFails, ConnectionEnds, Reconnect, Finish,
       VenueCloses, FallsSilent, SilenceWatchdog, SocketBecomes, Discover, Rotation, StopClient,
       TaskEnded, CancelTask, StartClient, vars
  <2>2. StoreTypeOK'
    BY <2>1 DEF store, TypeOK, StoreTypeOK
  <2>3. ProvenDepth'
    BY <2>1 DEF store, ProvenDepth, Known, Empty, Filled, NoSide, Current
  <2>4. FeedTypes' /\ OneAlive' /\ RotationInv'
    BY <1>2, <2>1, TypeParts, FeedStep
  <2>5. TypeOK'
    BY <2>2, <2>4 DEF TypeOK, FeedTypes, OneAlive
  <2> QED BY <2>3, <2>4, <2>5
<1> QED BY <1>1, <1>2 DEF Next

LEMMA Invariance == Spec => []Inv
<1>1. Init => Inv
  BY InitInv
<1>2. Inv /\ [Next]_vars => Inv'
  BY StepInv
<1> QED BY <1>1, <1>2, PTL DEF Spec

-----------------------------------------------------------------------------
(* Theorems *)

\* The runtime (main.py) runs one client at most, configured with the active markets,
\* however its run() was stopped, restarted or cancelled; and the books are typed.
THEOREM FeedTyped == Spec => []TypeOK
<1>1. Inv => TypeOK
  BY DEF Inv
<1> QED BY <1>1, Invariance, PTL

\* The depth that the store (orderbook.py) calls proven consists of ladders that the
\* WebSocket reported since the token's last top-of-book message.
THEOREM ProvenDepthHolds == Spec => []ProvenDepth
<1>1. Inv => ProvenDepth
  BY DEF Inv
<1> QED BY <1>1, Invariance, PTL

\* No client that is being replaced (websocket.py, main.py) writes into the books of a
\* token that the runtime is not watching.
THEOREM PublishedIsActiveHolds == Spec => PublishedIsActive
<1>1. Inv /\ [Next]_vars => [\A t \in Token : ws'[t] # ws[t] => t \in active]_vars
  <2> SUFFICES ASSUME Inv, [Next]_vars, NEW t \in Token, ws'[t] # ws[t]
               PROVE  t \in active
    OBVIOUS
  <2>1. CASE \E c \in Client, u \in Token : Message(c, u)
    BY <2>1, MessageStep
  <2>2. CASE ~\E c \in Client, u \in Token : Message(c, u)
    BY <2>2 DEF Next, Connection, RunBegins, Connect, ConnectFails, ConnectionEnds, Reconnect,
       Finish, VenueCloses, FallsSilent, SilenceWatchdog, SocketBecomes, Discover, Rotation,
       StopClient, TaskEnded, CancelTask, StartClient, vars, store
  <2> QED BY <2>1, <2>2
<1> QED BY <1>1, Invariance, PTL DEF Spec, PublishedIsActive

===============================================================================
