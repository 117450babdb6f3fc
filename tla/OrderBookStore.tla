----------------------------- MODULE OrderBookStore -----------------------------
(***************************************************************************)
(* The WebSocket books of OrderBookStore (src/market/orderbook.py). Every  *)
(* method used here runs in the event loop without awaiting.               *)
(*                                                                         *)
(* A side of a book is its origin and the number of the message that       *)
(* brought it: a ladder of levels from a depth message, or the one         *)
(* synthetic level of a top-of-book message. Prices, sizes and the history *)
(* of tops are left out; "synthetic depth" is the negation of "depth       *)
(* proven" in every book of the WebSocket. REST recovery and prune() are   *)
(* not modelled: nothing in the program calls them, so a book is never     *)
(* removed, and the markets of a rotation find what earlier clients left.  *)
(***************************************************************************)
EXTENDS Naturals

CONSTANTS Token, NoBook,
          MaxMessages       \* bound on the messages published

ASSUME MessageAssumption == MaxMessages \in Nat

VARIABLES
    ws,         \* token -> its WebSocket book
    messages,   \* number of messages published so far
    topAt       \* token -> number of its last top-only message (history)

store == <<ws, messages, topAt>>

NoSide == [from |-> "nothing", at |-> 0]
Side == [from : {"nothing", "ladder", "top"}, at : 0..MaxMessages]
Book == [bids : Side, asks : Side, proven : BOOLEAN]
Empty == [bids |-> NoSide, asks |-> NoSide, proven |-> FALSE]

StoreInit == /\ ws = [t \in Token |-> NoBook]
             /\ messages = 0
             /\ topAt = [t \in Token |-> 0]

\* The sides that the next message brings: all its levels may fail to parse.
Brought(from) == {NoSide, [from |-> from, at |-> messages + 1]}
Filled(side) == side # NoSide

Known(t) == IF ws[t] = NoBook THEN Empty ELSE ws[t]

\* A side that is not reported stays what it was.
Carry(new, old) == IF Filled(new) THEN new ELSE old

Publish(t, book) == /\ messages < MaxMessages
                    /\ messages' = messages + 1
                    /\ ws' = [ws EXCEPT ![t] = book]

\* A snapshot of both sides, of which one may parse to nothing.
PublishBook(t, bids, asks) ==
    /\ Filled(bids) \/ Filled(asks)
    /\ Publish(t, [bids |-> bids, asks |-> asks, proven |-> TRUE])
    /\ UNCHANGED topAt

\* A message of one side keeps the other; the depth is proven if it was.
ProvenAnyway(bids, asks, prior) == Filled(bids) \/ Filled(asks)
ProvenAfter(bids, asks, prior) == \/ Filled(bids) /\ Filled(asks)
                                  \/ prior.proven

PublishDelta(t, bids, asks) ==
    LET prior == Known(t)
    IN  /\ Filled(bids) \/ Filled(asks)
        /\ Publish(t, [bids |-> Carry(bids, prior.bids),
                       asks |-> Carry(asks, prior.asks),
                       proven |-> ProvenAfter(bids, asks, prior)])
        /\ UNCHANGED topAt

\* The best prices replace the book by one synthetic level on each side.
PublishTop(t) ==
    LET level == [from |-> "top", at |-> messages + 1]
    IN  /\ Publish(t, [bids |-> level, asks |-> level, proven |-> FALSE])
        /\ topAt' = [topAt EXCEPT ![t] = messages + 1]

-----------------------------------------------------------------------------
(* Properties *)

StoreTypeOK ==
    /\ ws \in [Token -> Book \cup {NoBook}]
    /\ messages \in 0..MaxMessages
    /\ topAt \in [Token -> 0..messages]

\* The side comes from a depth message after the last top-only one.
Current(t, side) == side.from = "ladder" /\ side.at > topAt[t]

\* A book claims proven depth only for ladders that the WebSocket reported, and
\* reported since its last top-only message: no synthetic level and no ladder from
\* before the top is carried into it by one-sided messages.
ProvenDepth ==
    \A t \in Token : Known(t).proven =>
        \A side \in {ws[t].bids, ws[t].asks} : Filled(side) => Current(t, side)

=================================================================================
