------------------------------- MODULE MarketFeed -------------------------------
(***************************************************************************)
(* The market-data feed: MarketWebSocketClient (src/market/websocket.py)   *)
(* writes what it receives into the OrderBookStore, and ApplicationRuntime *)
(* (src/main.py) replaces the client when the set of markets changes.      *)
(*                                                                         *)
(* A client is used once: its run() is a task that is created, connects    *)
(* and reconnects until it is stopped or cancelled. The socket may be      *)
(* closed by the venue, the runtime or a watchdog, or fall silent.         *)
(*                                                                         *)
(* Simplifications:                                                        *)
(*  - a message is the side or sides it reports for one token; messages    *)
(*    for unknown tokens, tick sizes and unparsable frames change nothing; *)
(*  - the repeated frames that are suppressed (README, section 4), the     *)
(*    heartbeat, initial coverage and the statistics are left out;         *)
(*  - notifications of the engine are the subject of MarketPipeline;       *)
(*  - discovery returns any set of markets, one market a token.            *)
(***************************************************************************)
EXTENDS OrderBookStore

CONSTANTS Client, NoClient,
          MarketSet         \* the sets of tokens that discovery may return

ASSUME ClientAssumption == /\ NoClient \notin Client
                           /\ MarketSet \subseteq SUBSET Token

VARIABLES
    run,        \* client -> where its run() is
    stopped,    \* clients whose stop event is set
    socket,     \* client -> its socket
    tokens,     \* client -> the tokens it is configured with
    active,     \* the tokens of the active markets
    found,      \* the tokens of the markets that discovery returned last
    client,     \* the client of the runtime
    rotation    \* where the runtime is in replacing it

feed == <<run, stopped, socket, tokens>>
runtime == <<active, found, client, rotation>>
vars == <<store, feed, runtime>>

Running == {"created", "connecting", "receiving", "sleeping", "finishing"}

Init == /\ StoreInit
        /\ run = [c \in Client |-> "unused"]
        /\ stopped = {}
        /\ socket = [c \in Client |-> "none"]
        /\ tokens = [c \in Client |-> {}]
        /\ active = {}
        /\ found = {}
        /\ client = NoClient
        /\ rotation = "steady"

Goto(c, pc) == run' = [run EXCEPT ![c] = pc]

-----------------------------------------------------------------------------
(* run(): one connection after the other *)

\* The event is cleared, also when stop() was called before the task began.
RunBegins(c) ==
    /\ run[c] = "created"
    /\ stopped' = stopped \ {c}
    /\ Goto(c, "connecting")
    /\ UNCHANGED <<store, socket, tokens, runtime>>

Connect(c) ==
    /\ run[c] = "connecting"
    /\ Goto(c, "receiving")
    /\ socket' = [socket EXCEPT ![c] = "open"]
    /\ UNCHANGED <<store, stopped, tokens, runtime>>

\* A connection is over, with an exception or because the loop saw the event.
After(c) == IF c \in stopped THEN "finishing" ELSE "sleeping"

ConnectFails(c) ==
    /\ run[c] = "connecting"
    /\ Goto(c, After(c))
    /\ UNCHANGED <<store, stopped, socket, tokens, runtime>>

\* recv() raises, or the loop ends before its next recv().
ConnectionEnds(c) ==
    /\ run[c] = "receiving"
    /\ socket[c] = "closed" \/ c \in stopped
    /\ Goto(c, After(c))
    /\ socket' = [socket EXCEPT ![c] = "none"]
    /\ UNCHANGED <<store, stopped, tokens, runtime>>

Reconnect(c) ==
    /\ run[c] = "sleeping"
    /\ Goto(c, IF c \in stopped THEN "finishing" ELSE "connecting")
    /\ UNCHANGED <<store, stopped, socket, tokens, runtime>>

\* The event worker is drained for a limited time and cancelled.
Finish(c) ==
    /\ run[c] = "finishing"
    /\ Goto(c, "ended")
    /\ UNCHANGED <<store, stopped, socket, tokens, runtime>>

-----------------------------------------------------------------------------
(* What happens to a socket *)

SocketBecomes(c, before, after) ==
    /\ socket[c] \in before
    /\ socket' = [socket EXCEPT ![c] = after]
    /\ UNCHANGED <<store, run, stopped, tokens, runtime>>

VenueCloses(c) == SocketBecomes(c, {"open"}, "closed")

\* The connection stays up and nothing arrives any more.
FallsSilent(c) == SocketBecomes(c, {"open"}, "silent")

\* After too long a silence the watchdog of this connection closes the socket.
SilenceOnlyWarns(c) == UNCHANGED vars
SilenceWatchdog(c) == SocketBecomes(c, {"silent"}, "closed")

-----------------------------------------------------------------------------
(* Messages *)

\* What arrived before the socket was closed is still processed.
Receives(c, t) == /\ run[c] = "receiving"
                  /\ socket[c] \in {"open", "closed"}
                  /\ t \in tokens[c]

\* Both sides are reported; one of them may parse to nothing.
FullBook(c, t) ==
    /\ Receives(c, t)
    /\ \E bids, asks \in Brought("ladder") : PublishBook(t, bids, asks)
    /\ UNCHANGED <<feed, runtime>>

\* One side is reported.
OneSide(c, t) ==
    /\ Receives(c, t)
    /\ \E side \in Brought("ladder") : \/ PublishDelta(t, side, NoSide)
                                       \/ PublishDelta(t, NoSide, side)
    /\ UNCHANGED <<feed, runtime>>

\* Best prices, alone or as the children of a price change.
TopOfBook(c, t) ==
    /\ Receives(c, t)
    /\ PublishTop(t)
    /\ UNCHANGED <<feed, runtime>>

-----------------------------------------------------------------------------
(* The runtime *)

Alive(c) == c # NoClient /\ run[c] \in Running

\* A refresh finds another set of markets, or the client gone: it is replaced.
\* (Bound: a replacement begins while there is a client that was not used.)
Discover ==
    /\ rotation = "steady"
    /\ \E c \in Client : run[c] = "unused"
    /\ found' \in MarketSet
    /\ \/ found' # active
       \/ found' # {} /\ ~Alive(client)
    /\ rotation' = "stopping"
    /\ UNCHANGED <<store, feed, active, client>>

\* stop(): the event is set and the socket, if there is one, closed.
StopClient ==
    /\ rotation = "stopping"
    /\ rotation' = IF client = NoClient THEN "starting" ELSE "waiting"
    /\ stopped' = IF client = NoClient THEN stopped ELSE stopped \cup {client}
    /\ socket' = [c \in Client |-> IF c = client /\ socket[c] # "none" THEN "closed"
                                   ELSE socket[c]]
    /\ UNCHANGED <<store, run, tokens, active, found, client>>

\* The runtime waits until the task is over, and lets the client go.
Forgotten(c) == TRUE
Ended(c) == ~Alive(c)

TaskEnded ==
    /\ rotation = "waiting"
    /\ Ended(client)
    /\ rotation' = "starting"
    /\ client' = NoClient
    /\ UNCHANGED <<store, feed, active, found>>

\* It has not ended in time and is cancelled, wherever it is.
WaitOn == UNCHANGED vars
CancelTask ==
    /\ rotation = "waiting"
    /\ Alive(client)
    /\ Goto(client, "ended")
    /\ socket' = [socket EXCEPT ![client] = "none"]
    /\ UNCHANGED <<store, stopped, tokens, runtime>>

\* The engine is configured, and a new client is created if there are markets.
StartClient ==
    /\ rotation = "starting"
    /\ rotation' = "steady"
    /\ active' = found
    /\ \/ found = {} /\ UNCHANGED <<run, tokens, client>>
       \/ \E c \in Client : /\ found # {} /\ run[c] = "unused"
                            /\ client' = c
                            /\ tokens' = [tokens EXCEPT ![c] = found]
                            /\ Goto(c, "created")
    /\ UNCHANGED <<store, stopped, socket, found>>

-----------------------------------------------------------------------------
Connection(c) == \/ RunBegins(c) \/ Connect(c) \/ ConnectFails(c)
                 \/ ConnectionEnds(c) \/ Reconnect(c) \/ Finish(c)

Message(c, t) == FullBook(c, t) \/ OneSide(c, t) \/ TopOfBook(c, t)

Rotation == StopClient \/ TaskEnded \/ CancelTask \/ StartClient

Next == \/ \E c \in Client : \/ Connection(c)
                             \/ VenueCloses(c) \/ FallsSilent(c) \/ SilenceWatchdog(c)
                             \/ \E t \in Token : Message(c, t)
        \/ Discover \/ Rotation

Spec == Init /\ [][Next]_vars

\* A connection attempt ends, a task goes on when it can, and the timeouts of
\* the watchdog and of the runtime run out. No message and no discovery is sure.
FairSpec == /\ Spec
            /\ WF_vars(Rotation)
            /\ \A c \in Client : WF_vars(Connection(c)) /\ WF_vars(SilenceWatchdog(c))

-----------------------------------------------------------------------------
(* Properties *)

\* Types; only the client of the runtime is running, with the active markets.
TypeOK ==
    /\ StoreTypeOK
    /\ run \in [Client -> Running \cup {"unused", "ended"}]
    /\ stopped \subseteq Client
    /\ socket \in [Client -> {"none", "open", "silent", "closed"}]
    /\ tokens \in [Client -> SUBSET Token]
    /\ active \in SUBSET Token /\ found \in SUBSET Token
    /\ client \in Client \cup {NoClient}
    /\ rotation \in {"steady", "stopping", "waiting", "starting"}
    /\ \A c \in Client : Alive(c) => c = client /\ tokens[c] = active

\* A message is only ever published for a token of the active markets: what an
\* old client still receives while it is replaced never reaches the new set.
PublishedIsActive ==
    [][\A t \in Token : ws'[t] # ws[t] => t \in active]_vars

\* Replacing a client comes to an end, also when stop() came before run() had
\* begun, which clears the stop event and connects as if nothing had happened.
RotationEnds == rotation # "steady" ~> rotation = "steady"

\* A socket that has fallen silent is given up: the client reconnects or ends.
SilentSocketReplaced ==
    \A c \in Client : socket[c] = "silent" ~> run[c] \in {"connecting", "ended"}

=================================================================================
