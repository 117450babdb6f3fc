--------------------------- MODULE Reconciliation ---------------------------
(***************************************************************************)
(* Reconciliation of one lifecycle generation (src/execution/              *)
(* reconciliation.py): concurrent callers share one task, which gathers    *)
(* status, trade and wallet evidence in that order and classifies it.      *)
(*                                                                         *)
(* Everything between two awaits of the task is one action.  A read is two *)
(* steps: the venue or the wallet answers, later the task consumes the     *)
(* answer; in between the venue moves and a status refresh of              *)
(* order_manager.py may write the same ledger and lifecycle row.           *)
(*                                                                         *)
(* Simplifications:                                                        *)
(*  - quantities are integer lots; prices, notes and reasons are left out; *)
(*  - the ledger is the confirmed size and the resolved mark of the        *)
(*    order's FillAccounting row, the row is what OrderLifecycle keeps of  *)
(*    fill, order id, verdict and generation; the locator finds the        *)
(*    order itself, so row and result never name two orders;               *)
(*  - the policy has its defaults (evidence queries on, results applied);  *)
(*    an absent reader behaves as one that always fails;                   *)
(*  - status and trade answers may be late or under-reported; a wallet     *)
(*    answer is the balance at the time it is given.                       *)
(***************************************************************************)
EXTENDS Integers

CONSTANTS
    Caller,         \* coroutines that ask for a reconciliation
    Task,           \* names for reconciliation tasks
    NoTask,
    Side,           \* "BUY" or "SELL"
    Size,           \* requested size, in lots
    Attempts,       \* policy.attempts
    MaxStart,       \* bound on the inventory held before the order
    SharedWallet    \* other orders move the same token's balance

ASSUME ReconSizesAssumption == {Size, Attempts} \subseteq Nat \ {0} /\ MaxStart \in Nat
ASSUME ReconSideAssumption == Side \in {"BUY", "SELL"} /\ SharedWallet \in BOOLEAN
ASSUME ReconSentinelAssumption == NoTask \notin Task

VARIABLES
    venue,      \* the venue's record of the order (external)
    wallet,     \* balance of the order's token (external)
    baseline,   \* balance captured before the order, or NoBaseline
    row,        \* the lifecycle row: order id known, filled size, last verdict,
                \* and whether it is still this generation's
    ledger,     \* the fill ledger of the order: confirmed size, resolved mark
    task,       \* task -> what it is doing and what it has gathered
    flight,     \* the task registered for the lifecycle, or NoTask
    caller,     \* caller -> the task it awaits, or NoTask
    refresh     \* the concurrent status refresh

vars == <<venue, wallet, baseline, row, ledger, task, flight, caller, refresh>>

NoBaseline == -1
Label == {"NONE", "LIVE", "MATCHED", "CANCELED", "INVALID"}
ZeroClass == {"CANCELED", "INVALID"}
Outcome == {"FILLED", "PARTIALLY_FILLED", "WORKING", "ZERO", "AMBIGUOUS"}

\* An answer: none yet, unusable, an order payload, a trade total, a balance.
Answer == [what : {"none", "unknown", "order", "total"}, label : Label, n : Nat]
NoAnswer == [what |-> "none", label |-> "NONE", n |-> 0]
Unknown == [NoAnswer EXCEPT !.what = "unknown"]
Total(n) == [NoAnswer EXCEPT !.what = "total", !.n = n]

\* A task that is done is finished once its done callback ran.  status is the last
\* usable order payload; NoAnswer if there is none.
TaskState == [pc : {"free", "created", "locating", "status", "trades", "zeroTrades",
                    "wallet", "done", "finished"},
              attempt : 0..Attempts, answer : Answer, status : Answer,
              outcome : Outcome \cup {"none"}]
Free == [pc |-> "free", attempt |-> 0, answer |-> NoAnswer, status |-> NoAnswer,
         outcome |-> "none"]

Larger(a, b) == IF a >= b THEN a ELSE b

Running(t) == task[t].pc \notin {"free", "done", "finished"}
Asking(t, pc) == task[t].pc = pc /\ task[t].answer.what = "none"
Has(t, pc, what) == task[t].pc = pc /\ task[t].answer.what \in what

Init == /\ \E start \in (IF Side = "SELL" THEN Size ELSE 0)..(Size + MaxStart) :
               wallet = start /\ baseline \in {start, NoBaseline}
        /\ venue \in [label : {"NONE", "LIVE"}, matched : {0}]
        /\ row \in [oid : {venue.label = "LIVE", FALSE}, filled : {0}, verdict : {"none"},
                    current : {TRUE}]
        /\ ledger = [confirmed |-> 0, resolved |-> FALSE]
        /\ task = [t \in Task |-> Free]
        /\ flight = NoTask
        /\ caller = [c \in Caller |-> NoTask]
        /\ refresh = NoAnswer

World == <<venue, wallet, baseline>>

-----------------------------------------------------------------------------
(* The singleflight *)

\* No unfinished task is registered for this lifecycle generation.
Unclaimed == flight \in Task => ~Running(flight)

ReconcileNew(c, t) == /\ caller[c] = NoTask /\ Unclaimed
                      /\ task[t].pc = "free"
                      /\ task' = [task EXCEPT ![t] = [Free EXCEPT !.pc = "created"]]
                      /\ flight' = t
                      /\ caller' = [caller EXCEPT ![c] = t]
                      /\ UNCHANGED <<World, row, ledger, refresh>>

ReconcileJoin(c) == /\ caller[c] = NoTask /\ ~Unclaimed
                    /\ caller' = [caller EXCEPT ![c] = flight]
                    /\ UNCHANGED <<World, row, ledger, task, flight, refresh>>

\* The shield: cancelling a caller leaves the shared task alone.
CallerCancelled(c) == /\ caller[c] # NoTask
                      /\ caller' = [caller EXCEPT ![c] = NoTask]
                      /\ UNCHANGED <<World, row, ledger, task, flight, refresh>>

CallerAnswered(c) == /\ caller[c] # NoTask /\ task[caller[c]].pc = "finished"
                     /\ caller' = [caller EXCEPT ![c] = NoTask]
                     /\ UNCHANGED <<World, row, ledger, task, flight, refresh>>

\* Mutant: the callback removes whatever task is registered.
PoppedAny(t) == NoTask

\* The registration after t's callback, which only removes t itself.
Popped(t) == IF flight = t THEN NoTask ELSE flight

\* The done callback, registered before any caller awaits the task, runs before any
\* of them resumes; until then a done task is still registered.
Released(t) == /\ task[t].pc = "done"
               /\ task' = [task EXCEPT ![t].pc = "finished"]
               /\ flight' = Popped(t)
               /\ UNCHANGED <<World, row, ledger, caller, refresh>>

\* A finished task nobody awaits any more is garbage.
Collect(t) == /\ task[t].pc = "finished" /\ \A c \in Caller : caller[c] # t
              /\ task' = [task EXCEPT ![t] = Free]
              /\ UNCHANGED <<World, row, ledger, flight, caller, refresh>>

-----------------------------------------------------------------------------
(* Ending a task: _result and apply_reconciliation *)

\* What the row would know of the fill: its own, the status and the ledger.
FillFor(t) == Larger(Larger(row.filled, task[t].status.n), ledger'.confirmed)

RowWith(t, out) == [row EXCEPT !.oid = @ \/ task[t].attempt > 0, !.filled = FillFor(t),
                               !.verdict = IF out = "ZERO" THEN "zero" ELSE "other"]

\* Mutant: the zero is written whatever is known.
AppliedRegardless(t, out) == IF row.current THEN RowWith(t, out) ELSE row

\* The verdict reaches the lifecycle row, which refuses it for a newer generation,
\* and a terminal zero against a known fill; a refusal is swallowed.
Applied(t, out) ==
    IF row.current /\ ~(out = "ZERO" /\ FillFor(t) > 0) THEN RowWith(t, out) ELSE row

Finish(t, out) ==
    /\ task' = [task EXCEPT ![t] = [Free EXCEPT !.pc = "done", !.outcome = out]]
    /\ row' = Applied(t, out)
    /\ UNCHANGED <<World, flight, caller, refresh>>

\* The task goes on to its next read.
Ask(t, pc, status) ==
    /\ task' = [task EXCEPT ![t].pc = pc, ![t].status = status, ![t].answer = NoAnswer]
    /\ UNCHANGED <<World, row, flight, caller, refresh>>

Confirm(n) == ledger' = [ledger EXCEPT !.confirmed = Larger(@, n)]

PositiveOutcome(fill) == IF fill >= Size THEN "FILLED" ELSE "PARTIALLY_FILLED"

-----------------------------------------------------------------------------
(* The task, read by read *)

\* From here on attempt > 0 says that an exact order id is known.
StartTask(t) ==
    /\ task[t].pc = "created" /\ row.current
    /\ task' = [task EXCEPT ![t].pc = IF row.oid THEN "status" ELSE "locating",
                            ![t].attempt = IF row.oid THEN 1 ELSE 0]
    /\ UNCHANGED <<World, row, ledger, flight, caller, refresh>>

\* The generation was replaced before the task began: it raises, nothing is written.
StaleTask(t) == /\ task[t].pc = "created" /\ ~row.current
                /\ task' = [task EXCEPT ![t].pc = "done"]
                /\ UNCHANGED <<World, row, ledger, flight, caller, refresh>>

\* The locator finds the exact order; a payload it comes with is the first status.
Locate(t) ==
    /\ task[t].pc = "locating" /\ venue.label # "NONE"
    /\ \E a \in {NoAnswer} \cup [what : {"order"}, label : {venue.label}, n : 0..venue.matched] :
           task' = [task EXCEPT ![t].pc = "status", ![t].attempt = 1, ![t].answer = a]
    /\ UNCHANGED <<World, row, ledger, flight, caller, refresh>>

\* No locator, or it fails: without an order id nothing is proved.
NotLocated(t) == /\ task[t].pc = "locating"
                 /\ UNCHANGED ledger
                 /\ Finish(t, "AMBIGUOUS")

\* Mutant: a failed read does not count as an attempt.
RetryFree(t) == /\ Has(t, "status", {"unknown"})
                /\ Ask(t, "status", task[t].status) /\ UNCHANGED ledger

\* Status unreadable, or it names another order: try again while attempts last.
Retry(t) == /\ Has(t, "status", {"unknown"}) /\ task[t].attempt < Attempts
            /\ task' = [task EXCEPT ![t].attempt = @ + 1, ![t].answer = NoAnswer]
            /\ UNCHANGED <<World, row, ledger, flight, caller, refresh>>

\* Out of attempts: a fill known to the ledger counts, otherwise nothing is proved.
StatusUnknown(t) ==
    /\ Has(t, "status", {"unknown"}) /\ task[t].attempt = Attempts
    /\ UNCHANGED ledger
    /\ IF ledger.confirmed > 0 THEN Ask(t, "trades", NoAnswer) ELSE Finish(t, "AMBIGUOUS")

\* A status: accounted at once, then classified by what the ledger knows by now.
StatusRead(t) ==
    LET a == task[t].answer
        terminal == a.label \in ZeroClass \cup {"MATCHED"}
    IN /\ Has(t, "status", {"order"})
       /\ Confirm(a.n)
       /\ \/ ledger'.confirmed > 0 /\ Ask(t, "trades", a)
          \/ ledger'.confirmed = 0 /\ terminal /\ Ask(t, "zeroTrades", a)
          \/ ledger'.confirmed = 0 /\ ~terminal /\ Finish(t, "WORKING")

\* Trades refine a positive status; if unreadable, the ledger's fill stands.
TradesRead(t) ==
    /\ Has(t, "trades", {"total", "unknown"})
    /\ Confirm(task[t].answer.n)
    /\ Finish(t, PositiveOutcome(Larger(task[t].status.n, ledger'.confirmed)))

\* Trades before a terminal zero: any fill in the ledger ends the candidate.
KnownFill(t) == Larger(ledger.confirmed, task[t].answer.n)

\* A FILLED status that reports no match contradicts itself and proves nothing.
ZeroCandidate(t) == task[t].status.label \in ZeroClass

ZeroTradesRead(t) ==
    /\ Has(t, "zeroTrades", {"total", "unknown"})
    /\ Confirm(task[t].answer.n)
    /\ \/ KnownFill(t) > 0 /\ Finish(t, PositiveOutcome(KnownFill(t)))
       \/ KnownFill(t) = 0 /\ ZeroCandidate(t) /\ Ask(t, "wallet", task[t].status)
       \/ KnownFill(t) = 0 /\ ~ZeroCandidate(t) /\ Finish(t, "AMBIGUOUS")

WalletUnknown(t) == /\ Has(t, "wallet", {"unknown"})
                    /\ UNCHANGED ledger
                    /\ Finish(t, "AMBIGUOUS")

\* Mutant: the whole balance is taken for this order's fill.
WholeBalance(balance) == balance

Gained(balance) == IF balance > baseline THEN balance - baseline ELSE 0

\* Against a baseline: a gain is a late fill, no gain completes the zero proof.
WalletAgainstBaseline(t) ==
    LET gain == Gained(task[t].answer.n) IN
    /\ Has(t, "wallet", {"total"}) /\ baseline # NoBaseline
    /\ ledger' = [confirmed |-> Larger(ledger.confirmed, gain),
                  resolved |-> ledger.resolved \/ gain = 0]
    /\ Finish(t, IF gain > 0 THEN PositiveOutcome(ledger'.confirmed) ELSE "ZERO")

\* Mutant: without a baseline any balance is taken for the old inventory.
ProvesAbsence(balance) == TRUE

\* Without a baseline only an absolute zero proves that nothing was bought.
AbsoluteZero(balance) == balance = 0

WalletWithoutBaseline(t) ==
    /\ Has(t, "wallet", {"total"}) /\ baseline = NoBaseline
    /\ ledger' = [ledger EXCEPT !.resolved = @ \/ AbsoluteZero(task[t].answer.n)]
    /\ Finish(t, IF AbsoluteZero(task[t].answer.n) THEN "ZERO" ELSE "AMBIGUOUS")

-----------------------------------------------------------------------------
(* The concurrent status refresh of order_manager.py *)

RefreshAnswered == /\ row.oid /\ row.current /\ refresh = NoAnswer
                   /\ \E n \in 0..venue.matched :
                          refresh' = [what |-> "order", label |-> venue.label, n |-> n]
                   /\ UNCHANGED <<World, row, ledger, task, flight, caller>>

\* The ledger learns the answer even if the row has gone to a newer generation.
RefreshApplied == /\ refresh # NoAnswer
                  /\ Confirm(refresh.n)
                  /\ row' = IF row.current THEN [row EXCEPT !.filled = Larger(@, refresh.n)]
                            ELSE row
                  /\ refresh' = NoAnswer
                  /\ UNCHANGED <<World, task, flight, caller>>

\* Supersession, release or pruning takes the row away from a proven zero.
Supersede == /\ row.current /\ row.verdict = "zero" /\ row.filled = 0
             /\ row' = [row EXCEPT !.current = FALSE]
             /\ UNCHANGED <<World, ledger, task, flight, caller, refresh>>

-----------------------------------------------------------------------------
(* The venue and the wallet (external) *)

Answers(t, a) == /\ task' = [task EXCEPT ![t].answer = a]
                 /\ UNCHANGED <<World, row, ledger, flight, caller, refresh>>

StatusReply(t) == /\ Asking(t, "status")
                  /\ \E a \in {Unknown} \cup [what : {"order"}, label : {venue.label},
                                              n : 0..venue.matched] : Answers(t, a)

TradesReply(t) == /\ Asking(t, "trades") \/ Asking(t, "zeroTrades")
                  /\ \E a \in {Unknown} \cup {Total(n) : n \in 0..venue.matched} : Answers(t, a)

WalletReply(t) == /\ Asking(t, "wallet")
                  /\ \E a \in {Unknown, Total(wallet)} : Answers(t, a)

Internal == <<baseline, row, ledger, task, flight, caller, refresh>>

VenueAccept == /\ venue.label = "NONE" /\ venue' = [venue EXCEPT !.label = "LIVE"]
               /\ UNCHANGED <<wallet, Internal>>

VenueMatch == /\ venue.label = "LIVE" /\ (Side = "SELL" => wallet > 0)
              /\ venue' = [label |-> IF venue.matched + 1 = Size THEN "MATCHED" ELSE "LIVE",
                           matched |-> venue.matched + 1]
              /\ wallet' = IF Side = "BUY" THEN wallet + 1 ELSE wallet - 1
              /\ UNCHANGED Internal

VenueEnd(label) == /\ venue.label = "LIVE"
                   /\ label = "INVALID" => venue.matched = 0
                   /\ venue' = [venue EXCEPT !.label = label]
                   /\ UNCHANGED <<wallet, Internal>>

\* Another order of the same token fills.
OtherOrder == /\ SharedWallet
              /\ wallet' \in {wallet - 1, wallet + 1} \cap 0..(Size + MaxStart)
              /\ UNCHANGED <<venue, Internal>>

-----------------------------------------------------------------------------
Step(t) == \/ StartTask(t) \/ StaleTask(t) \/ Locate(t) \/ NotLocated(t)
           \/ Retry(t) \/ StatusUnknown(t) \/ StatusRead(t)
           \/ TradesRead(t) \/ ZeroTradesRead(t)
           \/ WalletUnknown(t) \/ WalletAgainstBaseline(t) \/ WalletWithoutBaseline(t)

Reply(t) == StatusReply(t) \/ TradesReply(t) \/ WalletReply(t)

Outside == VenueAccept \/ VenueMatch \/ (\E l \in ZeroClass : VenueEnd(l)) \/ OtherOrder

Next == \/ \E c \in Caller : \/ \E t \in Task : ReconcileNew(c, t)
                             \/ ReconcileJoin(c) \/ CallerCancelled(c) \/ CallerAnswered(c)
        \/ \E t \in Task : Step(t) \/ Reply(t) \/ Released(t) \/ Collect(t)
        \/ RefreshAnswered \/ RefreshApplied \/ Supersede \/ Outside

Spec == Init /\ [][Next]_vars

\* Every await of the task returns or raises, and the event loop runs what is ready.
Fairness == /\ \A t \in Task : WF_vars(Step(t)) /\ WF_vars(Reply(t)) /\ WF_vars(Released(t))
            /\ \A c \in Caller : WF_vars(CallerAnswered(c))

FairSpec == Spec /\ Fairness

-----------------------------------------------------------------------------
(* Properties *)

\* Every variable keeps its type; the one type invariant of this module.
TypeOK == /\ venue \in [label : Label, matched : 0..Size]
          /\ wallet \in Nat /\ baseline \in Nat \cup {NoBaseline}
          /\ row \in [oid : BOOLEAN, filled : Nat, verdict : {"none", "zero", "other"},
                      current : BOOLEAN]
          /\ ledger \in [confirmed : Nat, resolved : BOOLEAN]
          /\ task \in [Task -> TaskState]
          /\ flight \in Task \cup {NoTask}
          /\ caller \in [Caller -> Task \cup {NoTask}]
          /\ refresh \in Answer

Unfilled == venue.label \in ZeroClass /\ venue.matched = 0

\* Terminal zero is the truth about the order wherever it is recorded, a row that was
\* given away for it included: it is over at the venue and nothing was filled.
ZeroSound == /\ \A t \in Task : task[t].outcome = "ZERO" => Unfilled
             /\ row.verdict = "zero" => Unfilled
             /\ ledger.resolved => Unfilled

\* Whatever else moves the wallet, and for sells too: a zero is only concluded for
\* an order that the venue cancelled or rejected.
TerminalFirst == /\ \A t \in Task : task[t].outcome = "ZERO" => venue.label \in ZeroClass
                 /\ row.verdict = "zero" => venue.label \in ZeroClass

\* No fill is invented: neither the ledger, nor the row, nor an outcome claims
\* more than the venue matched for this order.
FillTruth == /\ ledger.confirmed <= venue.matched /\ row.filled <= venue.matched
             /\ \A t \in Task : /\ task[t].outcome = "FILLED" => venue.matched = Size
                               /\ task[t].outcome = "PARTIALLY_FILLED" => venue.matched > 0

\* What the ledger knows when a reconciliation ends, the row knows too, and a zero is
\* not written over it, though a refresh may have learned it while the task waited for
\* a balance that other orders move; a row of a newer generation is left alone.
FillReachesRow ==
    [][\A t \in Task : Running(t) /\ task'[t].pc = "done" =>
          IF ~row.current THEN row' = row
          ELSE /\ row'.filled >= ledger'.confirmed /\ row'.filled >= row.filled
               /\ row'.filled > 0 => row'.verdict # "zero" \/ row' = row]_vars

\* At most one task works on a lifecycle generation, however callers come and go,
\* also while a task that is done waits for its callback and a newer one runs.
SharedFlight == \A s, t \in Task : Running(s) /\ Running(t) => s = t

\* A caller that keeps waiting is answered: retries are bounded and nobody waits
\* on a task that was dropped.
CallersAnswered == \A c \in Caller : caller[c] # NoTask ~> caller[c] = NoTask

=============================================================================
