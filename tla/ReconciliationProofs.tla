------------------------ MODULE ReconciliationProofs ------------------------
(***************************************************************************)
(* Theorems about reconciliation, for every set of callers and tasks,      *)
(* every size, number of attempts and inventory.                           *)
(*                                                                         *)
(* The first part needs nothing of side or wallet: types, the singleflight,*)
(* terminal status before zero, fills reaching the row.  The second part   *)
(* assumes a BUY whose token nobody else trades, and shows that a zero is   *)
(* then the truth.                                                         *)
(*                                                                         *)
(* The steps of a task fall into three classes: an answer arrives, the     *)
(* task moves on to another read, the task ends.                           *)
(***************************************************************************)
EXTENDS Reconciliation, TLAPS

Ledger == [confirmed : Nat, resolved : BOOLEAN]
Row == [oid : BOOLEAN, filled : Nat, verdict : {"none", "zero", "other"},
        current : BOOLEAN]

\* What a status or trade answer may say: not more than the venue did.
Told(a) == /\ a.n <= venue.matched
           /\ a.label \in ZeroClass => venue.label = a.label

\* An answer arrives at a task that asked.
ReplyStep(t) ==
    \E a \in Answer :
        /\ task' = [task EXCEPT ![t].answer = a]
        /\ task[t].pc \in {"status", "trades", "zeroTrades", "wallet"}
        /\ task[t].pc # "wallet" => Told(a)
        /\ task[t].pc = "wallet" => a.label = "NONE" /\ (a.what = "total" => a.n = wallet)
        /\ UNCHANGED <<World, row, ledger, flight, caller, refresh>>

\* Only the state of t changes, to one with this pc, answer and status.
Becomes(t, pc, ans, st) ==
    /\ task' \in [Task -> TaskState]
    /\ \A u \in Task \ {t} : task'[u] = task[u]
    /\ task'[t].pc = pc /\ task'[t].answer = ans /\ task'[t].status = st
    /\ task'[t].outcome = task[t].outcome

\* A running task goes on; what it keeps is what it had or was told.
MoveStep(t, pc, ans, st) ==
    /\ pc \in {"locating", "status", "trades", "zeroTrades", "wallet"}
    /\ ans \in Answer /\ st \in {task[t].status, task[t].answer, NoAnswer}
    /\ Becomes(t, pc, ans, st)
    /\ Running(t) /\ task[t].pc \notin {"wallet", "trades"}
    /\ ans = NoAnswer \/ (pc # "wallet" /\ (ans = task[t].answer \/ Told(ans)))
    /\ pc = "wallet" => st.label \in ZeroClass
    /\ pc = "trades" => ledger'.confirmed > 0
    /\ pc # "trades" => ledger'.confirmed = ledger.confirmed
    /\ ledger' \in Ledger /\ ledger'.resolved = ledger.resolved
    /\ \/ ledger'.confirmed = ledger.confirmed
       \/ ledger'.confirmed = Larger(ledger.confirmed, task[t].answer.n)
    /\ UNCHANGED <<World, row, flight, caller, refresh>>

Moves(t) == \E pc, ans, st : MoveStep(t, pc, ans, st)

\* What a task may conclude when it ends, and on which evidence.
Evidence(t, out) ==
    \/ /\ task[t].pc # "wallet" /\ out # "ZERO"
       /\ \/ ledger'.confirmed = ledger.confirmed
          \/ ledger'.confirmed = Larger(ledger.confirmed, task[t].answer.n)
    \/ /\ task[t].pc = "wallet" /\ task[t].answer.what = "total" /\ baseline # NoBaseline
       /\ ledger'.confirmed = Larger(ledger.confirmed, Gained(task[t].answer.n))
       /\ out = "ZERO" => Gained(task[t].answer.n) = 0
    \/ /\ task[t].pc = "wallet" /\ ledger'.confirmed = ledger.confirmed
       /\ out = "ZERO" => /\ task[t].answer.what = "total" /\ task[t].answer.n = 0
                          /\ baseline = NoBaseline

EndStep(t, out) ==
    /\ Running(t) /\ Finish(t, out)
    /\ ledger' \in Ledger /\ ledger'.confirmed >= ledger.confirmed
    /\ ledger'.resolved => ledger.resolved \/ out = "ZERO"
    /\ out = "ZERO" => ledger'.confirmed = ledger.confirmed
    /\ out = "FILLED" => Larger(task[t].status.n, ledger'.confirmed) >= Size
    /\ out = "PARTIALLY_FILLED" => task[t].pc = "trades" \/ ledger'.confirmed > 0
    /\ Evidence(t, out)

-----------------------------------------------------------------------------
(* Which actions belong to which class *)

\* The parts of a task are typed.
LEMMA TaskType ==
    ASSUME TypeOK, NEW t \in Task
    PROVE  /\ task[t] \in TaskState
           /\ task[t].answer \in Answer /\ task[t].status \in Answer
           /\ task[t].answer.n \in Nat /\ task[t].status.n \in Nat
           /\ task[t].answer.label \in Label /\ task[t].status.label \in Label
           /\ task[t].attempt \in 0..Attempts
           /\ ledger.confirmed \in Nat /\ ledger.resolved \in BOOLEAN
           /\ row.filled \in Nat /\ row.oid \in BOOLEAN
           /\ row.verdict \in {"none", "zero", "other"} /\ row.current \in BOOLEAN
           /\ venue.matched \in 0..Size /\ venue.label \in Label
           /\ wallet \in Nat /\ baseline \in Nat \cup {NoBaseline}
  BY DEF TypeOK, TaskState, Answer

LEMMA AnswerTypes ==
    /\ NoAnswer \in Answer /\ Unknown \in Answer /\ NoAnswer.n = 0 /\ Unknown.n = 0
    /\ NoAnswer.label = "NONE" /\ Unknown.label = "NONE" /\ Unknown.what = "unknown"
    /\ NoAnswer.what = "none"
    /\ \A n \in Nat : Total(n) \in Answer /\ Total(n).n = n /\ Total(n).label = "NONE"
  BY DEF NoAnswer, Unknown, Total, Answer, Label

LEMMA RepliesStep ==
    ASSUME TypeOK, NEW t \in Task, Reply(t)
    PROVE  ReplyStep(t)
<1>1. CASE StatusReply(t)
  <2>1. PICK a \in {Unknown} \cup [what : {"order"}, label : {venue.label}, n : 0..venue.matched] :
            Answers(t, a)
    BY <1>1 DEF StatusReply
  <2>2. a \in Answer /\ Told(a)
    BY TaskType, AnswerTypes DEF Answer, Told, ZeroClass
  <2>. QED BY <1>1, <2>1, <2>2 DEF StatusReply, Asking, Answers, ReplyStep
<1>2. CASE TradesReply(t)
  <2>1. PICK a \in {Unknown} \cup {Total(n) : n \in 0..venue.matched} : Answers(t, a)
    BY <1>2 DEF TradesReply
  <2>2. a \in Answer /\ Told(a)
    BY TaskType, AnswerTypes DEF Told, ZeroClass
  <2>. QED BY <1>2, <2>1, <2>2 DEF TradesReply, Asking, Answers, ReplyStep
<1>3. CASE WalletReply(t)
  <2>1. PICK a \in {Unknown, Total(wallet)} : Answers(t, a)
    BY <1>3 DEF WalletReply
  <2>2. a \in Answer /\ a.label = "NONE" /\ (a.what = "total" => a.n = wallet)
    BY TaskType, AnswerTypes
  <2>. QED BY <1>3, <2>1, <2>2 DEF WalletReply, Asking, Answers, ReplyStep
<1>. QED BY <1>1, <1>2, <1>3 DEF Reply

\* Every step of a task moves it on or ends it, with a verdict or an exception.
LEMMA StepsStep ==
    ASSUME TypeOK, NEW t \in Task, Step(t)
    PROVE  Moves(t) \/ StaleTask(t) \/ \E out \in Outcome : EndStep(t, out)
<1> DEFINE a == task[t].answer
<1>t. /\ task[t] \in TaskState /\ a \in Answer /\ a.n \in Nat /\ task[t].status \in Answer
      /\ task[t].attempt \in 0..Attempts
      /\ ledger \in Ledger /\ ledger.confirmed \in Nat /\ ledger.resolved \in BOOLEAN
  BY TaskType DEF TypeOK, Ledger
<1>o. Outcome = {"FILLED", "PARTIALLY_FILLED", "WORKING", "ZERO", "AMBIGUOUS"}
  BY DEF Outcome
<1>a. ASSUME NEW pc \in {"status", "trades", "zeroTrades", "wallet"}, NEW st \in Answer,
             Ask(t, pc, st)
      PROVE  Becomes(t, pc, NoAnswer, st)
  <2>1. /\ task'[t] = [task[t] EXCEPT !.pc = pc, !.status = st, !.answer = NoAnswer]
        /\ \A u \in Task \ {t} : task'[u] = task[u]
    BY <1>a DEF Ask, TypeOK
  <2>. QED BY <1>a, <2>1, <1>t, AnswerTypes DEF Ask, Becomes, TaskState, TypeOK
<1>c. Confirm(a.n) => /\ ledger' \in Ledger /\ ledger'.resolved = ledger.resolved
                      /\ ledger'.confirmed = Larger(ledger.confirmed, a.n)
                      /\ ledger'.confirmed >= ledger.confirmed /\ ledger'.confirmed >= a.n
                      /\ ledger'.confirmed \in Nat
  BY <1>t DEF Confirm, Ledger, Larger
<1>1. CASE StartTask(t)
  <2> DEFINE pc == IF row.oid THEN "status" ELSE "locating"
             n == IF row.oid THEN 1 ELSE 0
  <2>1. /\ pc \in {"status", "locating"} /\ n \in 0..Attempts
        /\ task' = [task EXCEPT ![t].pc = pc, ![t].attempt = n]
    BY <1>1, ReconSizesAssumption DEF StartTask
  <2>. HIDE DEF pc, n
  <2>2. /\ task'[t] = [task[t] EXCEPT !.pc = pc, !.attempt = n]
        /\ \A u \in Task \ {t} : task'[u] = task[u]
        /\ task' \in [Task -> TaskState]
    BY <2>1, <1>t DEF TypeOK, TaskState
  <2>3. Becomes(t, pc, a, task[t].status)
    BY <2>1, <2>2, <1>t DEF Becomes, TaskState
  <2>5. MoveStep(t, pc, a, task[t].status)
    BY <1>1, <2>1, <2>3, <1>t, AnswerTypes DEF StartTask, MoveStep, Running
  <2>. QED BY <2>5 DEF Moves
<1>2. CASE Locate(t)
  <2>1. PICK ans \in {NoAnswer} \cup [what : {"order"}, label : {venue.label}, n : 0..venue.matched] :
            task' = [task EXCEPT ![t].pc = "status", ![t].attempt = 1, ![t].answer = ans]
    BY <1>2 DEF Locate
  <2>2. ans \in Answer /\ Told(ans)
    BY TaskType, AnswerTypes DEF Answer, Told, ZeroClass
  <2>3. 1 \in 0..Attempts
    BY ReconSizesAssumption
  <2>4. Becomes(t, "status", ans, task[t].status)
    BY <2>1, <2>2, <2>3, <1>t DEF Becomes, TypeOK, TaskState
  <2>5. MoveStep(t, "status", ans, task[t].status)
    BY <1>2, <2>2, <2>4, <1>t, AnswerTypes DEF Locate, MoveStep, Running
  <2>. QED BY <2>5 DEF Moves
<1>3. CASE NotLocated(t)
  BY <1>3, <1>t, <1>o DEF NotLocated, EndStep, Running, Evidence
<1>4. CASE Retry(t)
  <2> DEFINE n == task[t].attempt + 1
  <2>1. /\ task[t].pc = "status" /\ n \in 0..Attempts
        /\ task' = [task EXCEPT ![t].attempt = n, ![t].answer = NoAnswer]
    BY <1>4, <1>t, ReconSizesAssumption DEF Retry, Has
  <2>. HIDE DEF n
  <2> DEFINE s == [task[t] EXCEPT !.attempt = n, !.answer = NoAnswer]
  <2>2. task'[t] = s /\ \A u \in Task \ {t} : task'[u] = task[u]
    BY <2>1, <1>t DEF TypeOK
  <2>3. s \in TaskState
    BY <2>1, <1>t, AnswerTypes DEF TaskState
  <2>4. /\ task'[t] = [task[t] EXCEPT !.attempt = n, !.answer = NoAnswer]
        /\ \A u \in Task \ {t} : task'[u] = task[u]
        /\ task' \in [Task -> TaskState]
    BY <2>2, <2>3, <2>1 DEF TypeOK
  <2>5. Becomes(t, "status", NoAnswer, task[t].status)
    BY <2>1, <2>4, <1>t DEF Becomes, TaskState
  <2>6. MoveStep(t, "status", NoAnswer, task[t].status)
    BY <1>4, <2>1, <2>5, <1>t, AnswerTypes DEF Retry, MoveStep, Running
  <2>. QED BY <2>6 DEF Moves
<1>5. CASE StatusUnknown(t)
  <2>1. CASE ledger.confirmed > 0
    <3>1. Ask(t, "trades", NoAnswer)
      BY <1>5, <2>1 DEF StatusUnknown
    <3>2. Becomes(t, "trades", NoAnswer, NoAnswer)
      BY <3>1, <1>a, AnswerTypes
    <3>5. MoveStep(t, "trades", NoAnswer, NoAnswer)
      BY <1>5, <2>1, <3>1, <3>2, <1>t, AnswerTypes DEF StatusUnknown, Has, MoveStep, Running, Ask
    <3>. QED BY <3>5 DEF Moves
  <2>2. CASE ~(ledger.confirmed > 0)
    BY <1>5, <2>2, <1>t, <1>o DEF StatusUnknown, Has, EndStep, Running, Evidence
  <2>. QED BY <2>1, <2>2
<1>6. CASE StatusRead(t)
  <2>1. task[t].pc = "status" /\ Confirm(a.n)
    BY <1>6 DEF StatusRead, Has
  <2>2. CASE ledger'.confirmed > 0 /\ Ask(t, "trades", a)
    <3>1. Becomes(t, "trades", NoAnswer, a)
      BY <2>2, <1>a, <1>t
    <3>5. MoveStep(t, "trades", NoAnswer, a)
      BY <2>1, <2>2, <3>1, <1>c, <1>t, AnswerTypes DEF MoveStep, Running, Ask
    <3>. QED BY <3>5 DEF Moves
  <2>3. CASE ledger'.confirmed = 0 /\ Ask(t, "zeroTrades", a)
    <3>1. ledger'.confirmed = ledger.confirmed
      BY <2>1, <2>3, <1>c, <1>t
    <3>2. Becomes(t, "zeroTrades", NoAnswer, a)
      BY <2>3, <1>a, <1>t
    <3>5. MoveStep(t, "zeroTrades", NoAnswer, a)
      BY <2>1, <2>3, <3>1, <3>2, <1>c, <1>t, AnswerTypes DEF MoveStep, Running, Ask
    <3>. QED BY <3>5 DEF Moves
  <2>4. CASE Finish(t, "WORKING")
    BY <2>1, <2>4, <1>c, <1>t, <1>o DEF EndStep, Running, Evidence
  <2>. QED BY <1>6, <2>2, <2>3, <2>4 DEF StatusRead
<1>7. CASE TradesRead(t)
  <2> DEFINE fill == Larger(task[t].status.n, ledger'.confirmed)
  <2>1. task[t].pc = "trades" /\ Confirm(a.n) /\ Finish(t, PositiveOutcome(fill))
    BY <1>7 DEF TradesRead, Has
  <2>2. PositiveOutcome(fill) \in {"FILLED", "PARTIALLY_FILLED"}
        /\ (PositiveOutcome(fill) = "FILLED" => fill >= Size)
    BY DEF PositiveOutcome
  <2>. QED BY <2>1, <2>2, <1>c, <1>t, <1>o DEF EndStep, Running, Evidence
<1>8. CASE ZeroTradesRead(t)
  <2> DEFINE fill == KnownFill(t)
  <2>1. task[t].pc = "zeroTrades" /\ Confirm(a.n) /\ fill = ledger'.confirmed
    BY <1>8, <1>c DEF ZeroTradesRead, Has, KnownFill
  <2>2. CASE fill > 0 /\ Finish(t, PositiveOutcome(fill))
    <3>1. PositiveOutcome(fill) \in {"FILLED", "PARTIALLY_FILLED"}
          /\ (PositiveOutcome(fill) = "FILLED" => fill >= Size)
      BY DEF PositiveOutcome
    <3>2. Larger(task[t].status.n, ledger'.confirmed) >= ledger'.confirmed
      BY <2>1, <1>c, TaskType DEF Larger
    <3>3. PositiveOutcome(fill) = "FILLED" => Larger(task[t].status.n, ledger'.confirmed) >= Size
      BY <2>1, <3>1, <3>2, <1>c, TaskType, ReconSizesAssumption DEF Larger
    <3>. QED BY <2>1, <2>2, <3>1, <3>3, <1>c, <1>t, <1>o DEF EndStep, Running, Evidence
  <2>3. CASE fill = 0 /\ ZeroCandidate(t) /\ Ask(t, "wallet", task[t].status)
    <3>1. ledger'.confirmed = ledger.confirmed
      BY <2>1, <2>3, <1>c, <1>t
    <3>2. Becomes(t, "wallet", NoAnswer, task[t].status)
      BY <2>3, <1>a, <1>t
    <3>5. MoveStep(t, "wallet", NoAnswer, task[t].status)
      BY <2>1, <2>3, <3>1, <3>2, <1>c, <1>t, AnswerTypes DEF MoveStep, Running, Ask, ZeroCandidate
    <3>. QED BY <3>5 DEF Moves
  <2>4. CASE Finish(t, "AMBIGUOUS")
    BY <2>1, <2>4, <1>c, <1>t, <1>o DEF EndStep, Running, Evidence
  <2>. QED BY <1>8, <2>2, <2>3, <2>4 DEF ZeroTradesRead
<1>9. CASE WalletUnknown(t)
  BY <1>9, <1>t, <1>o DEF WalletUnknown, Has, EndStep, Running, Evidence
<1>10. CASE WalletAgainstBaseline(t)
  <2> DEFINE gain == Gained(a.n)
             out == IF gain > 0 THEN PositiveOutcome(ledger'.confirmed) ELSE "ZERO"
  <2>1. /\ task[t].pc = "wallet" /\ a.what = "total" /\ baseline # NoBaseline
        /\ ledger' = [confirmed |-> Larger(ledger.confirmed, gain),
                      resolved |-> ledger.resolved \/ gain = 0]
        /\ Finish(t, out)
    BY <1>10 DEF WalletAgainstBaseline, Has
  <2>2. gain \in Nat
    BY <2>1, <1>t, TaskType DEF Gained, NoBaseline
  <2>3. /\ ledger' \in Ledger /\ ledger'.confirmed = Larger(ledger.confirmed, gain)
        /\ ledger'.resolved = (ledger.resolved \/ gain = 0)
        /\ ledger'.confirmed >= ledger.confirmed /\ ledger'.confirmed >= gain
        /\ ledger'.confirmed \in Nat
        /\ gain = 0 => ledger'.confirmed = ledger.confirmed
    BY <2>1, <2>2, <1>t DEF Ledger, Larger
  <2>4. /\ out \in {"FILLED", "PARTIALLY_FILLED", "ZERO"} /\ (out = "ZERO" <=> gain = 0)
        /\ out = "FILLED" => ledger'.confirmed >= Size
        /\ out = "PARTIALLY_FILLED" => ledger'.confirmed > 0
    BY <2>2, <2>3 DEF PositiveOutcome
  <2>5. out = "FILLED" => Larger(task[t].status.n, ledger'.confirmed) >= Size
    BY <2>3, <2>4, TaskType, ReconSizesAssumption DEF Larger
  <2>. HIDE DEF gain, out
  <2>. QED BY <2>1, <2>3, <2>4, <2>5, <1>o DEF EndStep, Running, Evidence, gain
<1>11. CASE WalletWithoutBaseline(t)
  <2> DEFINE zero == AbsoluteZero(a.n)
             out == IF zero THEN "ZERO" ELSE "AMBIGUOUS"
  <2>1. /\ task[t].pc = "wallet" /\ a.what = "total" /\ baseline = NoBaseline
        /\ ledger' = [ledger EXCEPT !.resolved = @ \/ zero] /\ Finish(t, out)
    BY <1>11 DEF WalletWithoutBaseline, Has
  <2>2. ledger' \in Ledger /\ ledger'.confirmed = ledger.confirmed
        /\ ledger'.resolved = (ledger.resolved \/ zero)
    BY <2>1, <1>t DEF Ledger, AbsoluteZero
  <2>3. out \in {"ZERO", "AMBIGUOUS"} /\ (out = "ZERO" <=> zero) /\ (zero <=> a.n = 0)
    BY DEF AbsoluteZero
  <2>. HIDE DEF zero, out
  <2>. QED BY <2>1, <2>2, <2>3, <1>o, <1>t DEF EndStep, Running, Evidence
<1>. QED BY <1>1, <1>2, <1>3, <1>4, <1>5, <1>6, <1>7, <1>8, <1>9, <1>10, <1>11 DEF Step

-----------------------------------------------------------------------------
(* For every side and every wallet *)

\* The registered task is the one that runs.
Flown == \A t \in Task : Running(t) => flight = t

\* What a task holds of a terminal status is the venue's.
Honest(t) == /\ task[t].answer.label \in ZeroClass => venue.label = task[t].answer.label
             /\ task[t].status.label \in ZeroClass => venue.label = task[t].status.label
             /\ task[t].pc = "wallet" => task[t].status.label \in ZeroClass

\* The ledger is ahead of a current row only while a task reads trades.
RowKnows == row.current /\ (\A t \in Task : task[t].pc # "trades") =>
                row.filled >= ledger.confirmed

\* An order with lots left is all that can match.
Open == venue.label \in {"NONE", "LIVE"} => venue.matched < Size

BaseInv == /\ TypeOK /\ Open /\ Flown /\ TerminalFirst /\ RowKnows
           /\ \A t \in Task : Honest(t)

LEMMA BaseInit == Init => BaseInv
<1> SUFFICES ASSUME Init PROVE BaseInv
  OBVIOUS
<1>1. /\ \A t \in Task : task[t] = Free
      /\ task = [t \in Task |-> Free] /\ flight = NoTask /\ refresh = NoAnswer
      /\ venue \in [label : {"NONE", "LIVE"}, matched : {0}]
      /\ row \in [oid : BOOLEAN, filled : {0}, verdict : {"none"}, current : {TRUE}]
      /\ ledger = [confirmed |-> 0, resolved |-> FALSE]
      /\ caller = [c \in Caller |-> NoTask]
  BY DEF Init
<1>2. wallet \in Nat /\ baseline \in Nat \cup {NoBaseline}
  BY ReconSizesAssumption DEF Init, NoBaseline
<1>3. Free \in TaskState /\ Free.pc = "free" /\ Free.outcome = "none"
      /\ Free.answer.label = "NONE" /\ Free.status.label = "NONE"
  BY AnswerTypes, ReconSizesAssumption DEF Free, TaskState, Outcome
<1>4. TypeOK
  <2>1. row \in [oid : BOOLEAN, filled : Nat, verdict : {"none", "zero", "other"},
                 current : BOOLEAN]
    <3>1. /\ {TRUE} \subseteq BOOLEAN /\ {0} \subseteq Nat
          /\ {"none"} \subseteq {"none", "zero", "other"}
      OBVIOUS
    <3>. QED BY <1>1, <3>1
  <2>2. venue \in [label : Label, matched : 0..Size] /\ ledger \in [confirmed : Nat, resolved : BOOLEAN]
    BY <1>1, ReconSizesAssumption DEF Label
  <2>. QED BY <1>1, <1>2, <1>3, <2>1, <2>2, AnswerTypes DEF TypeOK
<1>5. Open /\ Flown /\ TerminalFirst /\ RowKnows /\ \A t \in Task : Honest(t)
  BY <1>1, <1>3, ReconSizesAssumption DEF Open, Flown, Running, TerminalFirst, RowKnows, Honest, ZeroClass
<1>. QED BY <1>4, <1>5 DEF BaseInv

\* A caller comes, joins, leaves or is answered; a task is created, raises because
\* its generation is gone, is taken out of the map by its callback, or is dropped.
CallerStep ==
    /\ UNCHANGED <<World, row, ledger, refresh>>
    /\ caller' \in [Caller -> Task \cup {NoTask}]
    /\ \/ UNCHANGED <<task, flight>>
       \/ \E t \in Task : /\ Unclaimed /\ flight' = t /\ task[t].pc = "free"
                          /\ task' = [task EXCEPT ![t] = [Free EXCEPT !.pc = "created"]]
       \/ \E t \in Task : /\ task[t].pc = "created" /\ ~row.current /\ flight' = flight
                          /\ task' = [task EXCEPT ![t].pc = "done"]
       \/ \E t \in Task : /\ task[t].pc = "done" /\ flight' = Popped(t)
                          /\ task' = [task EXCEPT ![t].pc = "finished"]
       \/ \E t \in Task : /\ task[t].pc = "finished" /\ flight' = flight
                          /\ task' = [task EXCEPT ![t] = Free]

LEMMA CallersStep ==
    ASSUME TypeOK,
           \/ \E c \in Caller : \/ \E t \in Task : ReconcileNew(c, t)
                                \/ ReconcileJoin(c) \/ CallerCancelled(c) \/ CallerAnswered(c)
           \/ \E t \in Task : StaleTask(t) \/ Released(t) \/ Collect(t)
    PROVE  CallerStep
<1>1. ASSUME NEW c \in Caller, NEW t \in Task, ReconcileNew(c, t)
      PROVE  CallerStep
  BY <1>1 DEF ReconcileNew, CallerStep, TypeOK
<1>2. ASSUME NEW c \in Caller, ReconcileJoin(c) \/ CallerCancelled(c) \/ CallerAnswered(c)
      PROVE  CallerStep
  <2>1. ReconcileJoin(c) => flight \in Task
    BY DEF ReconcileJoin, Unclaimed
  <2>. QED BY <1>2, <2>1 DEF ReconcileJoin, CallerCancelled, CallerAnswered, CallerStep, TypeOK
<1>3. ASSUME NEW t \in Task, StaleTask(t) \/ Released(t) \/ Collect(t)
      PROVE  CallerStep
  BY <1>3 DEF StaleTask, Released, Collect, CallerStep, TypeOK
<1>. QED BY <1>1, <1>2, <1>3

\* Everything that happens is one of these.
LEMMA NextClasses ==
    ASSUME TypeOK, Next
    PROVE  \/ CallerStep
           \/ \E t \in Task : \/ ReplyStep(t) \/ Moves(t)
                              \/ \E out \in Outcome : EndStep(t, out)
           \/ RefreshAnswered \/ RefreshApplied \/ Supersede \/ Outside
BY CallersStep, RepliesStep, StepsStep DEF Next

\* What such a step does to task t: nothing, it is new or dropped, or it is done or
\* released with what it had.
Same(t) == task'[t] = task[t]
Fresh(t) == /\ ~Running(t) /\ task[t].pc # "done" /\ task'[t].pc \in {"created", "free"}
            /\ task'[t].outcome = "none"
            /\ task'[t].answer.label = "NONE" /\ task'[t].answer.n = 0
            /\ task'[t].status.label = "NONE" /\ task'[t].status.n = 0
            /\ Running(t)' => Unclaimed /\ flight' = t
Left(t) == /\ task'[t].pc \in {"done", "finished"} /\ task[t].pc \in {"created", "done"}
           /\ task'[t].outcome = task[t].outcome /\ task'[t].answer = task[t].answer
           /\ task'[t].status = task[t].status
           /\ task[t].pc = "created" => ~row.current

LEMMA CallerShape ==
    ASSUME TypeOK, CallerStep
    PROVE  /\ task' \in [Task -> TaskState] /\ flight' \in Task \cup {NoTask}
           /\ \A t \in Task : Same(t) \/ Fresh(t) \/ Left(t)
           /\ flight' # flight => /\ flight \in Task => ~Running(flight)
                                  /\ flight' = NoTask \/ Unclaimed
<1> DEFINE Created == [Free EXCEPT !.pc = "created"]
<1>f. /\ Free \in TaskState /\ Created \in TaskState
      /\ Free.pc = "free" /\ Created.pc = "created"
      /\ \A s \in {Free, Created} : /\ s.outcome = "none" /\ s.answer.label = "NONE"
                                    /\ s.status.label = "NONE" /\ s.answer.n = 0
                                    /\ s.status.n = 0
  BY AnswerTypes, ReconSizesAssumption DEF Free, TaskState, Outcome
<1>t. task \in [Task -> TaskState] /\ flight \in Task \cup {NoTask}
  BY DEF TypeOK
<1>1. CASE UNCHANGED <<task, flight>>
  BY <1>t, <1>1 DEF Same
<1>2. ASSUME NEW t \in Task, task[t].pc = "free", Unclaimed, flight' = t,
             task' = [task EXCEPT ![t] = Created]
      PROVE  /\ task' \in [Task -> TaskState] /\ \A u \in Task : Same(u) \/ Fresh(u)
             /\ flight \in Task => ~Running(flight)
  <2>1. /\ task'[t] = Created /\ \A u \in Task \ {t} : task'[u] = task[u]
        /\ task' \in [Task -> TaskState]
    BY <1>t, <1>f, <1>2
  <2>. HIDE DEF Created
  <2>2. Fresh(t)
    BY <1>f, <1>2, <2>1 DEF Fresh, Running
  <2>. QED BY <1>2, <2>1, <2>2 DEF Same, Unclaimed
<1>3. ASSUME NEW t \in Task, NEW pc \in {"done", "finished"},
             task' = [task EXCEPT ![t].pc = pc], task[t].pc \in {"created", "done"},
             task[t].pc = "created" => ~row.current
      PROVE  task' \in [Task -> TaskState] /\ \A u \in Task : Same(u) \/ Left(u)
  <2>1. /\ task'[t] = [task[t] EXCEPT !.pc = pc] /\ \A u \in Task \ {t} : task'[u] = task[u]
        /\ task' \in [Task -> TaskState]
    BY <1>t, <1>3 DEF TaskState
  <2>2. Left(t)
    BY <1>t, <1>3, <2>1 DEF Left, TaskState
  <2>. QED BY <2>1, <2>2 DEF Same
<1>4. ASSUME NEW t \in Task, task[t].pc = "finished", task' = [task EXCEPT ![t] = Free]
      PROVE  task' \in [Task -> TaskState] /\ \A u \in Task : Same(u) \/ Fresh(u)
  <2>1. /\ task'[t] = Free /\ \A u \in Task \ {t} : task'[u] = task[u]
        /\ task' \in [Task -> TaskState]
    BY <1>t, <1>f, <1>4
  <2>2. Fresh(t)
    BY <1>f, <1>4, <2>1 DEF Fresh, Running
  <2>. QED BY <2>1, <2>2 DEF Same
<1>. HIDE DEF Created
<1>5. ASSUME NEW t \in Task, task[t].pc = "created", ~row.current, flight' = flight,
             task' = [task EXCEPT ![t].pc = "done"]
      PROVE  task' \in [Task -> TaskState] /\ \A u \in Task : Same(u) \/ Left(u)
  BY <1>3, <1>5
<1>6. ASSUME NEW t \in Task, task[t].pc = "done", flight' = Popped(t),
             task' = [task EXCEPT ![t].pc = "finished"]
      PROVE  /\ task' \in [Task -> TaskState] /\ \A u \in Task : Same(u) \/ Left(u)
             /\ flight' = flight \/ (flight' = NoTask /\ ~Running(flight))
  BY <1>3, <1>6 DEF Popped, Running
<1>. QED BY <1>t, <1>1, <1>2, <1>4, <1>5, <1>6 DEF CallerStep, Created

LEMMA CallerBase == BaseInv /\ CallerStep => BaseInv'
<1> SUFFICES ASSUME BaseInv, CallerStep PROVE BaseInv'
  OBVIOUS
<1>0. TypeOK /\ Open /\ Flown /\ TerminalFirst /\ RowKnows /\ \A t \in Task : Honest(t)
  BY DEF BaseInv
<1>u. UNCHANGED <<venue, wallet, baseline, row, ledger, refresh>>
      /\ caller' \in [Caller -> Task \cup {NoTask}]
  BY DEF CallerStep, World
<1>1. /\ task' \in [Task -> TaskState] /\ flight' \in Task \cup {NoTask}
      /\ \A t \in Task : Same(t) \/ Fresh(t) \/ Left(t)
      /\ flight' # flight => /\ flight \in Task => ~Running(flight)
                             /\ flight' = NoTask \/ Unclaimed
  BY <1>0, CallerShape
<1>2. TypeOK' /\ Open'
  BY <1>0, <1>u, <1>1 DEF TypeOK, Open
<1>3. Flown'
  <2> SUFFICES ASSUME NEW t \in Task, Running(t)' PROVE flight' = t
    BY DEF Flown
  <2>1. CASE Same(t)
    <3>1. Running(t) /\ flight = t
      BY <1>0, <2>1 DEF Same, Running, Flown
    <3>2. flight' # flight => (flight \in Task => ~Running(flight))
      BY <1>1
    <3>. QED BY <3>1, <3>2
  <2>2. CASE Fresh(t)
    BY <2>2 DEF Fresh
  <2>3. CASE Left(t)
    BY <2>3 DEF Left, Running
  <2>. QED BY <1>1, <2>1, <2>2, <2>3
<1>4. TerminalFirst'
  BY <1>0, <1>u, <1>1 DEF TerminalFirst, Same, Fresh, Left
<1>5. (\A t \in Task : Honest(t))'
  BY <1>0, <1>u, <1>1 DEF Honest, ZeroClass, Same, Fresh, Left
<1>6. RowKnows'
  <2>1. \A t \in Task : task[t].pc = "trades" => task'[t].pc = "trades"
    BY <1>1 DEF Same, Fresh, Left, Running
  <2>. QED BY <1>0, <1>u, <2>1 DEF RowKnows
<1>. QED BY <1>2, <1>3, <1>4, <1>5, <1>6 DEF BaseInv

LEMMA ReplyBase ==
    ASSUME BaseInv, NEW t \in Task, ReplyStep(t)
    PROVE  BaseInv'
<1>0. TypeOK /\ Open /\ Flown /\ TerminalFirst /\ RowKnows /\ \A u \in Task : Honest(u)
  BY DEF BaseInv
<1>1. PICK a \in Answer :
        /\ task' = [task EXCEPT ![t].answer = a]
        /\ task[t].pc \in {"status", "trades", "zeroTrades", "wallet"}
        /\ task[t].pc # "wallet" => Told(a)
        /\ task[t].pc = "wallet" => a.label = "NONE"
        /\ UNCHANGED <<World, row, ledger, flight, caller, refresh>>
  BY DEF ReplyStep
<1>2. /\ task'[t] = [task[t] EXCEPT !.answer = a] /\ \A u \in Task \ {t} : task'[u] = task[u]
      /\ [task[t] EXCEPT !.answer = a] \in TaskState
  BY <1>0, <1>1 DEF TypeOK, TaskState
<1>3. /\ task'[t].pc = task[t].pc /\ task'[t].answer = a /\ task'[t].status = task[t].status
      /\ task'[t].outcome = task[t].outcome
  BY <1>0, <1>2 DEF TypeOK, TaskState
<1>u. UNCHANGED <<venue, wallet, baseline, row, ledger, flight, caller, refresh>>
  BY <1>1 DEF World
<1>4. TypeOK'
  <2>1. task' \in [Task -> TaskState]
    BY <1>0, <1>1, <1>2 DEF TypeOK
  <2>. QED BY <1>0, <1>u, <2>1 DEF TypeOK
<1>5. Open' /\ Flown' /\ TerminalFirst' /\ RowKnows'
  BY <1>0, <1>u, <1>2, <1>3 DEF Open, Flown, Running, TerminalFirst, RowKnows
<1>6. (\A u \in Task : Honest(u))'
  BY <1>0, <1>u, <1>1, <1>2, <1>3 DEF Honest, Told, ZeroClass
<1>. QED BY <1>4, <1>5, <1>6 DEF BaseInv

LEMMA MoveBase ==
    ASSUME BaseInv, NEW t \in Task, NEW pc, NEW ans, NEW st, MoveStep(t, pc, ans, st)
    PROVE  BaseInv'
<1>0. TypeOK /\ Open /\ Flown /\ TerminalFirst /\ RowKnows /\ \A u \in Task : Honest(u)
  BY DEF BaseInv
<1>1. /\ task' \in [Task -> TaskState] /\ \A u \in Task \ {t} : task'[u] = task[u]
      /\ task'[t].pc = pc /\ task'[t].answer = ans /\ task'[t].status = st
      /\ task'[t].outcome = task[t].outcome
      /\ Running(t) /\ ledger' \in Ledger /\ ledger'.resolved = ledger.resolved
      /\ pc \in {"locating", "status", "trades", "zeroTrades", "wallet"}
      /\ UNCHANGED <<venue, wallet, baseline, row, flight, caller, refresh>>
  BY DEF MoveStep, Becomes, World
<1>2. TypeOK'
  BY <1>0, <1>1 DEF TypeOK, Ledger
<1>3. Open' /\ Flown' /\ TerminalFirst'
  BY <1>0, <1>1 DEF Open, Flown, Running, TerminalFirst
<1>4. \A u \in Task : Running(u) => u = t
  BY <1>0, <1>1 DEF Flown
<1>5. RowKnows'
  <2>1. CASE pc = "trades"
    BY <1>1, <2>1 DEF RowKnows
  <2>2. CASE pc # "trades"
    <3>1. ledger'.confirmed = ledger.confirmed
      BY <2>2 DEF MoveStep
    <3>2. CASE task[t].pc # "trades"
      BY <1>0, <1>1, <1>4, <3>1, <3>2 DEF RowKnows, Running
    <3>3. CASE task[t].pc = "trades"
      BY <3>3 DEF MoveStep
    <3>. QED BY <3>2, <3>3
  <2>. QED BY <2>1, <2>2
<1>6. (\A u \in Task : Honest(u))'
  <2>1. \A u \in Task \ {t} : Honest(u)'
    BY <1>0, <1>1 DEF Honest
  <2>2. Honest(t)'
    BY <1>0, <1>1, AnswerTypes DEF MoveStep, Honest, Told, ZeroClass
  <2>. QED BY <2>1, <2>2
<1>. QED BY <1>2, <1>3, <1>5, <1>6 DEF BaseInv

\* What a task leaves when it ends: its outcome, and a row that is as it was or
\* learned what the ledger knows; a zero is only written over no fill.
Ending(t, out) ==
    /\ task' \in [Task -> TaskState] /\ \A u \in Task \ {t} : task'[u] = task[u]
    /\ task'[t].pc = "done" /\ task'[t].outcome = out
    /\ task'[t].answer = NoAnswer /\ task'[t].status = NoAnswer
    /\ row' \in Row /\ row'.filled >= row.filled /\ row'.current = row.current
    /\ \/ row' = row /\ (row.current => out = "ZERO")
       \/ /\ row.current /\ row'.filled >= ledger'.confirmed
          /\ row'.verdict = "zero" => out = "ZERO" /\ row'.filled = 0
    /\ row'.filled \in {row.filled, task[t].status.n, ledger'.confirmed}
    /\ UNCHANGED <<venue, wallet, baseline, flight, caller, refresh>>

LEMMA EndShape ==
    ASSUME TypeOK, NEW t \in Task, NEW out \in Outcome, EndStep(t, out)
    PROVE  Ending(t, out)
<1> DEFINE s == [Free EXCEPT !.pc = "done", !.outcome = out]
           fill == FillFor(t)
           oid == row.oid \/ task[t].attempt > 0
           verdict == IF out = "ZERO" THEN "zero" ELSE "other"
<1>1. /\ task' = [task EXCEPT ![t] = s] /\ row' = Applied(t, out)
      /\ UNCHANGED <<venue, wallet, baseline, flight, caller, refresh>>
  BY DEF EndStep, Finish, World
<1>2. task \in [Task -> TaskState] /\ row \in Row
      /\ row.filled \in Nat /\ task[t].status.n \in Nat /\ ledger'.confirmed \in Nat
      /\ row.oid \in BOOLEAN /\ task[t].attempt \in 0..Attempts
  BY TaskType DEF TypeOK, Row, EndStep, Ledger
<1>3. /\ s \in TaskState /\ s.pc = "done" /\ s.outcome = out
      /\ s.answer = NoAnswer /\ s.status = NoAnswer
  <2>1. s = [pc |-> "done", attempt |-> 0, answer |-> NoAnswer, status |-> NoAnswer,
             outcome |-> out]
    <3> DEFINE f == Free
    <3>1. f = [pc |-> "free", attempt |-> 0, answer |-> NoAnswer, status |-> NoAnswer,
               outcome |-> "none"]
      BY DEF Free
    <3>2. s = [f EXCEPT !.pc = "done", !.outcome = out]
      OBVIOUS
    <3>. HIDE DEF f, s
    <3>. QED BY <3>1, <3>2
  <2>. HIDE DEF s
  <2>2. 0 \in 0..Attempts
    BY ReconSizesAssumption
  <2>. QED BY <2>1, <2>2, AnswerTypes DEF TaskState
<1>4. /\ task'[t] = s /\ \A u \in Task \ {t} : task'[u] = task[u]
      /\ task' \in [Task -> TaskState]
  BY <1>1, <1>2, <1>3
<1>5. /\ fill \in Nat /\ fill >= row.filled /\ fill >= ledger'.confirmed
      /\ fill \in {row.filled, task[t].status.n, ledger'.confirmed}
  BY <1>2 DEF Larger, FillFor
<1>6. oid \in BOOLEAN /\ verdict \in {"zero", "other"} /\ (verdict = "zero" => out = "ZERO")
  BY <1>2
<1>7. \/ row' = row /\ (row.current => out = "ZERO")
      \/ /\ row.current /\ (out = "ZERO" => ~(fill > 0))
         /\ row' = [row EXCEPT !.oid = oid, !.filled = fill, !.verdict = verdict]
  BY <1>1 DEF Applied, RowWith
<1>. HIDE DEF s, fill, oid, verdict
<1>8. CASE row' = row /\ (row.current => out = "ZERO")
  BY <1>1, <1>2, <1>3, <1>4, <1>8 DEF Ending
<1>9. CASE /\ row.current /\ (out = "ZERO" => ~(fill > 0))
           /\ row' = [row EXCEPT !.oid = oid, !.filled = fill, !.verdict = verdict]
  <2>1. row'.filled = fill /\ row'.verdict = verdict /\ row' \in Row
        /\ row'.current = row.current
    BY <1>2, <1>5, <1>6, <1>9 DEF Row
  <2>2. /\ row'.filled >= row.filled /\ row'.filled >= ledger'.confirmed
        /\ row'.filled \in {row.filled, task[t].status.n, ledger'.confirmed}
    BY <1>5, <2>1
  <2>3. row'.verdict = "zero" => out = "ZERO" /\ row'.filled = 0
    BY <1>5, <1>6, <1>9, <2>1
  <2>. QED BY <1>1, <1>3, <1>4, <1>9, <2>1, <2>2, <2>3 DEF Ending
<1>. QED BY <1>7, <1>8, <1>9

LEMMA EndBase ==
    ASSUME BaseInv, NEW t \in Task, NEW out \in Outcome, EndStep(t, out)
    PROVE  BaseInv' /\ (row.current => row'.filled >= ledger'.confirmed)
<1>0. TypeOK /\ Open /\ Flown /\ TerminalFirst /\ RowKnows /\ \A u \in Task : Honest(u)
  BY DEF BaseInv
<1>1. Ending(t, out)
  BY <1>0, EndShape
<1>2. Running(t) /\ ledger' \in Ledger
      /\ (out = "ZERO" => task[t].pc = "wallet" /\ ledger'.confirmed = ledger.confirmed)
  BY DEF EndStep, Evidence
<1>3. TypeOK'
  BY <1>0, <1>1, <1>2 DEF TypeOK, Row, Ledger, Ending
<1>4. Open' /\ Flown'
  BY <1>0, <1>1, <1>2 DEF Open, Flown, Running, Ending
<1>5. out = "ZERO" => venue.label \in ZeroClass
  BY <1>0, <1>2 DEF Honest
<1>6. TerminalFirst'
  BY <1>0, <1>1, <1>5 DEF TerminalFirst, Ending
<1>7. row.current => row'.filled >= ledger'.confirmed
  <2>1. CASE out = "ZERO" /\ row' = row
    <3>1. \A u \in Task : task[u].pc # "trades"
      BY <1>0, <1>2, <2>1 DEF Flown, Running
    <3>. QED BY <1>0, <1>2, <2>1, <3>1 DEF RowKnows
  <2>. QED BY <1>1, <2>1 DEF Ending
<1>8. (\A u \in Task : Honest(u))'
  BY <1>0, <1>1, AnswerTypes DEF Honest, ZeroClass, Ending
<1>9. RowKnows'
  BY <1>1, <1>7 DEF RowKnows, Ending
<1>. QED BY <1>3, <1>4, <1>6, <1>7, <1>8, <1>9 DEF BaseInv

LEMMA RefreshBase ==
    ASSUME BaseInv, RefreshAnswered \/ RefreshApplied \/ Supersede
    PROVE  BaseInv'
<1>0. TypeOK /\ Open /\ Flown /\ TerminalFirst /\ RowKnows /\ \A u \in Task : Honest(u)
  BY DEF BaseInv
<1>1. CASE RefreshAnswered
  <2>1. refresh' \in Answer
    BY <1>0, <1>1 DEF RefreshAnswered, TypeOK, Answer
  <2>2. UNCHANGED <<venue, wallet, baseline, row, ledger, task, flight, caller>>
    BY <1>1 DEF RefreshAnswered, World
  <2>3. TypeOK'
    BY <1>0, <2>1, <2>2 DEF TypeOK
  <2>4. Open' /\ Flown' /\ TerminalFirst' /\ RowKnows' /\ (\A u \in Task : Honest(u))'
    BY <1>0, <2>2 DEF Open, Flown, Running, TerminalFirst, RowKnows, Honest
  <2>. QED BY <2>3, <2>4 DEF BaseInv
<1>2. CASE RefreshApplied
  <2> DEFINE fill == IF row.current THEN Larger(row.filled, refresh.n) ELSE row.filled
  <2>1. /\ refresh.n \in Nat /\ NoAnswer \in Answer /\ ledger.confirmed \in Nat
        /\ row.filled \in Nat /\ row \in Row /\ ledger \in Ledger
    BY <1>0, AnswerTypes DEF TypeOK, Answer, Row, Ledger
  <2>2. /\ ledger' = [ledger EXCEPT !.confirmed = Larger(ledger.confirmed, refresh.n)]
        /\ row' = [row EXCEPT !.filled = fill]
        /\ refresh' = NoAnswer
        /\ UNCHANGED <<venue, wallet, baseline, task, flight, caller>>
    BY <1>2, <2>1 DEF RefreshApplied, Confirm, World, Row
  <2>3. fill \in Nat /\ Larger(ledger.confirmed, refresh.n) \in Nat
        /\ (row.current => fill = Larger(row.filled, refresh.n))
    BY <2>1 DEF Larger
  <2>. HIDE DEF fill
  <2>4. /\ ledger'.confirmed = Larger(ledger.confirmed, refresh.n)
        /\ row'.filled = fill /\ row'.verdict = row.verdict /\ row'.current = row.current
        /\ ledger' \in Ledger /\ row' \in Row
    BY <2>1, <2>2, <2>3 DEF Ledger, Row
  <2>5. TypeOK'
    BY <1>0, <2>1, <2>2, <2>4 DEF TypeOK, Row, Ledger
  <2>6. RowKnows'
    BY <1>0, <2>1, <2>2, <2>3, <2>4 DEF RowKnows, Larger
  <2>7. Open' /\ Flown' /\ TerminalFirst' /\ (\A u \in Task : Honest(u))'
    BY <1>0, <2>2, <2>4 DEF Open, Flown, Running, TerminalFirst, Honest
  <2>. QED BY <2>5, <2>6, <2>7 DEF BaseInv
<1>3. CASE Supersede
  <2>1. row' = [row EXCEPT !.current = FALSE] /\ row \in Row
        /\ UNCHANGED <<venue, wallet, baseline, ledger, task, flight, caller, refresh>>
    BY <1>0, <1>3 DEF Supersede, World, TypeOK, Row
  <2>2. row' \in Row /\ ~row'.current /\ row'.verdict = row.verdict
    BY <2>1 DEF Row
  <2>3. TypeOK'
    BY <1>0, <2>1, <2>2 DEF TypeOK, Row
  <2>4. Open' /\ Flown' /\ TerminalFirst' /\ RowKnows' /\ (\A u \in Task : Honest(u))'
    BY <1>0, <2>1, <2>2 DEF Open, Flown, Running, TerminalFirst, RowKnows, Honest
  <2>. QED BY <2>3, <2>4 DEF BaseInv
<1>. QED BY <1>1, <1>2, <1>3

\* The venue never takes a terminal status back.
LEMMA OutsideShape ==
    ASSUME TypeOK, Open, Outside
    PROVE  /\ venue' \in [label : Label, matched : 0..Size] /\ wallet' \in Nat
           /\ venue.label \in ZeroClass => venue' = venue
           /\ venue'.matched >= venue.matched /\ Open'
           /\ UNCHANGED Internal
<1>0. venue \in [label : Label, matched : 0..Size] /\ wallet \in Nat
      /\ venue.matched \in 0..Size
  BY TaskType DEF TypeOK
<1>1. CASE VenueAccept
  BY <1>0, <1>1 DEF VenueAccept, Label, ZeroClass, Open
<1>2. CASE VenueMatch
  <2>1. venue.matched + 1 \in 0..Size /\ venue.label = "LIVE"
    BY <1>0, <1>2, ReconSizesAssumption DEF VenueMatch, Open
  <2> DEFINE label == IF venue.matched + 1 = Size THEN "MATCHED" ELSE "LIVE"
  <2>2. venue' = [label |-> label, matched |-> venue.matched + 1] /\ UNCHANGED Internal
    BY <1>2 DEF VenueMatch
  <2>3. wallet' \in Nat
    BY <1>0, <1>2, ReconSideAssumption DEF VenueMatch
  <2>4. label \in Label /\ (label = "LIVE" => venue.matched + 1 < Size) /\ label # "NONE"
    BY <2>1, ReconSizesAssumption DEF Label
  <2>. HIDE DEF label
  <2>. QED BY <1>0, <2>1, <2>2, <2>3, <2>4 DEF ZeroClass, Open
<1>3. ASSUME NEW l \in ZeroClass, VenueEnd(l)
      PROVE  /\ venue' \in [label : Label, matched : 0..Size] /\ wallet' \in Nat
             /\ venue.label \in ZeroClass => venue' = venue
             /\ venue'.matched >= venue.matched /\ Open'
             /\ UNCHANGED Internal
  BY <1>0, <1>3 DEF VenueEnd, Label, ZeroClass, Open
<1>4. CASE OtherOrder
  BY <1>0, <1>4, ReconSizesAssumption DEF OtherOrder, Open
<1>. QED BY <1>1, <1>2, <1>3, <1>4 DEF Outside

LEMMA OutsideBase ==
    ASSUME BaseInv, Outside
    PROVE  BaseInv'
<1>0. TypeOK /\ Open /\ Flown /\ TerminalFirst /\ RowKnows /\ \A u \in Task : Honest(u)
  BY DEF BaseInv
<1>1. /\ venue' \in [label : Label, matched : 0..Size] /\ wallet' \in Nat
      /\ venue.label \in ZeroClass => venue' = venue
      /\ Open' /\ UNCHANGED Internal
  BY <1>0, OutsideShape
<1>2. UNCHANGED <<baseline, row, ledger, task, flight, caller, refresh>>
  BY <1>1 DEF Internal
<1>3. TypeOK'
  BY <1>0, <1>1, <1>2 DEF TypeOK
<1>4. Flown' /\ RowKnows'
  BY <1>0, <1>2 DEF Flown, Running, RowKnows
<1>5. TerminalFirst'
  BY <1>0, <1>1, <1>2 DEF TerminalFirst
<1>6. (\A u \in Task : Honest(u))'
  BY <1>0, <1>1, <1>2 DEF Honest
<1>. QED BY <1>1, <1>3, <1>4, <1>5, <1>6 DEF BaseInv

LEMMA BaseStep == BaseInv /\ [Next]_vars => BaseInv'
<1> SUFFICES ASSUME BaseInv, [Next]_vars PROVE BaseInv'
  OBVIOUS
<1>0. TypeOK
  BY DEF BaseInv
<1>1. CASE UNCHANGED vars
  BY <1>1 DEF vars, BaseInv, TypeOK, Open, Flown, Running, TerminalFirst, RowKnows, Honest
<1>2. CASE Next
  BY <1>0, <1>2, NextClasses, CallerBase, ReplyBase, MoveBase, EndBase, RefreshBase,
     OutsideBase DEF Moves
<1>. QED BY <1>1, <1>2

LEMMA BaseAlways == Spec => []BaseInv
  BY BaseInit, BaseStep, PTL DEF Spec

\* Every behaviour of reconciliation stays typed.
THEOREM ReconciliationTyped == Spec => []TypeOK
  BY BaseAlways, PTL DEF BaseInv

\* Callers may come, leave and be cancelled in any order, and come while a task is done
\* but its callback has not run: no two tasks of one lifecycle generation ever run at
\* once (reconcile, the in-flight map, its done callback and the shield).
THEOREM SharedFlightHolds == Spec => []SharedFlight
<1>1. BaseInv => SharedFlight
  BY DEF BaseInv, Flown, SharedFlight
<1>. QED BY <1>1, BaseAlways, PTL

\* For buys and sells, with or without other orders of the token: a zero is only
\* concluded, and only recorded on the row, once the venue ended the order.
THEOREM TerminalFirstHolds == Spec => []TerminalFirst
<1>1. BaseInv => TerminalFirst
  BY DEF BaseInv
<1>. QED BY <1>1, BaseAlways, PTL

\* The ledger's fill is on a current row whenever a task ends, whatever a concurrent
\* status refresh did meanwhile, and no zero is written over it; the row of a newer
\* generation is left alone (_result, apply_reconciliation).
THEOREM FillReachesRowHolds == Spec => FillReachesRow
<1> DEFINE Reached == IF ~row.current THEN row' = row
                      ELSE /\ row'.filled >= ledger'.confirmed /\ row'.filled >= row.filled
                           /\ row'.filled > 0 => row'.verdict # "zero" \/ row' = row
<1>1. ASSUME BaseInv, [Next]_vars, NEW t \in Task, Running(t), task'[t].pc = "done"
      PROVE  Reached
  <2>0. TypeOK /\ Flown
    BY <1>1 DEF BaseInv
  <2>1. CASE UNCHANGED vars
    BY <1>1, <2>1 DEF vars, Running
  <2>2. CASE CallerStep
    <3>1. Same(t) \/ Fresh(t) \/ Left(t)
      BY <2>0, <2>2, CallerShape
    <3>2. ~row.current
      BY <1>1, <3>1 DEF Same, Fresh, Left, Running
    <3>. QED BY <2>2, <3>2 DEF CallerStep
  <2>3. ASSUME NEW u \in Task, ReplyStep(u)
        PROVE  FALSE
    <3>1. task'[t].pc = task[t].pc
      BY <2>0, <2>3 DEF ReplyStep, TypeOK, TaskState
    <3>. QED BY <1>1, <3>1 DEF Running
  <2>4. ASSUME NEW u \in Task, NEW pc, NEW ans, NEW st, MoveStep(u, pc, ans, st)
        PROVE  FALSE
    BY <1>1, <2>4 DEF MoveStep, Becomes, Running
  <2>5. ASSUME NEW u \in Task, NEW out \in Outcome, EndStep(u, out)
        PROVE  Reached
    <3>1. Ending(u, out) /\ (row.current => row'.filled >= ledger'.confirmed)
      BY <1>1, <2>0, <2>5, EndBase, EndShape
    <3>. QED BY <3>1 DEF Ending
  <2>6. CASE RefreshAnswered \/ RefreshApplied \/ Supersede
    BY <1>1, <2>6 DEF RefreshAnswered, RefreshApplied, Supersede, Running
  <2>7. CASE Outside
    BY <1>1, <2>7 DEF Outside, VenueAccept, VenueMatch, VenueEnd, OtherOrder, Internal, Running
  <2>. HIDE DEF Reached
  <2>. QED BY <1>1, <2>0, <2>1, <2>2, <2>3, <2>4, <2>5, <2>6, <2>7, NextClasses DEF Moves
<1>2. BaseInv /\ [Next]_vars =>
        [\A t \in Task : Running(t) /\ task'[t].pc = "done" => Reached]_vars
  BY <1>1
<1>. QED BY <1>2, BaseAlways, PTL DEF Spec, FillReachesRow

-----------------------------------------------------------------------------
(* A BUY of a token that only this order moves *)

Exclusive == Side = "BUY" /\ ~SharedWallet

\* The wallet moves with the order, and nothing claims more than the venue did.
Books == /\ wallet >= venue.matched
         /\ baseline # NoBaseline => wallet = baseline + venue.matched
         /\ refresh.n <= venue.matched

\* What a task was told is true; a balance it holds is the balance now, because
\* its terminal status has stopped the order.
Counted(t) == /\ task[t].status.n <= venue.matched
              /\ task[t].pc # "wallet" => task[t].answer.n <= venue.matched
              /\ task[t].pc = "wallet" /\ task[t].answer.what = "total" =>
                     task[t].answer.n = wallet
              /\ task[t].pc = "trades" => ledger.confirmed > 0

TruthInv == /\ BaseInv /\ Books /\ ZeroSound /\ FillTruth
            /\ \A t \in Task : Counted(t)

LEMMA TruthInit == Init => TruthInv
<1> SUFFICES ASSUME Init PROVE TruthInv
  OBVIOUS
<1>1. BaseInv
  BY BaseInit
<1>2. /\ task = [t \in Task |-> Free] /\ refresh = NoAnswer
      /\ venue \in [label : {"NONE", "LIVE"}, matched : {0}]
      /\ row \in [oid : BOOLEAN, filled : {0}, verdict : {"none"}, current : {TRUE}]
      /\ ledger = [confirmed |-> 0, resolved |-> FALSE]
  BY DEF Init
<1>3. \A t \in Task : task[t].pc = "free" /\ task[t].outcome = "none"
                      /\ task[t].answer.n = 0 /\ task[t].status.n = 0
  BY <1>2, AnswerTypes DEF Free
<1>4. /\ venue.matched = 0 /\ row.filled = 0 /\ row.verdict = "none"
      /\ ledger.confirmed = 0 /\ ledger.resolved = FALSE /\ refresh.n = 0
  BY <1>2, AnswerTypes
<1>5. Books
  <2>1. wallet \in Nat
    BY <1>1 DEF BaseInv, TypeOK
  <2>2. baseline = NoBaseline \/ baseline = wallet
    BY DEF Init
  <2>. QED BY <1>4, <2>1, <2>2 DEF Books
<1>6. ZeroSound /\ FillTruth /\ \A t \in Task : Counted(t)
  BY <1>3, <1>4 DEF ZeroSound, FillTruth, Counted
<1>. QED BY <1>1, <1>5, <1>6 DEF TruthInv

\* The numbers the arguments below are about.
LEMMA Numbers ==
    ASSUME TypeOK
    PROVE  /\ venue.matched \in 0..Size /\ wallet \in Nat
           /\ baseline \in Nat \cup {NoBaseline} /\ refresh.n \in Nat
           /\ ledger.confirmed \in Nat /\ row.filled \in Nat
           /\ Size \in Nat \ {0}
           /\ \A t \in Task : task[t].status.n \in Nat /\ task[t].answer.n \in Nat
  BY ReconSizesAssumption DEF TypeOK, TaskState, Answer

LEMMA CallerTruth == TruthInv /\ CallerStep => TruthInv'
<1> SUFFICES ASSUME TruthInv, CallerStep PROVE TruthInv'
  OBVIOUS
<1>0. BaseInv /\ TypeOK /\ Books /\ ZeroSound /\ FillTruth /\ (\A t \in Task : Counted(t))
  BY DEF TruthInv, BaseInv
<1>1. BaseInv'
  BY <1>0, CallerBase
<1>2. UNCHANGED <<venue, wallet, baseline, row, ledger, refresh>>
  BY DEF CallerStep, World
<1>3. \A t \in Task : Same(t) \/ Fresh(t) \/ Left(t)
  BY <1>0, CallerShape
<1>4. Books' /\ ZeroSound' /\ FillTruth'
  BY <1>0, <1>2, <1>3 DEF Books, ZeroSound, FillTruth, Unfilled, Same, Fresh, Left
<1>5. 0 <= venue.matched
  BY <1>0, Numbers
<1>6. (\A t \in Task : Counted(t))'
  BY <1>0, <1>2, <1>3, <1>5 DEF Counted, Same, Fresh, Left
<1>. QED BY <1>1, <1>4, <1>6 DEF TruthInv

LEMMA ReplyTruth ==
    ASSUME TruthInv, NEW t \in Task, ReplyStep(t)
    PROVE  TruthInv'
<1>0. BaseInv /\ Books /\ ZeroSound /\ FillTruth /\ (\A u \in Task : Counted(u))
      /\ task \in [Task -> TaskState]
  BY DEF TruthInv, BaseInv, TypeOK
<1>1. BaseInv'
  BY <1>0, ReplyBase
<1>2. PICK a \in Answer :
        /\ task' = [task EXCEPT ![t].answer = a]
        /\ task[t].pc # "wallet" => Told(a)
        /\ task[t].pc = "wallet" => (a.what = "total" => a.n = wallet)
        /\ UNCHANGED <<World, row, ledger, flight, caller, refresh>>
  BY DEF ReplyStep
<1>3. UNCHANGED <<venue, wallet, baseline, row, ledger, refresh>>
  BY <1>2 DEF World
<1>4. /\ task'[t].pc = task[t].pc /\ task'[t].answer = a /\ task'[t].status = task[t].status
      /\ task'[t].outcome = task[t].outcome
      /\ \A u \in Task \ {t} : task'[u] = task[u]
  BY <1>0, <1>2 DEF TaskState
<1>5. Books' /\ ZeroSound' /\ FillTruth'
  BY <1>0, <1>3, <1>4 DEF Books, ZeroSound, FillTruth, Unfilled
<1>6. (\A u \in Task : Counted(u))'
  BY <1>0, <1>2, <1>3, <1>4 DEF Counted, Told
<1>. QED BY <1>1, <1>5, <1>6 DEF TruthInv

LEMMA MoveTruth ==
    ASSUME TruthInv, NEW t \in Task, NEW pc, NEW ans, NEW st, MoveStep(t, pc, ans, st)
    PROVE  TruthInv'
<1>0. BaseInv /\ TypeOK /\ Books /\ ZeroSound /\ FillTruth /\ (\A u \in Task : Counted(u))
  BY DEF TruthInv, BaseInv
<1>1. BaseInv'
  BY <1>0, MoveBase
<1>2. /\ \A u \in Task \ {t} : task'[u] = task[u]
      /\ task'[t].pc = pc /\ task'[t].answer = ans /\ task'[t].status = st
      /\ task'[t].outcome = task[t].outcome
      /\ ledger'.resolved = ledger.resolved
      /\ UNCHANGED <<venue, wallet, baseline, row, flight, caller, refresh>>
  BY DEF MoveStep, Becomes, World
<1>3. ledger'.confirmed \in Nat /\ ledger'.confirmed >= ledger.confirmed
      /\ ledger'.confirmed <= venue.matched
  <2>1. task[t].answer.n <= venue.matched /\ ledger.confirmed <= venue.matched
    BY <1>0 DEF MoveStep, Counted, FillTruth
  <2>. QED BY <1>0, <2>1, Numbers DEF MoveStep, Larger
<1>4. st.n <= venue.matched
  BY <1>0, AnswerTypes, Numbers DEF MoveStep, Counted
<1>5. ans.n <= venue.matched /\ (pc = "wallet" => ans.what = "none")
      /\ (pc = "trades" => ledger'.confirmed > 0)
  BY <1>0, AnswerTypes, Numbers DEF MoveStep, Counted, Told
<1>6. Books' /\ ZeroSound' /\ FillTruth'
  BY <1>0, <1>2, <1>3 DEF Books, ZeroSound, FillTruth, Unfilled
<1>7. \A u \in Task \ {t} : Counted(u)'
  BY <1>0, <1>2, <1>3, Numbers DEF Counted
<1>8. Counted(t)'
  BY <1>2, <1>4, <1>5 DEF Counted
<1>. QED BY <1>1, <1>6, <1>7, <1>8 DEF TruthInv

\* What a task concludes is true; a zero, because the whole balance or the whole
\* gain since the baseline is none, and the order can match no more.
LEMMA EndTruth ==
    ASSUME TruthInv, NEW t \in Task, NEW out \in Outcome, EndStep(t, out)
    PROVE  TruthInv'
<1>0. BaseInv /\ TypeOK /\ Books /\ ZeroSound /\ FillTruth /\ (\A u \in Task : Counted(u))
      /\ Honest(t)
  BY DEF TruthInv, BaseInv
<1>1. BaseInv'
  BY <1>0, EndBase
<1>2. /\ \A u \in Task \ {t} : task'[u] = task[u]
      /\ task'[t].pc = "done" /\ task'[t].outcome = out
      /\ task'[t].answer = NoAnswer /\ task'[t].status = NoAnswer
      /\ \/ row' = row
         \/ row'.verdict = "zero" => out = "ZERO"
      /\ \/ row'.filled = row.filled \/ row'.filled = task[t].status.n
         \/ row'.filled = ledger'.confirmed
      /\ UNCHANGED <<venue, wallet, baseline, caller, refresh>>
  BY <1>0, EndShape DEF Ending
<1>3. /\ ledger'.confirmed \in Nat /\ ledger'.confirmed >= ledger.confirmed
      /\ ledger'.resolved => ledger.resolved \/ out = "ZERO"
      /\ Evidence(t, out)
  BY DEF EndStep, Ledger
<1>4. /\ task[t].status.n <= venue.matched /\ ledger.confirmed <= venue.matched
      /\ row.filled <= venue.matched /\ wallet >= venue.matched
      /\ task[t].pc # "wallet" => task[t].answer.n <= venue.matched
      /\ task[t].pc = "wallet" /\ task[t].answer.what = "total" => task[t].answer.n = wallet
      /\ baseline # NoBaseline => wallet = baseline + venue.matched
  BY <1>0 DEF Counted, FillTruth, Books
<1>5. ASSUME baseline # NoBaseline, task[t].answer.n = wallet
      PROVE  Gained(task[t].answer.n) = venue.matched
  BY <1>0, <1>4, <1>5, Numbers DEF Gained
<1>6. ledger'.confirmed <= venue.matched
  BY <1>0, <1>3, <1>4, <1>5, Numbers DEF Evidence, Larger
<1>7. out = "ZERO" => Unfilled
  <2> SUFFICES ASSUME out = "ZERO" PROVE Unfilled
    OBVIOUS
  <2>1. task[t].pc = "wallet" /\ task[t].answer.what = "total"
    BY <1>3 DEF Evidence
  <2>2. venue.label \in ZeroClass
    BY <1>0, <2>1 DEF Honest
  <2>3. venue.matched = 0
    BY <1>0, <1>3, <1>4, <1>5, <2>1, Numbers DEF Evidence
  <2>. QED BY <2>2, <2>3 DEF Unfilled
<1>8. ZeroSound'
  BY <1>0, <1>2, <1>3, <1>7 DEF ZeroSound, Unfilled
<1>9. out = "FILLED" => venue.matched = Size
  <2> SUFFICES ASSUME out = "FILLED" PROVE venue.matched = Size
    OBVIOUS
  <2>1. Larger(task[t].status.n, ledger'.confirmed) >= Size
    BY DEF EndStep
  <2>. QED BY <1>0, <1>3, <1>4, <1>6, <2>1, Numbers DEF Larger
<1>10. out = "PARTIALLY_FILLED" => venue.matched > 0
  <2> SUFFICES ASSUME out = "PARTIALLY_FILLED" PROVE venue.matched > 0
    OBVIOUS
  <2>1. task[t].pc = "trades" \/ ledger'.confirmed > 0
    BY DEF EndStep
  <2>2. ledger'.confirmed > 0
    BY <1>0, <1>3, <2>1, Numbers DEF Counted
  <2>. QED BY <1>0, <1>3, <1>6, <2>2, Numbers
<1>11. FillTruth'
  BY <1>0, <1>2, <1>4, <1>6, <1>9, <1>10 DEF FillTruth
<1>12. Books'
  BY <1>0, <1>2 DEF Books
<1>13. \A u \in Task \ {t} : Counted(u)'
  BY <1>0, <1>2, <1>3, Numbers DEF Counted
<1>14. Counted(t)'
  BY <1>0, <1>2, <1>4, AnswerTypes, Numbers DEF Counted
<1>. QED BY <1>1, <1>8, <1>11, <1>12, <1>13, <1>14 DEF TruthInv

LEMMA RefreshTruth ==
    ASSUME TruthInv, RefreshAnswered \/ RefreshApplied \/ Supersede
    PROVE  TruthInv'
<1>0. BaseInv /\ TypeOK /\ Books /\ ZeroSound /\ FillTruth /\ (\A u \in Task : Counted(u))
  BY DEF TruthInv, BaseInv
<1>1. BaseInv'
  BY <1>0, RefreshBase
<1>2. CASE RefreshAnswered
  <2>1. /\ refresh'.n <= venue.matched
        /\ UNCHANGED <<venue, wallet, baseline, row, ledger, task, flight, caller>>
    BY <1>0, <1>2, Numbers DEF RefreshAnswered, World
  <2>. QED BY <1>0, <1>1, <2>1 DEF TruthInv, Books, ZeroSound, FillTruth, Unfilled, Counted
<1>3. CASE RefreshApplied
  <2>1. /\ ledger'.confirmed = Larger(ledger.confirmed, refresh.n)
        /\ ledger'.resolved = ledger.resolved
        /\ row'.filled \in {row.filled, Larger(row.filled, refresh.n)}
        /\ row'.verdict = row.verdict /\ refresh'.n = 0
        /\ UNCHANGED <<venue, wallet, baseline, task, flight, caller>>
    BY <1>0, <1>3, AnswerTypes DEF RefreshApplied, Confirm, World, TypeOK
  <2>2. /\ ledger'.confirmed <= venue.matched /\ ledger'.confirmed >= ledger.confirmed
        /\ row'.filled <= venue.matched /\ ledger'.confirmed \in Nat
    BY <1>0, <2>1, Numbers DEF Books, FillTruth, Larger
  <2>3. Books' /\ ZeroSound' /\ FillTruth'
    BY <1>0, <2>1, <2>2, Numbers DEF Books, ZeroSound, FillTruth, Unfilled
  <2>4. (\A u \in Task : Counted(u))'
    BY <1>0, <2>1, <2>2, Numbers DEF Counted
  <2>. QED BY <1>1, <2>3, <2>4 DEF TruthInv
<1>4. CASE Supersede
  <2>1. /\ row'.filled = row.filled /\ row'.verdict = row.verdict
        /\ UNCHANGED <<venue, wallet, baseline, ledger, task, flight, caller, refresh>>
    BY <1>0, <1>4 DEF Supersede, World, TypeOK
  <2>. QED BY <1>0, <1>1, <2>1 DEF TruthInv, Books, ZeroSound, FillTruth, Unfilled, Counted
<1>. QED BY <1>2, <1>3, <1>4

\* A BUY's match brings the wallet exactly what the venue counts.
LEMMA OutsideTruth ==
    ASSUME Exclusive, TruthInv, Outside
    PROVE  TruthInv'
<1>0. /\ BaseInv /\ TypeOK /\ Open /\ Books /\ ZeroSound /\ FillTruth
      /\ \A u \in Task : Counted(u) /\ Honest(u)
  BY DEF TruthInv, BaseInv
<1>1. BaseInv'
  BY <1>0, OutsideBase
<1>2. /\ venue.label \in ZeroClass => venue' = venue
      /\ venue'.matched >= venue.matched /\ venue'.matched \in 0..Size
      /\ UNCHANGED <<baseline, row, ledger, task, flight, caller, refresh>>
  BY <1>0, OutsideShape DEF Internal
<1>3. /\ wallet' = wallet + (venue'.matched - venue.matched)
      /\ venue.label \in ZeroClass => wallet' = wallet
  <2>1. CASE VenueAccept \/ \E l \in ZeroClass : VenueEnd(l)
    BY <1>0, <2>1, Numbers DEF VenueAccept, VenueEnd, TypeOK
  <2>2. CASE VenueMatch
    BY <1>0, <2>2, Numbers DEF VenueMatch, Exclusive, ZeroClass
  <2>3. ~OtherOrder
    BY DEF OtherOrder, Exclusive
  <2>. QED BY <2>1, <2>2, <2>3 DEF Outside
<1>4. Books' /\ FillTruth'
  BY <1>0, <1>2, <1>3, Numbers DEF Books, FillTruth
<1>5. ZeroSound'
  BY <1>0, <1>2 DEF ZeroSound, Unfilled
<1>6. (\A u \in Task : Counted(u))'
  <2> SUFFICES ASSUME NEW u \in Task PROVE Counted(u)'
    OBVIOUS
  <2>1. task[u].pc = "wallet" => wallet' = wallet
    BY <1>0, <1>3 DEF Honest
  <2>. QED BY <1>0, <1>2, <2>1, Numbers DEF Counted
<1>. QED BY <1>1, <1>4, <1>5, <1>6 DEF TruthInv

LEMMA TruthStep == ASSUME Exclusive PROVE TruthInv /\ [Next]_vars => TruthInv'
<1> SUFFICES ASSUME TruthInv, [Next]_vars PROVE TruthInv'
  OBVIOUS
<1>0. BaseInv /\ TypeOK
  BY DEF TruthInv, BaseInv
<1>1. CASE UNCHANGED vars
  <2>1. BaseInv'
    BY <1>0, <1>1, BaseStep
  <2>. QED BY <1>1, <2>1 DEF vars, TruthInv, Books, ZeroSound, FillTruth, Unfilled, Counted
<1>2. CASE Next
  BY <1>0, <1>2, NextClasses, CallerTruth, ReplyTruth, MoveTruth, EndTruth, RefreshTruth,
     OutsideTruth DEF Moves
<1>. QED BY <1>1, <1>2

\* A terminal zero of a BUY whose token nobody else moves is true wherever it is
\* recorded: outcome, lifecycle row, resolved ledger row (_reconcile_owned, the
\* wallet proof against the baseline or the absolute zero).
THEOREM ZeroSoundHolds == ASSUME Exclusive PROVE Spec => []ZeroSound
<1>1. TruthInv => ZeroSound
  BY DEF TruthInv
<1>. QED BY <1>1, TruthInit, TruthStep, PTL DEF Spec

\* For such an order no evidence, whichever mix of status, trades, wallet gain and
\* concurrent refresh it came from, claims more than the venue matched.
THEOREM FillTruthHolds == ASSUME Exclusive PROVE Spec => []FillTruth
<1>1. TruthInv => FillTruth
  BY DEF TruthInv
<1>. QED BY <1>1, TruthInit, TruthStep, PTL DEF Spec

=============================================================================
