---------------------------- MODULE MCPermitLedger ----------------------------
(* Instances of PermitLedger for TLC. *)
EXTENDS PermitLedger

CONSTANTS p1, p2, p3, c1, c2, t1, t2

\* One candidate is committed twice, and another one wants the same token.
TwoForOneToken == [p \in Pipeline |-> IF p = p3 THEN c2 ELSE c1]
OneToken == [c \in Candidate |-> t1]

\* Two candidates with a token each.
OneForEach == [p \in Pipeline |-> IF p = p1 THEN c1 ELSE c2]
TwoTokens == [c \in Candidate |-> IF c = c1 THEN t1 ELSE t2]

===============================================================================
