----------------------------- MODULE MCPayments -----------------------------
(***************************************************************************)
(* Instances of Payments for TLC.                                          *)
(***************************************************************************)
EXTENDS PaymentsInv, TLC

CONSTANTS o1, o2, o3, p1, p2, p3, f1, w1, w2, w3

Captured(p)   == [payment |-> p, type |-> "payment.captured", no |-> 1]
Failed(p, n)  == [payment |-> p, type |-> "payment.failed", no |-> n]
Authorized(p) == [payment |-> p, type |-> "payment.authorized", no |-> 1]

\* The outcomes of one attempt of each of two payments.
Outcomes == {Captured(p1), Failed(p1, 1), Captured(p2), Failed(p2, 1)}

\* Every kind of event: two failed attempts, an event without effect, an event
\* of the account that concerns no payment of this API.
AllKinds == {Captured(p1), Failed(p1, 1), Failed(p1, 2), Captured(p2),
             Authorized(p2), Captured(f1)}

\* One payment that is authorized, fails and is captured, one foreign event.
OnePayment == {Captured(p1), Failed(p1, 1), Authorized(p1), Captured(f1)}

NoEvents      == {}
CapturedOfP1  == {Captured(p1)}
FailedOfP1    == {Failed(p1, 1)}

\* Workers are interchangeable, and so are the two payments of Outcomes.
WorkersAndPayments == Permutations(Worker) \cup Permutations({p1, p2})
=============================================================================
