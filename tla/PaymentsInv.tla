---------------------------- MODULE PaymentsInv -----------------------------
(***************************************************************************)
(* The inductive invariants behind the properties of module Payments: IInv *)
(* for any number of concurrent requests, SerialInv for requests that do   *)
(* not overlap.                                                            *)
(***************************************************************************)
EXTENDS Payments

Paying(w)  == pc[w] \in {"pay_existing", "pay_provider", "pay_commit"}
Hooking(w) == pc[w] \in {"hook_event", "hook_apply", "hook_commit"}

\* No two requests are about to create the same payment; its rows and its
\* Razorpay order do not exist before the steps that create them.
Intents ==
  /\ \A v, w \in Worker : v # w /\ intent[v] = intent[w] => intent[v] = None
  /\ \A w \in Worker : Paying(w) =>
       /\ payments[intent[w]] = "NONE"
       /\ orderOf[intent[w]] = IF pc[w] = "pay_commit" THEN subject[w] ELSE None
       /\ orders[subject[w]] # "NONE"

\* A committed payment has an order, a told payment is committed, and so is the
\* payment of any event that is not foreign.
Committed ==
  /\ \A p \in Payment : payments[p] # "NONE" => orderOf[p] \in Order
  /\ \A p \in told : payments[p] # "NONE"
  /\ \A e \in raised : e.payment \in told \cup Foreign
  /\ \A w \in Worker : Hooking(w) => Known(subject[w])

\* A request that has flushed holds its payment alone, and the unique index
\* guarantees that its event is not stored yet.
Locks ==
  /\ \A v, w \in Worker :
       v # w /\ Flushed(v) /\ Flushed(w) => subject[v].payment # subject[w].payment
  /\ \A w \in Worker : Flushed(w) =>
       /\ subject[w] \in Anonymous \/ stored[subject[w]] = 0
       /\ subject[w].type \in {"payment.captured", "payment.failed"}

IInv ==
  /\ TypeOK
  /\ Intents
  /\ Committed
  /\ Locks
  /\ EventOnce
  /\ SettledByEvent
  /\ OrderOutcomeEarned
  /\ PaymentRowsMoveOrder
  /\ AckedIsStored

\* Requests never overlap.
OneAtATime == \A v, w \in Worker : v = w

\* What a request has read still holds when it writes.
Fresh ==
  \A w \in Worker :
    /\ Paying(w)  => orders[subject[w]] = "CREATED"
    /\ Hooking(w) => seen[w] = payments[subject[w].payment]
    /\ Flushed(w) => /\ seen[w] \in Open
                     /\ seenOrder[w] = orders[orderOf[subject[w].payment]]

SerialInv ==
  /\ IInv
  /\ Fresh
  /\ OnePaymentPerOrder
  /\ OrderAgreesWithPayment
=============================================================================
