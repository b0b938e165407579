--------------------------- MODULE OrderLifecycle ---------------------------
(***************************************************************************)
(* What checkout and payments promise about one order after another: it is *)
(* placed, gets one payment, and that payment is settled once, as paid or  *)
(* as failed, together with the order.                                     *)
(***************************************************************************)
CONSTANT Order

VARIABLES
  orders,   \* the status of each order, "NONE" before it is placed
  payment   \* the status of its payment, "NONE" while it has none

vars == <<orders, payment>>

Init ==
  /\ orders  = [o \in Order |-> "NONE"]
  /\ payment = [o \in Order |-> "NONE"]

Move(o, before, after, settled) ==
  /\ orders[o] = before
  /\ orders'  = [orders EXCEPT ![o] = after]
  /\ payment' = [payment EXCEPT ![o] = settled]

Place(o) == Move(o, "NONE", "CREATED", "NONE")
Bill(o)  == Move(o, "CREATED", "PENDING_PAYMENT", "CREATED")
Pay(o)   == Move(o, "PENDING_PAYMENT", "PAID", "PAID")
Fail(o)  == Move(o, "PENDING_PAYMENT", "PAYMENT_FAILED", "FAILED")

Next == \E o \in Order : Place(o) \/ Bill(o) \/ Pay(o) \/ Fail(o)

Spec == Init /\ [][Next]_vars
=============================================================================
