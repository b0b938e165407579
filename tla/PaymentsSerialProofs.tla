------------------------ MODULE PaymentsSerialProofs ------------------------
(***************************************************************************)
(* Proofs about module Payments when requests never overlap: an order has  *)
(* one payment, a settled payment is final, order and payment agree, and   *)
(* the handlers implement OrderLifecycle.                                  *)
(***************************************************************************)
EXTENDS PaymentsProofs

\* The serial invariant holds initially.
LEMMA SerialInit == Init => SerialInv
<1> SUFFICES ASSUME Init PROVE SerialInv
  OBVIOUS
<1>1. IInv
  BY InvInit
<1>2. Fresh
  BY DEF Init, Fresh, Paying, Hooking, Flushed
<1>3. OnePaymentPerOrder /\ OrderAgreesWithPayment
  BY DEF Init, OnePaymentPerOrder, OrderAgreesWithPayment, Rows
<1>4. QED
  BY <1>1, <1>2, <1>3 DEF SerialInv

\* Nothing comes between what the only request reads and what it writes.
LEMMA FreshStep ==
  ASSUME OneAtATime, TypeOK, Intents, Committed, PaymentRowsMoveOrder, Fresh, [Next]_vars
  PROVE  Fresh'
<1> USE ConstantsAssumption
    DEF OneAtATime, TypeOK, WorkerOK, Fresh, Paying, Hooking, Flushed, dbVars, razorpay,
        workerVars
<1>1. ASSUME NEW o \in Order, PlaceOrder(o) PROVE Fresh'
  <2>1. \A w \in Worker : Hooking(w) =>
          /\ orderOf[subject[w].payment] \in Order \ {o}
          /\ payments[subject[w].payment] # "NONE"
    BY <1>1 DEF PlaceOrder, Committed, Known, PaymentRowsMoveOrder, Rows
  <2>2. QED
    BY <1>1, <2>1 DEF PlaceOrder
<1>2. ASSUME NEW w \in Worker, NEW o \in Order, NEW p \in Payment, ReadOrder(w, o, p)
      PROVE  Fresh'
  BY <1>2 DEF ReadOrder
<1>3. ASSUME NEW e \in Event, Raise(e) PROVE Fresh'
  BY <1>3 DEF Raise
<1>4. ASSUME NEW w \in Worker, NEW e \in Event, IgnoreUnknown(w, e) PROVE Fresh'
  BY <1>4 DEF IgnoreUnknown
<1>5. ASSUME NEW w \in Worker, NEW e \in Event, Receive(w, e) PROVE Fresh'
  BY <1>5 DEF Receive
<1>6. ASSUME NEW w \in Worker, CheckExisting(w) PROVE Fresh'
  BY <1>6 DEF CheckExisting, Finish
<1>7. ASSUME NEW w \in Worker, CreateProviderOrder(w) PROVE Fresh'
  BY <1>7 DEF CreateProviderOrder
<1>8. ASSUME NEW w \in Worker, CommitPayment(w) PROVE Fresh'
  BY <1>8 DEF CommitPayment, Finish
<1>9. ASSUME NEW w \in Worker, AmountOverflow(w) PROVE Fresh'
  BY <1>9 DEF AmountOverflow, Finish
<1>10. ASSUME NEW w \in Worker, CheckEvent(w) PROVE Fresh'
  BY <1>10 DEF CheckEvent, Finish
<1>11. ASSUME NEW w \in Worker, StoreOnly(w) PROVE Fresh'
  BY <1>11 DEF StoreOnly, Finish
<1>12. ASSUME NEW w \in Worker, FlushPayment(w) PROVE Fresh'
  BY <1>12 DEF FlushPayment, Applies, Committed, Known
<1>13. ASSUME NEW w \in Worker, InsertConflict(w) PROVE Fresh'
  BY <1>13 DEF InsertConflict, Finish
<1>14. ASSUME NEW w \in Worker, CommitWebhook(w) PROVE Fresh'
  BY <1>14 DEF CommitWebhook, Finish
<1>15. ASSUME NEW w \in Worker, Crash(w) PROVE Fresh'
  BY <1>15 DEF Crash, Finish
<1>16. CASE UNCHANGED vars
  BY <1>16 DEF vars
<1>17. QED
  BY <1>1, <1>2, <1>3, <1>4, <1>5, <1>6, <1>7, <1>8, <1>9, <1>10, <1>11, <1>12,
     <1>13, <1>14, <1>15, <1>16 DEF Next, PayStep, HookStep

\* Only an order in CREATED gets a payment, and it has none before.
LEMMA OnePaymentStep ==
  ASSUME IInv, Fresh, OnePaymentPerOrder, [Next]_vars
  PROVE  OnePaymentPerOrder'
<1> USE ConstantsAssumption DEF IInv, TypeOK, WorkerOK, OnePaymentPerOrder, Rows
<1>1. CASE UNCHANGED <<orders, payments, attempts, orderOf>>
  BY <1>1
<1>2. ASSUME NEW o \in Order, PlaceOrder(o) PROVE OnePaymentPerOrder'
  BY <1>2 DEF PlaceOrder, razorpay
<1>3. ASSUME NEW w \in Worker, CreateProviderOrder(w) PROVE OnePaymentPerOrder'
  BY <1>3 DEF CreateProviderOrder, dbVars, Intents, Paying
<1>4. ASSUME NEW w \in Worker, CommitPayment(w) PROVE OnePaymentPerOrder'
  BY <1>4 DEF CommitPayment, Intents, Paying, Fresh, PaymentRowsMoveOrder
<1>5. ASSUME NEW w \in Worker, CommitWebhook(w) PROVE OnePaymentPerOrder'
  BY <1>5 DEF CommitWebhook, Committed, Hooking, Known
<1>6. QED
  BY <1>1, <1>2, <1>3, <1>4, <1>5, RowWriters

\* Order and payment move together.
LEMMA AgreeStep ==
  ASSUME IInv, Fresh, OnePaymentPerOrder, OrderAgreesWithPayment, [Next]_vars
  PROVE  OrderAgreesWithPayment'
<1> USE ConstantsAssumption DEF IInv, TypeOK, WorkerOK, OrderAgreesWithPayment, Rows
<1>1. CASE UNCHANGED <<orders, payments, attempts, orderOf>>
  BY <1>1
<1>2. ASSUME NEW o \in Order, PlaceOrder(o) PROVE OrderAgreesWithPayment'
  BY <1>2 DEF PlaceOrder, razorpay, PaymentRowsMoveOrder
<1>3. ASSUME NEW w \in Worker, CreateProviderOrder(w) PROVE OrderAgreesWithPayment'
  BY <1>3 DEF CreateProviderOrder, dbVars, Intents, Paying
<1>4. ASSUME NEW w \in Worker, CommitPayment(w) PROVE OrderAgreesWithPayment'
  BY <1>4 DEF CommitPayment, Intents, Paying, Fresh, PaymentRowsMoveOrder
<1>5. ASSUME NEW w \in Worker, CommitWebhook(w) PROVE OrderAgreesWithPayment'
  BY <1>5 DEF CommitWebhook, Committed, Hooking, Known, Fresh, Flushed, PaymentOutcome,
     OrderOutcome, OnePaymentPerOrder
<1>6. QED
  BY <1>1, <1>2, <1>3, <1>4, <1>5, RowWriters

\* Every step of a request that is alone keeps the serial invariant.
LEMMA SerialStep ==
  ASSUME OneAtATime PROVE SerialInv /\ [Next]_vars => SerialInv'
  BY InvStep, FreshStep, OnePaymentStep, AgreeStep DEF SerialInv, IInv

\* The serial invariant holds in every reachable state.
THEOREM SerialInductive == ASSUME OneAtATime PROVE Spec => []SerialInv
  BY SerialInit, SerialStep, PTL DEF Spec

\* Without overlapping requests an order never has two payments.
THEOREM SerialOnePayment == ASSUME OneAtATime PROVE Spec => []OnePaymentPerOrder
  BY SerialInductive, PTL DEF SerialInv

\* Without overlapping requests an order and its payment agree on the outcome.
THEOREM SerialAgreement == ASSUME OneAtATime PROVE Spec => []OrderAgreesWithPayment
  BY SerialInductive, PTL DEF SerialInv

\* Without overlapping requests a PAID or FAILED payment never changes again:
\* only CREATED, PENDING and AUTHORIZED lead anywhere.
THEOREM SerialSettledIsFinal == ASSUME OneAtATime PROVE Spec => SettledIsFinal
<1> DEFINE Final ==
      \A p \in Payment : payments[p] \in {"PAID", "FAILED"} => payments'[p] = payments[p]
<1>1. SerialInv /\ [Next]_vars => [Final]_vars
  <2> SUFFICES ASSUME SerialInv, [Next]_vars PROVE Final
    OBVIOUS
  <2> USE ConstantsAssumption DEF SerialInv, IInv, TypeOK, WorkerOK
  <2>1. CASE UNCHANGED <<orders, payments, attempts, orderOf>>
    BY <2>1
  <2>2. ASSUME NEW o \in Order, PlaceOrder(o) PROVE Final
    BY <2>2 DEF PlaceOrder
  <2>3. ASSUME NEW w \in Worker, CreateProviderOrder(w) PROVE Final
    BY <2>3 DEF CreateProviderOrder, dbVars
  <2>4. ASSUME NEW w \in Worker, CommitPayment(w) PROVE Final
    BY <2>4 DEF CommitPayment, Intents, Paying
  <2>5. ASSUME NEW w \in Worker, CommitWebhook(w) PROVE Final
    BY <2>5 DEF CommitWebhook, Fresh, Hooking, Flushed, Open
  <2>6. QED
    BY <2>1, <2>2, <2>3, <2>4, <2>5, RowWriters
<1>2. QED
  BY SerialInductive, <1>1, PTL DEF Spec, SettledIsFinal

-----------------------------------------------------------------------------
(* The handlers implement OrderLifecycle.                                  *)

\* The status that OrderLifecycle sees is the status of the order's payment.
StatusOfRow ==
  \A o \in Order : /\ Rows(o) = {} => PaymentOf[o] = "NONE"
                   /\ \A p \in Rows(o) : PaymentOf[o] = payments[p]

\* An order's one row determines what OrderLifecycle sees of it.
LEMMA PaymentOfRow == OnePaymentPerOrder => StatusOfRow
<1> SUFFICES ASSUME OnePaymentPerOrder, NEW o \in Order
             PROVE  /\ Rows(o) = {} => PaymentOf[o] = "NONE"
                    /\ \A p \in Rows(o) : PaymentOf[o] = payments[p]
  BY DEF StatusOfRow
<1>1. ASSUME NEW p \in Rows(o) PROVE PaymentOf[o] = payments[p]
  <2>1. (CHOOSE q \in Rows(o) : TRUE) = p
    BY DEF OnePaymentPerOrder
  <2>2. QED
    BY <2>1 DEF PaymentOf
<1>2. QED
  BY <1>1 DEF PaymentOf

\* The same after a step.
LEMMA PaymentOfPrime == OnePaymentPerOrder' => StatusOfRow'
  BY PaymentOfRow, PTL

\* PaymentOf is a function on the orders, before and after a step.
LEMMA PaymentOfIsFunction ==
  /\ PaymentOf  = [o \in Order |-> PaymentOf[o]]
  /\ PaymentOf' = [o \in Order |-> PaymentOf'[o]]
  BY DEF PaymentOf

\* Initial states map to initial states.
LEMMA RefinementInit == Init => Lifecycle!Init
  BY DEF Init, Lifecycle!Init, PaymentOf, Rows

\* The order whose rows a step leaves alone keeps its status in PaymentOf.
LEMMA SameRows ==
  ASSUME OnePaymentPerOrder, OnePaymentPerOrder', NEW o \in Order,
         Rows(o)' = Rows(o), \A p \in Rows(o) : payments'[p] = payments[p]
  PROVE  PaymentOf'[o] = PaymentOf[o]
<1>1. CASE Rows(o) = {}
  BY <1>1, PaymentOfRow, PaymentOfPrime DEF StatusOfRow
<1>2. CASE Rows(o) # {}
  BY <1>2, PaymentOfRow, PaymentOfPrime DEF StatusOfRow
<1>3. QED
  BY <1>1, <1>2

\* A step that gives order o a status and PaymentOf[o] one, and leaves the other
\* orders and their rows alone, is a Move of OrderLifecycle.
LEMMA MoveStep ==
  ASSUME OnePaymentPerOrder, OnePaymentPerOrder', NEW o \in Order, NEW s, NEW t,
         orders \in [Order -> OrderStatus],
         orders' = [orders EXCEPT ![o] = s], PaymentOf'[o] = t,
         \A x \in Order \ {o} :
           Rows(x)' = Rows(x) /\ \A p \in Rows(x) : payments'[p] = payments[p]
  PROVE  Lifecycle!Move(o, orders[o], s, t)
<1>1. \A x \in Order \ {o} : PaymentOf'[x] = PaymentOf[x]
  BY SameRows
<1>2. PaymentOf' = [PaymentOf EXCEPT ![o] = t]
  BY <1>1, PaymentOfIsFunction
<1>3. QED
  BY <1>2 DEF Lifecycle!Move

\* Each step places, bills or settles one order, or changes nothing that
\* OrderLifecycle sees.
LEMMA RefinementStep ==
  ASSUME SerialInv, SerialInv', [Next]_vars PROVE [Lifecycle!Next]_(Lifecycle!vars)
<1> USE ConstantsAssumption DEF SerialInv, IInv, TypeOK, WorkerOK
<1> SUFFICES Lifecycle!Next \/ (orders' = orders /\ PaymentOf' = PaymentOf)
  BY DEF Lifecycle!vars
<1>1. CASE UNCHANGED <<orders, payments, attempts, orderOf>>
  BY <1>1 DEF PaymentOf, Rows
<1>2. ASSUME NEW o \in Order, PlaceOrder(o) PROVE Lifecycle!Next
  <2>1. \A x \in Order : Rows(x)' = Rows(x) /\ \A p \in Rows(x) : payments'[p] = payments[p]
    BY <1>2 DEF PlaceOrder, razorpay, Rows
  <2>2. orders[o] = "NONE" /\ Rows(o) = {}
    BY <1>2 DEF PlaceOrder, PaymentRowsMoveOrder
  <2>3. PaymentOf'[o] = "NONE"
    BY <2>1, <2>2, PaymentOfPrime DEF StatusOfRow
  <2>4. Lifecycle!Move(o, orders[o], "CREATED", "NONE")
    BY <1>2, <2>1, <2>3, MoveStep DEF PlaceOrder
  <2>5. QED
    BY <2>2, <2>4 DEF Lifecycle!Next, Lifecycle!Place
<1>3. ASSUME NEW w \in Worker, CreateProviderOrder(w)
      PROVE  orders' = orders /\ PaymentOf' = PaymentOf
  <2>1. \A x \in Order : Rows(x)' = Rows(x) /\ \A p \in Rows(x) : payments'[p] = payments[p]
    BY <1>3 DEF CreateProviderOrder, dbVars, Intents, Paying, Rows
  <2>2. \A x \in Order : PaymentOf'[x] = PaymentOf[x]
    BY <2>1, SameRows
  <2>3. QED
    BY <1>3, <2>2, PaymentOfIsFunction DEF CreateProviderOrder, dbVars
<1>4. ASSUME NEW w \in Worker, CommitPayment(w) PROVE Lifecycle!Next
  <2>1. PICK o \in Order, p \in Payment :
          /\ o = subject[w] /\ p = intent[w]
          /\ payments[p] = "NONE" /\ orderOf[p] = o /\ orders[o] = "CREATED"
    BY <1>4 DEF CommitPayment, Intents, Paying, Fresh
  <2>2. /\ orderOf' = orderOf
        /\ payments'[p] = "CREATED"
        /\ \A q \in Payment \ {p} : payments'[q] = payments[q]
    BY <1>4, <2>1 DEF CommitPayment
  <2>3. /\ p \in Rows(o)'
        /\ \A x \in Order \ {o} :
             Rows(x)' = Rows(x) /\ \A q \in Rows(x) : payments'[q] = payments[q]
    BY <2>2, <2>1 DEF Rows
  <2>4. PaymentOf'[o] = "CREATED"
    BY <2>2, <2>1, <2>3, PaymentOfPrime DEF StatusOfRow
  <2>5. Lifecycle!Move(o, orders[o], "PENDING_PAYMENT", "CREATED")
    BY <1>4, <2>1, <2>3, <2>4, MoveStep DEF CommitPayment
  <2>6. QED
    BY <2>1, <2>5 DEF Lifecycle!Next, Lifecycle!Bill
<1>5. ASSUME NEW w \in Worker, CommitWebhook(w) PROVE Lifecycle!Next
  <2>1. PICK e \in Event, p \in Payment, o \in Order :
          /\ e = subject[w] /\ p = e.payment /\ o = orderOf[p] /\ p \in Rows(o)
          /\ payments[p] \in Open /\ seenOrder[w] = orders[o]
    BY <1>5 DEF CommitWebhook, Committed, Hooking, Known, Fresh, Flushed, Rows
  <2>2. orders[o] = "PENDING_PAYMENT"
    BY <2>1 DEF PaymentRowsMoveOrder, OrderAgreesWithPayment, Open, OrderStatus
  <2>3. /\ orderOf' = orderOf
        /\ payments'[p] = PaymentOutcome(e)
        /\ PaymentOutcome(e) # "NONE"
        /\ \A q \in Payment \ {p} : payments'[q] = payments[q]
    BY <1>5, <2>1 DEF CommitWebhook, PaymentOutcome
  <2>4. /\ p \in Rows(o)'
        /\ \A x \in Order \ {o} :
             Rows(x)' = Rows(x) /\ \A q \in Rows(x) : payments'[q] = payments[q]
    BY <2>3, <2>1 DEF Rows, Open
  <2>5. PaymentOf'[o] = PaymentOutcome(e)
    BY <2>3, <2>1, <2>4, PaymentOfPrime DEF StatusOfRow
  <2>6. orders' = [orders EXCEPT ![o] = OrderOutcome(e)]
    BY <1>5, <2>1, <2>2 DEF CommitWebhook, OrderOutcome
  <2>7. Lifecycle!Move(o, orders[o], OrderOutcome(e), PaymentOutcome(e))
    BY <2>1, <2>4, <2>5, <2>6, MoveStep
  <2>8. QED
    BY <2>1, <2>2, <2>7 DEF Lifecycle!Next, Lifecycle!Pay, Lifecycle!Fail, OrderOutcome,
       PaymentOutcome
<1>6. QED
  BY <1>1, <1>2, <1>3, <1>4, <1>5, RowWriters

\* Without overlapping requests the handlers do to every order what
\* OrderLifecycle promises: placed, billed once, settled once with its payment.
THEOREM SerialRefinement == ASSUME OneAtATime PROVE Spec => ImplementsLifecycle
  BY RefinementInit, SerialInductive, RefinementStep, PTL
     DEF Spec, ImplementsLifecycle, Lifecycle!Spec
=============================================================================
