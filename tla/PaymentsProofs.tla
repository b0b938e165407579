--------------------------- MODULE PaymentsProofs ---------------------------
(***************************************************************************)
(* Proofs about module Payments, for every set of orders, payments, events *)
(* and workers: IInv is an invariant however the requests interleave, one  *)
(* lemma for each of its conjuncts.                                        *)
(***************************************************************************)
EXTENDS PaymentsInv, TLAPS

\* The inductive invariant holds initially.
LEMMA InvInit == Init => IInv
<1> SUFFICES ASSUME Init PROVE IInv
  OBVIOUS
<1> USE ConstantsAssumption DEF Init
<1>1. TypeOK
  BY DEF TypeOK, WorkerOK, PC, OrderStatus, PaymentStatus
<1>2. Intents /\ Committed /\ Locks
  BY DEF Intents, Committed, Locks, Paying, Hooking, Flushed
<1>3. EventOnce /\ SettledByEvent
  BY DEF EventOnce, SettledByEvent
<1>4. OrderOutcomeEarned /\ PaymentRowsMoveOrder /\ AckedIsStored
  BY DEF OrderOutcomeEarned, PaymentRowsMoveOrder, AckedIsStored, Rows
<1>5. QED
  BY <1>1, <1>2, <1>3, <1>4 DEF IInv

\* Types are kept.  A webhook reads the status of the order of its payment,
\* which Committed guarantees to be one.
LEMMA TypeStep == TypeOK /\ Committed /\ [Next]_vars => TypeOK'
<1> SUFFICES ASSUME TypeOK /\ Committed, [Next]_vars PROVE TypeOK'
  OBVIOUS
<1> USE ConstantsAssumption DEF TypeOK, WorkerOK, PC, dbVars, razorpay, workerVars,
       OrderStatus, PaymentStatus
<1>1. ASSUME NEW o \in Order, PlaceOrder(o) PROVE TypeOK'
  BY <1>1 DEF PlaceOrder
<1>2. ASSUME NEW w \in Worker, NEW o \in Order, NEW p \in Payment, ReadOrder(w, o, p)
      PROVE  TypeOK'
  BY <1>2 DEF ReadOrder
<1>3. ASSUME NEW e \in Event, Raise(e) PROVE TypeOK'
  BY <1>3 DEF Raise
<1>4. ASSUME NEW w \in Worker, NEW e \in Event, IgnoreUnknown(w, e) PROVE TypeOK'
  BY <1>4 DEF IgnoreUnknown
<1>5. ASSUME NEW w \in Worker, NEW e \in Event, Receive(w, e) PROVE TypeOK'
  BY <1>5 DEF Receive, Known
<1>6. ASSUME NEW w \in Worker, CheckExisting(w) PROVE TypeOK'
  BY <1>6 DEF CheckExisting, Finish, ActiveOf
<1>7. ASSUME NEW w \in Worker, CreateProviderOrder(w) PROVE TypeOK'
  BY <1>7 DEF CreateProviderOrder
<1>8. ASSUME NEW w \in Worker, CommitPayment(w) PROVE TypeOK'
  BY <1>8 DEF CommitPayment, Finish
<1>9. ASSUME NEW w \in Worker, AmountOverflow(w) PROVE TypeOK'
  BY <1>9 DEF AmountOverflow, Finish
<1>10. ASSUME NEW w \in Worker, CheckEvent(w) PROVE TypeOK'
  BY <1>10 DEF CheckEvent, Finish
<1>11. ASSUME NEW w \in Worker, StoreOnly(w) PROVE TypeOK'
  BY <1>11 DEF StoreOnly, Finish
<1>12. ASSUME NEW w \in Worker, FlushPayment(w) PROVE TypeOK'
  BY <1>12 DEF FlushPayment, Committed, Hooking, Known
<1>13. ASSUME NEW w \in Worker, InsertConflict(w) PROVE TypeOK'
  BY <1>13 DEF InsertConflict, Finish
<1>14. ASSUME NEW w \in Worker, CommitWebhook(w) PROVE TypeOK'
  <2> DEFINE e == subject[w]
  <2>1. e \in Event
    BY <1>14 DEF CommitWebhook
  <2>2. payments' \in [Payment -> PaymentStatus] /\ orders' \in [Order -> OrderStatus]
    BY <1>14, <2>1 DEF CommitWebhook, PaymentOutcome, OrderOutcome
  <2>3. stored' \in [Event -> Nat] /\ attempts' \in [Event -> Nat] /\ acked' \subseteq Event
    BY <1>14, <2>1 DEF CommitWebhook
  <2>4. QED
    BY <1>14, <2>2, <2>3 DEF CommitWebhook, Finish
<1>15. ASSUME NEW w \in Worker, Crash(w) PROVE TypeOK'
  BY <1>15 DEF Crash, Finish
<1>16. CASE UNCHANGED vars
  BY <1>16 DEF vars
<1>17. QED
  BY <1>1, <1>2, <1>3, <1>4, <1>5, <1>6, <1>7, <1>8, <1>9, <1>10, <1>11, <1>12,
     <1>13, <1>14, <1>15, <1>16 DEF Next, PayStep, HookStep

\* The payment a request is about to create stays its own.
LEMMA IntentsStep == TypeOK /\ Committed /\ Intents /\ [Next]_vars => Intents'
<1> SUFFICES ASSUME TypeOK /\ Committed /\ Intents, [Next]_vars PROVE Intents'
  OBVIOUS
<1> USE ConstantsAssumption DEF TypeOK, WorkerOK, PC, dbVars, razorpay, workerVars,
       Intents, Paying
<1>1. ASSUME NEW o \in Order, PlaceOrder(o) PROVE Intents'
  BY <1>1 DEF PlaceOrder
<1>2. ASSUME NEW w \in Worker, NEW o \in Order, NEW p \in Payment, ReadOrder(w, o, p)
      PROVE  Intents'
  BY <1>2 DEF ReadOrder, Committed
<1>3. ASSUME NEW e \in Event, Raise(e) PROVE Intents'
  BY <1>3 DEF Raise
<1>4. ASSUME NEW w \in Worker, NEW e \in Event, IgnoreUnknown(w, e) PROVE Intents'
  BY <1>4 DEF IgnoreUnknown
<1>5. ASSUME NEW w \in Worker, NEW e \in Event, Receive(w, e) PROVE Intents'
  BY <1>5 DEF Receive
<1>6. ASSUME NEW w \in Worker, CheckExisting(w) PROVE Intents'
  BY <1>6 DEF CheckExisting, Finish
<1>7. ASSUME NEW w \in Worker, CreateProviderOrder(w) PROVE Intents'
  BY <1>7 DEF CreateProviderOrder
<1>8. ASSUME NEW w \in Worker, CommitPayment(w) PROVE Intents'
  BY <1>8 DEF CommitPayment, Finish
<1>9. ASSUME NEW w \in Worker, AmountOverflow(w) PROVE Intents'
  BY <1>9 DEF AmountOverflow, Finish
<1>10. ASSUME NEW w \in Worker, CheckEvent(w) PROVE Intents'
  BY <1>10 DEF CheckEvent, Finish
<1>11. ASSUME NEW w \in Worker, StoreOnly(w) PROVE Intents'
  BY <1>11 DEF StoreOnly, Finish
<1>12. ASSUME NEW w \in Worker, FlushPayment(w) PROVE Intents'
  BY <1>12 DEF FlushPayment
<1>13. ASSUME NEW w \in Worker, InsertConflict(w) PROVE Intents'
  BY <1>13 DEF InsertConflict, Finish
<1>14. ASSUME NEW w \in Worker, CommitWebhook(w) PROVE Intents'
  <2> DEFINE p == subject[w].payment
  <2>1. p \in Payment /\ payments[p] # "NONE" /\ orderOf[p] \in Order
    BY <1>14 DEF CommitWebhook, Committed, Hooking, Known
  <2>2. \A q \in Payment : q # p => payments'[q] = payments[q]
    BY <1>14 DEF CommitWebhook
  <2>3. \A x \in Order : orders[x] # "NONE" => orders'[x] # "NONE"
    BY <1>14, <2>1 DEF CommitWebhook, OrderOutcome
  <2>4. ASSUME NEW v \in Worker, Paying(v)'
        PROVE  /\ payments'[intent'[v]] = "NONE"
               /\ orderOf'[intent'[v]] = IF pc'[v] = "pay_commit" THEN subject'[v] ELSE None
               /\ orders'[subject'[v]] # "NONE"
    <3>1. v # w /\ Paying(v) /\ intent'[v] = intent[v] /\ subject'[v] = subject[v]
          /\ pc'[v] = pc[v]
      BY <1>14, <2>4 DEF CommitWebhook, Finish
    <3>2. QED
      BY <1>14, <2>1, <2>2, <2>3, <3>1 DEF CommitWebhook
  <2>5. QED
    BY <1>14, <2>4 DEF CommitWebhook, Finish
<1>15. ASSUME NEW w \in Worker, Crash(w) PROVE Intents'
  BY <1>15 DEF Crash, Finish
<1>16. CASE UNCHANGED vars
  BY <1>16 DEF vars
<1>17. QED
  BY <1>1, <1>2, <1>3, <1>4, <1>5, <1>6, <1>7, <1>8, <1>9, <1>10, <1>11, <1>12,
     <1>13, <1>14, <1>15, <1>16 DEF Next, PayStep, HookStep

\* Rows of payments and what clients, Razorpay and webhooks know of them.
LEMMA CommittedStep == TypeOK /\ Intents /\ Committed /\ [Next]_vars => Committed'
<1> SUFFICES ASSUME TypeOK /\ Intents /\ Committed, [Next]_vars PROVE Committed'
  OBVIOUS
<1> USE ConstantsAssumption DEF TypeOK, WorkerOK, PC, dbVars, razorpay, workerVars,
       Committed, Hooking, Known, Intents, Paying
<1>1. ASSUME NEW o \in Order, PlaceOrder(o) PROVE Committed'
  BY <1>1 DEF PlaceOrder
<1>2. ASSUME NEW w \in Worker, NEW o \in Order, NEW p \in Payment, ReadOrder(w, o, p)
      PROVE  Committed'
  BY <1>2 DEF ReadOrder
<1>3. ASSUME NEW e \in Event, Raise(e) PROVE Committed'
  BY <1>3 DEF Raise
<1>4. ASSUME NEW w \in Worker, NEW e \in Event, IgnoreUnknown(w, e) PROVE Committed'
  BY <1>4 DEF IgnoreUnknown
<1>5. ASSUME NEW w \in Worker, NEW e \in Event, Receive(w, e) PROVE Committed'
  BY <1>5 DEF Receive
<1>6. ASSUME NEW w \in Worker, CheckExisting(w) PROVE Committed'
  BY <1>6 DEF CheckExisting, Finish, ActiveOf, Reusable
<1>7. ASSUME NEW w \in Worker, CreateProviderOrder(w) PROVE Committed'
  BY <1>7 DEF CreateProviderOrder
<1>8. ASSUME NEW w \in Worker, CommitPayment(w) PROVE Committed'
  BY <1>8 DEF CommitPayment, Finish
<1>9. ASSUME NEW w \in Worker, AmountOverflow(w) PROVE Committed'
  BY <1>9 DEF AmountOverflow, Finish
<1>10. ASSUME NEW w \in Worker, CheckEvent(w) PROVE Committed'
  BY <1>10 DEF CheckEvent, Finish
<1>11. ASSUME NEW w \in Worker, StoreOnly(w) PROVE Committed'
  BY <1>11 DEF StoreOnly, Finish
<1>12. ASSUME NEW w \in Worker, FlushPayment(w) PROVE Committed'
  BY <1>12 DEF FlushPayment
<1>13. ASSUME NEW w \in Worker, InsertConflict(w) PROVE Committed'
  BY <1>13 DEF InsertConflict, Finish
<1>14. ASSUME NEW w \in Worker, CommitWebhook(w) PROVE Committed'
  <2>1. \A q \in Payment : payments'[q] # "NONE" <=> payments[q] # "NONE"
    BY <1>14 DEF CommitWebhook, PaymentOutcome
  <2>2. ASSUME NEW v \in Worker, Hooking(v)'
        PROVE  Hooking(v) /\ subject'[v] = subject[v]
    BY <1>14, <2>2 DEF CommitWebhook, Finish
  <2>3. QED
    BY <1>14, <2>1, <2>2 DEF CommitWebhook
<1>15. ASSUME NEW w \in Worker, Crash(w) PROVE Committed'
  BY <1>15 DEF Crash, Finish
<1>16. CASE UNCHANGED vars
  BY <1>16 DEF vars
<1>17. QED
  BY <1>1, <1>2, <1>3, <1>4, <1>5, <1>6, <1>7, <1>8, <1>9, <1>10, <1>11, <1>12,
     <1>13, <1>14, <1>15, <1>16 DEF Next, PayStep, HookStep

\* Row locks and the unique index keep two flushed webhooks apart.
LEMMA LocksStep == TypeOK /\ Committed /\ Locks /\ [Next]_vars => Locks'
<1> SUFFICES ASSUME TypeOK /\ Committed /\ Locks, [Next]_vars PROVE Locks'
  OBVIOUS
<1> USE ConstantsAssumption DEF TypeOK, WorkerOK, PC, dbVars, razorpay, workerVars,
       Locks, Flushed
<1>1. ASSUME NEW o \in Order, PlaceOrder(o) PROVE Locks'
  BY <1>1 DEF PlaceOrder
<1>2. ASSUME NEW w \in Worker, NEW o \in Order, NEW p \in Payment, ReadOrder(w, o, p)
      PROVE  Locks'
  BY <1>2 DEF ReadOrder
<1>3. ASSUME NEW e \in Event, Raise(e) PROVE Locks'
  BY <1>3 DEF Raise
<1>4. ASSUME NEW w \in Worker, NEW e \in Event, IgnoreUnknown(w, e) PROVE Locks'
  BY <1>4 DEF IgnoreUnknown
<1>5. ASSUME NEW w \in Worker, NEW e \in Event, Receive(w, e) PROVE Locks'
  BY <1>5 DEF Receive
<1>6. ASSUME NEW w \in Worker, CheckExisting(w) PROVE Locks'
  BY <1>6 DEF CheckExisting, Finish
<1>7. ASSUME NEW w \in Worker, CreateProviderOrder(w) PROVE Locks'
  BY <1>7 DEF CreateProviderOrder
<1>8. ASSUME NEW w \in Worker, CommitPayment(w) PROVE Locks'
  BY <1>8 DEF CommitPayment, Finish
<1>9. ASSUME NEW w \in Worker, AmountOverflow(w) PROVE Locks'
  BY <1>9 DEF AmountOverflow, Finish
<1>10. ASSUME NEW w \in Worker, CheckEvent(w) PROVE Locks'
  <2>1. ASSUME NEW v \in Worker
        PROVE  Flushed(v)' => Flushed(v) /\ subject'[v] = subject[v]
    BY <1>10 DEF CheckEvent, Finish
  <2>2. QED
    BY <1>10, <2>1 DEF CheckEvent
<1>11. ASSUME NEW w \in Worker, StoreOnly(w) PROVE Locks'
  BY <1>11 DEF StoreOnly, Finish, EventFree, Applies
<1>12. ASSUME NEW w \in Worker, FlushPayment(w) PROVE Locks'
  BY <1>12 DEF FlushPayment, EventFree, PaymentFree, Duplicate, Applies
<1>13. ASSUME NEW w \in Worker, InsertConflict(w) PROVE Locks'
  BY <1>13 DEF InsertConflict, Finish
<1>14. ASSUME NEW w \in Worker, CommitWebhook(w) PROVE Locks'
  BY <1>14 DEF CommitWebhook, Finish
<1>15. ASSUME NEW w \in Worker, Crash(w) PROVE Locks'
  BY <1>15 DEF Crash, Finish
<1>16. CASE UNCHANGED vars
  BY <1>16 DEF vars
<1>17. QED
  BY <1>1, <1>2, <1>3, <1>4, <1>5, <1>6, <1>7, <1>8, <1>9, <1>10, <1>11, <1>12,
     <1>13, <1>14, <1>15, <1>16 DEF Next, PayStep, HookStep

\* Which steps write the tables orders, payments and payment_attempts or create
\* Razorpay orders.
LEMMA RowWriters ==
  ASSUME [Next]_vars
  PROVE  \/ UNCHANGED <<orders, payments, attempts, orderOf>>
         \/ \E o \in Order : PlaceOrder(o)
         \/ \E w \in Worker : CreateProviderOrder(w) \/ CommitPayment(w) \/ CommitWebhook(w)
  BY DEF Next, PayStep, HookStep, vars, dbVars, razorpay, ReadOrder, CheckExisting,
     AmountOverflow, Raise, IgnoreUnknown, Receive, CheckEvent, StoreOnly,
     FlushPayment, InsertConflict, Crash

\* Which steps write the table webhook_events or answer a webhook with 2xx.
LEMMA EventWriters ==
  ASSUME [Next]_vars
  PROVE  \/ UNCHANGED <<stored, attempts, acked>>
         \/ \E w \in Worker, e \in Event : IgnoreUnknown(w, e)
         \/ \E w \in Worker : CheckEvent(w) \/ StoreOnly(w) \/ CommitWebhook(w)
  BY DEF Next, PayStep, HookStep, vars, dbVars, razorpay, PlaceOrder, ReadOrder,
     CheckExisting, CreateProviderOrder, CommitPayment, AmountOverflow, Raise,
     Receive, FlushPayment, InsertConflict, Crash

\* The unique index lets one delivery of an event through.
LEMMA EventOnceStep == TypeOK /\ Locks /\ EventOnce /\ [Next]_vars => EventOnce'
<1> SUFFICES ASSUME TypeOK, Locks, EventOnce, [Next]_vars PROVE EventOnce'
  OBVIOUS
<1> USE DEF TypeOK, WorkerOK, EventOnce, dbVars, razorpay
<1>1. CASE UNCHANGED <<stored, attempts, acked>>
  BY <1>1
<1>2. ASSUME NEW w \in Worker, NEW e \in Event, IgnoreUnknown(w, e) PROVE EventOnce'
  BY <1>2 DEF IgnoreUnknown
<1>3. ASSUME NEW w \in Worker, CheckEvent(w) PROVE EventOnce'
  BY <1>3 DEF CheckEvent
<1>4. ASSUME NEW w \in Worker, StoreOnly(w) PROVE EventOnce'
  BY <1>4 DEF StoreOnly, Duplicate
<1>5. ASSUME NEW w \in Worker, CommitWebhook(w) PROVE EventOnce'
  BY <1>5 DEF CommitWebhook, Locks, Flushed
<1>6. QED
  BY <1>1, <1>2, <1>3, <1>4, <1>5, EventWriters

\* A payment's status is set together with its attempt.
LEMMA SettledStep ==
  TypeOK /\ Committed /\ Locks /\ SettledByEvent /\ [Next]_vars => SettledByEvent'
<1> SUFFICES ASSUME TypeOK, Committed, Locks, SettledByEvent, [Next]_vars
             PROVE  SettledByEvent'
  OBVIOUS
<1> USE DEF TypeOK, WorkerOK, SettledByEvent, Captures, Failures
<1>1. CASE UNCHANGED <<orders, payments, attempts, orderOf>>
  BY <1>1
<1>2. ASSUME NEW o \in Order, PlaceOrder(o) PROVE SettledByEvent'
  BY <1>2 DEF PlaceOrder
<1>3. ASSUME NEW w \in Worker, CreateProviderOrder(w) PROVE SettledByEvent'
  BY <1>3 DEF CreateProviderOrder, dbVars
<1>4. ASSUME NEW w \in Worker, CommitPayment(w) PROVE SettledByEvent'
  BY <1>4 DEF CommitPayment
<1>5. ASSUME NEW w \in Worker, CommitWebhook(w) PROVE SettledByEvent'
  BY <1>5 DEF CommitWebhook, Locks, Flushed, PaymentOutcome, Committed, Hooking
<1>6. QED
  BY <1>1, <1>2, <1>3, <1>4, <1>5, RowWriters

\* An order's outcome is set together with the attempt of one of its payments.
LEMMA OutcomeStep ==
  TypeOK /\ Intents /\ Committed /\ Locks /\ OrderOutcomeEarned /\ [Next]_vars
    => OrderOutcomeEarned'
<1> SUFFICES ASSUME TypeOK, Intents, Committed, Locks, OrderOutcomeEarned, [Next]_vars
             PROVE  OrderOutcomeEarned'
  OBVIOUS
<1> USE ConstantsAssumption
    DEF TypeOK, WorkerOK, OrderOutcomeEarned, Captures, Failures, Rows
<1>1. CASE UNCHANGED <<orders, payments, attempts, orderOf>>
  BY <1>1
<1>2. ASSUME NEW o \in Order, PlaceOrder(o) PROVE OrderOutcomeEarned'
  BY <1>2 DEF PlaceOrder, razorpay
<1>3. ASSUME NEW w \in Worker, CreateProviderOrder(w) PROVE OrderOutcomeEarned'
  BY <1>3 DEF CreateProviderOrder, dbVars, Intents, Paying
<1>4. ASSUME NEW w \in Worker, CommitPayment(w) PROVE OrderOutcomeEarned'
  BY <1>4 DEF CommitPayment
<1>5. ASSUME NEW w \in Worker, CommitWebhook(w) PROVE OrderOutcomeEarned'
  BY <1>5 DEF CommitWebhook, Locks, Flushed, PaymentOutcome, OrderOutcome, Committed,
     Hooking, Known
<1>6. QED
  BY <1>1, <1>2, <1>3, <1>4, <1>5, RowWriters

\* A payment's row and the order's status are set together.
LEMMA RowsStep ==
  TypeOK /\ Intents /\ Committed /\ PaymentRowsMoveOrder /\ [Next]_vars
    => PaymentRowsMoveOrder'
<1> SUFFICES ASSUME TypeOK, Intents, Committed, PaymentRowsMoveOrder, [Next]_vars
             PROVE  PaymentRowsMoveOrder'
  OBVIOUS
<1> USE ConstantsAssumption DEF TypeOK, WorkerOK, PaymentRowsMoveOrder, Rows
<1>1. CASE UNCHANGED <<orders, payments, attempts, orderOf>>
  BY <1>1
<1>2. ASSUME NEW o \in Order, PlaceOrder(o) PROVE PaymentRowsMoveOrder'
  BY <1>2 DEF PlaceOrder, razorpay
<1>3. ASSUME NEW w \in Worker, CreateProviderOrder(w) PROVE PaymentRowsMoveOrder'
  BY <1>3 DEF CreateProviderOrder, dbVars, Intents, Paying
<1>4. ASSUME NEW w \in Worker, CommitPayment(w) PROVE PaymentRowsMoveOrder'
  BY <1>4 DEF CommitPayment, Intents, Paying
<1>5. ASSUME NEW w \in Worker, CommitWebhook(w) PROVE PaymentRowsMoveOrder'
  BY <1>5 DEF CommitWebhook, PaymentOutcome, OrderOutcome, Committed, Hooking, Known
<1>6. QED
  BY <1>1, <1>2, <1>3, <1>4, <1>5, RowWriters

\* An event of a payment finds its row, and is answered 2xx only once stored.
LEMMA AckedStep == TypeOK /\ Committed /\ AckedIsStored /\ [Next]_vars => AckedIsStored'
<1> SUFFICES ASSUME TypeOK, Committed, AckedIsStored, [Next]_vars PROVE AckedIsStored'
  OBVIOUS
<1> USE DEF TypeOK, WorkerOK, AckedIsStored
<1>1. CASE UNCHANGED <<stored, attempts, acked>>
  BY <1>1
<1>2. ASSUME NEW w \in Worker, NEW e \in Event, IgnoreUnknown(w, e) PROVE AckedIsStored'
  BY <1>2, ConstantsAssumption DEF IgnoreUnknown, Known, Committed, dbVars
<1>3. ASSUME NEW w \in Worker, CheckEvent(w) PROVE AckedIsStored'
  BY <1>3 DEF CheckEvent, Duplicate, dbVars
<1>4. ASSUME NEW w \in Worker, StoreOnly(w) PROVE AckedIsStored'
  BY <1>4 DEF StoreOnly
<1>5. ASSUME NEW w \in Worker, CommitWebhook(w) PROVE AckedIsStored'
  BY <1>5 DEF CommitWebhook
<1>6. QED
  BY <1>1, <1>2, <1>3, <1>4, <1>5, EventWriters

\* Every step keeps the inductive invariant.
LEMMA InvStep == IInv /\ [Next]_vars => IInv'
  BY TypeStep, IntentsStep, CommittedStep, LocksStep, EventOnceStep, SettledStep,
     OutcomeStep, RowsStep, AckedStep DEF IInv

\* The inductive invariant holds in every reachable state.
THEOREM Inductive == Spec => []IInv
  BY InvInit, InvStep, PTL DEF Spec

\* Every variable keeps its type, and each worker's locals fit its place in the
\* handler of POST /payments or of the webhook.
THEOREM TypeCorrect == Spec => []TypeOK
  BY Inductive, PTL DEF IInv

\* An event with an id is stored at most once and applied at most once, however
\* many requests handle its deliveries at the same time.
THEOREM EventsOnce == Spec => []EventOnce
  BY Inductive, PTL DEF IInv

\* No payment is PAID (FAILED) without an applied captured (failed) event of it.
THEOREM PaymentsSettledByEvents == Spec => []SettledByEvent
  BY Inductive, PTL DEF IInv

\* No order is PAID (PAYMENT_FAILED) without an applied captured (failed) event
\* of one of its payments.
THEOREM OrderOutcomesEarned == Spec => []OrderOutcomeEarned
  BY Inductive, PTL DEF IInv

\* An order has payment rows exactly when it has left CREATED, whatever requests
\* die between the call of Razorpay and the commit.
THEOREM RowsMoveOrders == Spec => []PaymentRowsMoveOrder
  BY Inductive, PTL DEF IInv

\* No webhook about a payment of this API is answered 2xx without being stored.
THEOREM NoAckedEventLost == Spec => []AckedIsStored
  BY Inductive, PTL DEF IInv
=============================================================================
