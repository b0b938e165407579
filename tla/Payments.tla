------------------------------ MODULE Payments ------------------------------
(***************************************************************************)
(* Payments of orders: PaymentService.create_payment_for_order, the route  *)
(* POST /payments, the route POST /webhooks/razorpay and, as environment,  *)
(* Razorpay and the customers.                                             *)
(*                                                                         *)
(* The API runs many requests at once over one PostgreSQL database at its  *)
(* default isolation level, READ COMMITTED.  A request is therefore split  *)
(* at its database statements and at its call of Razorpay: what it read is *)
(* kept in its worker's local variables, what it wrote becomes visible to  *)
(* the others when it commits, and a request that fails or is killed       *)
(* before its commit leaves nothing behind in the database.  A row that a  *)
(* request has written and not yet committed is locked against the writes  *)
(* of the others.  Steps that only touch what the worker holds, or that no *)
(* other request could tell apart, are one action.                         *)
(*                                                                         *)
(* A payment, its row of table payments and its Razorpay order share one   *)
(* identifier, a member of Payment: the handler creates the three together *)
(* and relates them one to one (payments.razorpay_order_id).               *)
(***************************************************************************)
EXTENDS Naturals

CONSTANTS
  Order,       \* orders that checkout may place
  Payment,     \* payments that may be created for them: the bound on payments
  Foreign,     \* Razorpay orders of the same account this API did not create
  Worker,      \* request slots: as many requests run at once as it has members
  Event,       \* events Razorpay may raise for them: the bound on events
  Anonymous,   \* events whose payload has no top-level "id"
  Mismatched,  \* events whose amount or currency is not the payment's
  Oversized,   \* orders whose total does not fit payments.amount NUMERIC(10,4)
  MaxCopies,   \* bound on the rows one anonymous event is given
  MaxCrashes,  \* bound on the requests that fail or are killed half-way
  None         \* no order, no payment, no event

EventType == {"payment.authorized", "payment.captured", "payment.failed"}

ASSUME ConstantsAssumption ==
  /\ Payment \cap Foreign = {}
  /\ \A e \in Event : e.payment \in Payment \cup Foreign /\ e.type \in EventType
  /\ Anonymous \subseteq Event
  /\ Mismatched \subseteq Event
  /\ Oversized \subseteq Order
  /\ MaxCopies \in Nat
  /\ MaxCrashes \in Nat
  /\ None \notin Order \cup Payment \cup Foreign \cup Event

OrderStatus   == {"NONE", "CREATED", "PENDING_PAYMENT", "PAID", "PAYMENT_FAILED"}
PaymentStatus == {"NONE", "CREATED", "PENDING", "AUTHORIZED", "PAID", "FAILED"}

\* The statuses from which a webhook may move a payment.
Open == {"CREATED", "PENDING", "AUTHORIZED"}

\* The statuses in which create_payment_for_order takes a payment for active.
Reusable == {"CREATED", "PENDING"}

VARIABLES
  orders,      \* orders.status of each order, "NONE" before it is placed
  payments,    \* payments.status of each payment, "NONE" before its commit
  orderOf,     \* the order a Razorpay order was created for (None: no such)
  told,        \* payments whose Razorpay order id some client was given
  raised,      \* events Razorpay has raised
  acked,       \* events Razorpay got a 2xx answer for
  stored,      \* how many rows of webhook_events each event has
  attempts,    \* how many rows of payment_attempts each event has
  crashes,     \* requests that have failed or been killed so far
  pc,          \* where each worker's request is
  subject,     \* what it works for: an order (pay) or an event (hook)
  intent,      \* the payment it is about to create
  seen,        \* the payment's status it has read
  seenOrder    \* the order's status it has read

dbVars     == <<orders, payments, stored, attempts>>
razorpay   == <<orderOf, told, raised, acked>>
workerVars == <<pc, subject, intent, seen, seenOrder>>
vars       == <<dbVars, razorpay, crashes, workerVars>>

PC == {"idle", "pay_existing", "pay_provider", "pay_commit",
       "hook_event", "hook_apply", "hook_commit"}

Init ==
  /\ orders    = [o \in Order |-> "NONE"]
  /\ payments  = [p \in Payment |-> "NONE"]
  /\ orderOf   = [p \in Payment |-> None]
  /\ told      = {}
  /\ raised    = {}
  /\ acked     = {}
  /\ stored    = [e \in Event |-> 0]
  /\ attempts  = [e \in Event |-> 0]
  /\ crashes   = 0
  /\ pc        = [w \in Worker |-> "idle"]
  /\ subject   = [w \in Worker |-> None]
  /\ intent    = [w \in Worker |-> None]
  /\ seen      = [w \in Worker |-> "NONE"]
  /\ seenOrder = [w \in Worker |-> "NONE"]

-----------------------------------------------------------------------------
(* Helpers.                                                                *)

\* The request of w ends: its worker is free again and its locals are gone.
Finish(w) ==
  /\ pc'        = [pc EXCEPT ![w] = "idle"]
  /\ subject'   = [subject EXCEPT ![w] = None]
  /\ intent'    = [intent EXCEPT ![w] = None]
  /\ seen'      = [seen EXCEPT ![w] = "NONE"]
  /\ seenOrder' = [seenOrder EXCEPT ![w] = "NONE"]

\* A row of table payments that the event's razorpay_order_id finds.
Known(e) == e.payment \in Payment /\ payments[e.payment] # "NONE"

\* The committed payments of an order that count as active.
ActiveOf(o) == {p \in Payment : orderOf[p] = o /\ payments[p] \in Reusable}

\* Mutation of Applies: the payment's status is not looked at.
AppliesToAnyStatus(w) == subject[w].type \in {"payment.captured", "payment.failed"}

\* The event of w's webhook moves the payment: it is captured or failed and
\* the payment, as w read it, is still open.
Applies(w) ==
  /\ subject[w].type \in {"payment.captured", "payment.failed"}
  /\ seen[w] \in Open

\* Mutations of PaymentOutcome: the order's word for a failure; one outcome for all.
PaymentOutcomeInOrderWords(e) ==
  IF e.type = "payment.captured" THEN "PAID" ELSE "PAYMENT_FAILED"
PaymentOutcomeAlwaysPaid(e) == "PAID"

\* Mutation of OrderOutcome: one outcome for all.
OrderOutcomeAlwaysPaid(e) == "PAID"

\* What a captured or failed event makes of its payment, and of the order.
PaymentOutcome(e) == IF e.type = "payment.captured" THEN "PAID" ELSE "FAILED"
OrderOutcome(e)   == IF e.type = "payment.captured" THEN "PAID" ELSE "PAYMENT_FAILED"

\* Requests between the flush of their payment and event rows and their commit.
Flushed(w) == pc[w] = "hook_commit"

\* The unique index on webhook_events.event_id makes w wait for another request
\* that has inserted the same id and not committed.  An anonymous event gets a
\* random id and never meets another.
EventFree(w) ==
  \/ subject[w] \in Anonymous
  \/ \A v \in Worker \ {w} : ~(Flushed(v) /\ subject[v] = subject[w])

\* The row lock of the payment makes w wait for another request's update of it.
PaymentFree(w) ==
  \A v \in Worker \ {w} : ~(Flushed(v) /\ subject[v].payment = subject[w].payment)

\* Mutation of Duplicate: no look-up of the event and no unique index.
DuplicateUnnoticed(w) == FALSE

\* The insert of w's event violates the unique index: IntegrityError.
Duplicate(w) == subject[w] \notin Anonymous /\ stored[subject[w]] > 0

-----------------------------------------------------------------------------
(* POST /payments.                                                         *)

\* CheckoutService.confirm_quote commits a new order.
PlaceOrder(o) ==
  /\ orders[o] = "NONE"
  /\ orders' = [orders EXCEPT ![o] = "CREATED"]
  /\ UNCHANGED <<payments, stored, attempts, razorpay, crashes, workerVars>>

\* Mutation of ReadOrder: the order's status is not checked.
ReadOrderInAnyStatus(w, o, p) ==
  /\ pc[w] = "idle"
  /\ orders[o] # "NONE"
  /\ orderOf[p] = None /\ \A v \in Worker : intent[v] # p
  /\ pc'      = [pc EXCEPT ![w] = "pay_existing"]
  /\ subject' = [subject EXCEPT ![w] = o]
  /\ intent'  = [intent EXCEPT ![w] = p]
  /\ UNCHANGED <<dbVars, razorpay, crashes, seen, seenOrder>>

\* SELECT the order; any status but CREATED is refused with ValidationError.
ReadOrder(w, o, p) ==
  /\ pc[w] = "idle"
  /\ orders[o] = "CREATED"
  /\ orderOf[p] = None /\ \A v \in Worker : intent[v] # p
  /\ pc'      = [pc EXCEPT ![w] = "pay_existing"]
  /\ subject' = [subject EXCEPT ![w] = o]
  /\ intent'  = [intent EXCEPT ![w] = p]
  /\ UNCHANGED <<dbVars, razorpay, crashes, seen, seenOrder>>

\* SELECT the order's active payments: one is returned to the client (whose
\* connection may be gone), several raise MultipleResultsFound.
CheckExisting(w) ==
  LET active == ActiveOf(subject[w]) IN
  /\ pc[w] = "pay_existing"
  /\ \/ /\ active = {}
        /\ pc' = [pc EXCEPT ![w] = "pay_provider"]
        /\ UNCHANGED <<told, subject, intent, seen, seenOrder>>
     \/ /\ active # {}
        /\ \/ told' = told
           \/ \E p \in active : active = {p} /\ told' = told \cup {p}
        /\ Finish(w)
  /\ UNCHANGED <<dbVars, orderOf, raised, acked, crashes>>

\* Mutation of CreateProviderOrder: the client gets the answer before the commit.
CreateProviderOrderAndAnswer(w) ==
  /\ pc[w] = "pay_provider"
  /\ orderOf' = [orderOf EXCEPT ![intent[w]] = subject[w]]
  /\ told'    = told \cup {intent[w]}
  /\ pc'      = [pc EXCEPT ![w] = "pay_commit"]
  /\ UNCHANGED <<dbVars, raised, acked, crashes, subject, intent, seen, seenOrder>>

\* provider.create_order: Razorpay has the order from here on, whatever
\* becomes of the request.
CreateProviderOrder(w) ==
  /\ pc[w] = "pay_provider"
  /\ orderOf' = [orderOf EXCEPT ![intent[w]] = subject[w]]
  /\ pc'      = [pc EXCEPT ![w] = "pay_commit"]
  /\ UNCHANGED <<dbVars, told, raised, acked, crashes, subject, intent, seen, seenOrder>>

\* Mutation of CommitPayment: the order keeps its status.
CommitPaymentAlone(w) ==
  /\ pc[w] = "pay_commit"
  /\ subject[w] \notin Oversized
  /\ payments' = [payments EXCEPT ![intent[w]] = "CREATED"]
  /\ told' \in {told, told \cup {intent[w]}}
  /\ Finish(w)
  /\ UNCHANGED <<orders, stored, attempts, orderOf, raised, acked, crashes>>

\* INSERT the payment, UPDATE orders by primary key alone, commit, answer (the
\* client may be gone).
CommitPayment(w) ==
  /\ pc[w] = "pay_commit"
  /\ subject[w] \notin Oversized
  /\ payments' = [payments EXCEPT ![intent[w]] = "CREATED"]
  /\ orders'   = [orders EXCEPT ![subject[w]] = "PENDING_PAYMENT"]
  /\ told' \in {told, told \cup {intent[w]}}
  /\ Finish(w)
  /\ UNCHANGED <<stored, attempts, orderOf, raised, acked, crashes>>

\* The INSERT fails on payments.amount: the request ends with a rollback.
AmountOverflow(w) ==
  /\ pc[w] = "pay_commit"
  /\ subject[w] \in Oversized
  /\ Finish(w)
  /\ UNCHANGED <<dbVars, razorpay, crashes>>

-----------------------------------------------------------------------------
(* POST /webhooks/razorpay.                                                *)

\* Razorpay raises an event of a payment: a customer who was given the Razorpay
\* order id may fail to pay several times and pays at most once.
Raise(e) ==
  /\ e \notin raised
  /\ e.payment \in told \cup Foreign
  /\ \A d \in raised : d.payment = e.payment => d.type # "payment.captured"
  /\ raised' = raised \cup {e}
  /\ UNCHANGED <<dbVars, orderOf, told, acked, crashes, workerVars>>

\* A delivery of an event of no payment here: answered 200, "unknown order_id".
IgnoreUnknown(w, e) ==
  /\ pc[w] = "idle"
  /\ e \in raised
  /\ ~Known(e)
  /\ acked' = acked \cup {e}
  /\ UNCHANGED <<dbVars, orderOf, told, raised, crashes, workerVars>>

\* A delivery, first or repeated: SELECT the payment, compare the amounts (400
\* when they differ) and keep its status.
Receive(w, e) ==
  /\ pc[w] = "idle"
  /\ e \in raised
  /\ Known(e)
  /\ e \notin Mismatched
  /\ e \in Anonymous => stored[e] < MaxCopies
  /\ pc'      = [pc EXCEPT ![w] = "hook_event"]
  /\ subject' = [subject EXCEPT ![w] = e]
  /\ seen'    = [seen EXCEPT ![w] = payments[e.payment]]
  /\ UNCHANGED <<dbVars, razorpay, crashes, intent, seenOrder>>

\* SELECT the webhook event: a stored one is answered 200, "Already processed".
CheckEvent(w) ==
  /\ pc[w] = "hook_event"
  /\ \/ /\ Duplicate(w)
        /\ acked' = acked \cup {subject[w]}
        /\ Finish(w)
     \/ /\ ~Duplicate(w)
        /\ pc' = [pc EXCEPT ![w] = "hook_apply"]
        /\ UNCHANGED <<acked, subject, intent, seen, seenOrder>>
  /\ UNCHANGED <<dbVars, orderOf, told, raised, crashes>>

\* Mutation of StoreOnly: an event that moves nothing is answered and not stored.
StoreOnlyAnswer(w) ==
  /\ pc[w] = "hook_apply"
  /\ ~Applies(w)
  /\ acked' = acked \cup {subject[w]}
  /\ Finish(w)
  /\ UNCHANGED <<dbVars, orderOf, told, raised, crashes>>

\* An event that moves nothing is inserted and committed.
StoreOnly(w) ==
  /\ pc[w] = "hook_apply"
  /\ ~Applies(w)
  /\ EventFree(w) /\ ~Duplicate(w)
  /\ stored' = [stored EXCEPT ![subject[w]] = @ + 1]
  /\ acked' \in {acked, acked \cup {subject[w]}}
  /\ Finish(w)
  /\ UNCHANGED <<orders, payments, attempts, orderOf, told, raised, crashes>>

\* An event that moves the payment: the SELECT of the order first flushes the
\* payment's new status and the event, then reads the order.
FlushPayment(w) ==
  /\ pc[w] = "hook_apply"
  /\ Applies(w)
  /\ EventFree(w) /\ ~Duplicate(w)
  /\ PaymentFree(w)
  /\ pc'        = [pc EXCEPT ![w] = "hook_commit"]
  /\ seenOrder' = [seenOrder EXCEPT ![w] = orders[orderOf[subject[w].payment]]]
  /\ UNCHANGED <<dbVars, razorpay, crashes, subject, intent, seen>>

\* Another request stored the event since CheckEvent: the INSERT raises
\* IntegrityError, Razorpay gets a 500 and will deliver again.
InsertConflict(w) ==
  /\ pc[w] = "hook_apply"
  /\ EventFree(w) /\ Duplicate(w)
  /\ Finish(w)
  /\ UNCHANGED <<dbVars, razorpay, crashes>>

\* UPDATE the order, unless its status as read is the new one already, INSERT
\* the attempt, commit.
CommitWebhook(w) ==
  LET e == subject[w]
      o == orderOf[e.payment] IN
  /\ pc[w] = "hook_commit"
  /\ payments' = [payments EXCEPT ![e.payment] = PaymentOutcome(e)]
  /\ orders'   = [orders EXCEPT ![o] =
                    IF seenOrder[w] = OrderOutcome(e) THEN @ ELSE OrderOutcome(e)]
  /\ stored'   = [stored EXCEPT ![e] = @ + 1]
  /\ attempts' = [attempts EXCEPT ![e] = @ + 1]
  /\ acked' \in {acked, acked \cup {e}}
  /\ Finish(w)
  /\ UNCHANGED <<orderOf, told, raised, crashes>>

-----------------------------------------------------------------------------
\* The request fails (Razorpay unreachable, connection lost) or its process is
\* killed before the commit: the transaction is rolled back.
Crash(w) ==
  /\ pc[w] # "idle"
  /\ crashes < MaxCrashes
  /\ crashes' = crashes + 1
  /\ Finish(w)
  /\ UNCHANGED <<dbVars, razorpay>>

\* The steps a started request takes by itself.
PayStep(w)  == CheckExisting(w) \/ CreateProviderOrder(w) \/ CommitPayment(w)
               \/ AmountOverflow(w)
HookStep(w) == CheckEvent(w) \/ StoreOnly(w) \/ FlushPayment(w)
               \/ InsertConflict(w) \/ CommitWebhook(w)

Next ==
  \/ \E o \in Order : PlaceOrder(o)
  \/ \E w \in Worker, o \in Order, p \in Payment : ReadOrder(w, o, p)
  \/ \E e \in Event : Raise(e)
  \/ \E w \in Worker, e \in Event : IgnoreUnknown(w, e) \/ Receive(w, e)
  \/ \E w \in Worker : PayStep(w) \/ HookStep(w) \/ Crash(w)

Spec == Init /\ [][Next]_vars

-----------------------------------------------------------------------------
(* Fairness.  A started request that is not killed runs to its end.        *)
(* Razorpay delivers an event again and again until it is answered with a  *)
(* 2xx, and a worker is free infinitely often for such a delivery, not     *)
(* necessarily for ever: strong fairness.                                  *)

Deliver(e) == e \notin acked /\ \E w \in Worker : IgnoreUnknown(w, e) \/ Receive(w, e)

Fairness ==
  /\ \A w \in Worker : WF_vars(PayStep(w) \/ HookStep(w))
  /\ \A e \in Event : SF_vars(Deliver(e))

FairSpec == Spec /\ Fairness

\* A customer who was never given the payment of his order asks for it again and
\* again (the retry of a failed checkout call).
Retry(o) ==
  /\ \A p \in told : orderOf[p] # o
  /\ \E w \in Worker, p \in Payment : ReadOrder(w, o, p)

RetrySpec == FairSpec /\ \A o \in Order : SF_vars(Retry(o))

-----------------------------------------------------------------------------
(* Properties under any number of concurrent requests.                     *)

Rows(o)      == {p \in Payment : orderOf[p] = o /\ payments[p] # "NONE"}
Captures(p)  == {e \in Event : e.payment = p /\ e.type = "payment.captured"}
Failures(p)  == {e \in Event : e.payment = p /\ e.type = "payment.failed"}

\* Every variable keeps its type; a worker's subject, intent and reads are those
\* its place in the handler has.
WorkerOK(w) ==
  /\ pc[w] \in PC
  /\ pc[w] = "idle" => subject[w] = None /\ intent[w] = None
  /\ pc[w] \in {"pay_existing", "pay_provider", "pay_commit"} =>
       subject[w] \in Order /\ intent[w] \in Payment
  /\ pc[w] \in {"hook_event", "hook_apply", "hook_commit"} =>
       subject[w] \in Event /\ intent[w] = None

TypeOK ==
  /\ orders   \in [Order -> OrderStatus]
  /\ payments \in [Payment -> PaymentStatus]
  /\ orderOf  \in [Payment -> Order \cup {None}]
  /\ told     \subseteq Payment
  /\ raised   \subseteq Event
  /\ acked    \subseteq Event
  /\ stored   \in [Event -> Nat]
  /\ attempts \in [Event -> Nat]
  /\ crashes  \in Nat
  /\ pc \in [Worker -> PC]
  /\ subject \in [Worker -> Order \cup Event \cup {None}]
  /\ intent \in [Worker -> Payment \cup {None}]
  /\ seen \in [Worker -> PaymentStatus]
  /\ seenOrder \in [Worker -> OrderStatus]
  /\ \A w \in Worker : WorkerOK(w)

\* However often and however concurrently an event with an id is delivered, it is
\* stored once and applied at most once; no event is applied without being stored.
EventOnce ==
  \A e \in Event : /\ attempts[e] <= stored[e]
                   /\ e \notin Anonymous => stored[e] <= 1

\* A payment is PAID only after a captured event of it was applied, and FAILED
\* only after a failed one was: a status and its attempt commit together.
SettledByEvent ==
  \A p \in Payment :
    /\ payments[p] = "PAID"   => \E e \in Captures(p) : attempts[e] > 0
    /\ payments[p] = "FAILED" => \E e \in Failures(p) : attempts[e] > 0

\* An order is PAID (PAYMENT_FAILED) only if a captured (failed) event of one of
\* its own payments was applied.
OrderOutcomeEarned ==
  \A o \in Order :
    /\ orders[o] = "PAID" => \E p \in Rows(o) : \E e \in Captures(p) : attempts[e] > 0
    /\ orders[o] = "PAYMENT_FAILED" =>
         \E p \in Rows(o) : \E e \in Failures(p) : attempts[e] > 0

\* An order has payment rows exactly when it has left CREATED: row and order
\* status commit together, whatever fails between the call of Razorpay and them.
PaymentRowsMoveOrder ==
  \A o \in Order : Rows(o) # {} <=> orders[o] \notin {"NONE", "CREATED"}

\* Razorpay is told 2xx, and stops delivering, only for events that are stored or
\* that concern no payment of this API: no event of a payment is lost, in
\* particular none overtakes the commit of its payment.
AckedIsStored ==
  \A e \in acked : e.payment \in Foreign \/ stored[e] > 0

\* A captured event of a payment of this API with the right amount is stored in
\* the end, whatever crashes and duplicates happen on the way.
CapturedIsStored ==
  \A e \in Event :
    (e \in raised /\ e.type = "payment.captured" /\ e.payment \in Payment
      /\ e \notin Mismatched) ~> stored[e] > 0

-----------------------------------------------------------------------------
(* Properties that the handlers keep only while requests do not overlap.   *)

\* An order never has two payments a customer can pay.
OnePaymentPerOrder ==
  \A o \in Order : \A p, q \in Rows(o) : p = q

\* A payment that is PAID or FAILED stays so: only CREATED, PENDING, AUTHORIZED
\* lead to PAID or FAILED.
SettledIsFinal ==
  [][\A p \in Payment : payments[p] \in {"PAID", "FAILED"} => payments'[p] = payments[p]]_vars

\* The order tells what its payment tells.
OrderAgreesWithPayment ==
  \A o \in Order : \A p \in Rows(o) :
    /\ orders[o] = "PAID" <=> payments[p] = "PAID"
    /\ orders[o] = "PAYMENT_FAILED" <=> payments[p] = "FAILED"

\* A customer whose order got a payment is in the end given that payment, by a
\* first or a repeated POST /payments ("an active payment already exists").
PaymentReachesCustomer ==
  \A o \in Order : orders[o] = "PENDING_PAYMENT" ~> \E p \in told : orderOf[p] = o

\* The status of the one payment of each order, as OrderLifecycle sees it.
PaymentOf == [o \in Order |->
  IF Rows(o) = {} THEN "NONE" ELSE payments[CHOOSE p \in Rows(o) : TRUE]]

Lifecycle == INSTANCE OrderLifecycle WITH payment <- PaymentOf

\* Each order is placed, billed once and settled once, together with its payment.
ImplementsLifecycle == Lifecycle!Spec
=============================================================================
