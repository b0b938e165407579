---------------------------- MODULE CheckoutPage ----------------------------
(***************************************************************************)
(* Buying, as the storefront apps/web2 drives it: the five steps of        *)
(* CheckoutPage.tsx, its three calls, and the order pages they lead to.    *)
(*                                                                         *)
(* A call is sent, then carried out or refused by the backend, then        *)
(* answered; the answer may be lost after the work was done.  The shopper  *)
(* may go back, leave the page and open it again at any moment: only the   *)
(* Continue button waits for the calls, and only for those of the page as  *)
(* it is now.  The callbacks belong to the calls and outlive the page, but *)
(* what they set in a page that is gone is lost.                           *)
(*                                                                         *)
(* The backend is the one of module Checkout with its requests one at a    *)
(* time: a quote wants the active cart, with something in it; confirming a *)
(* quote makes the order, which has the quote's number here, and converts  *)
(* the cart.  The cart is filled by another client of the shopper.         *)
(*                                                                         *)
(* Nothing here is paid: the last call has the backend create a payment,   *)
(* at Razorpay and in its table, and no page of web2 opens the window in   *)
(* which the shopper would pay it.  "Payment received" (CheckoutPage.tsx,  *)
(* line 180) is shown for a payment that was created.                      *)
(***************************************************************************)
EXTENDS Naturals, FiniteSets

CONSTANTS
    MaxCarts,       \* bound: the carts of the shopper, one after the other
    MaxQuotes,      \* bound: the quotes made
    MaxCalls        \* bound: the calls under way, those of left pages with them

ASSUME FlowAssumption == MaxCarts \in Nat \ {0} /\ MaxQuotes \in Nat /\ MaxCalls \in Nat

VARIABLES
    page,           \* "checkout", "order" (the page of one order) or "elsewhere"
    wiz,            \* the state of the checkout page, or the order whose page is shown
    calls,          \* its calls under way
    redirect,       \* the order the timer of the last step leads to, or 0
    backend         \* carts, quotes, orders and the payments created

flowVars == <<page, wiz, calls, redirect, backend>>

Cart     == 1 .. MaxCarts
Quote    == 1 .. MaxQuotes
Callable == {"quote", "confirm", "payment"}

\* knows: the page had the order's number when the payment's callback was
\* last set, that is, when the page was last drawn.
Calls == [kind : Callable, of : Cart \cup Quote, state : {"sent", "refused", "done"},
          result : {0} \cup Quote, own : BOOLEAN, knows : BOOLEAN]

Call(kind, of, own) ==
    [kind |-> kind, of |-> of, state |-> "sent", result |-> 0, own |-> own, knows |-> FALSE]

\* Customer, shipping, review, payment, and the payment received.
Steps == 1 .. 5

FreshWizard ==
    [step |-> 1, customer |-> FALSE, shipping |-> FALSE, error |-> FALSE,
     cart |-> 0, quote |-> 0, order |-> 0]

FlowInit ==
    /\ page = "elsewhere"
    /\ wiz = FreshWizard
    /\ calls = {}
    /\ redirect = 0
    /\ backend = [cart |-> 1, filled |-> FALSE, quotes |-> 0,
                  cartOf |-> [q \in Quote |-> 0],
                  orders |-> {}, asked |-> [q \in Quote |-> 0], created |-> {}]

-----------------------------------------------------------------------------
(* Pages. *)

\* Leaving the page: its calls go on without it.
Disown == {[c EXCEPT !.own = FALSE] : c \in calls}

Open(p) ==
    /\ page # p
    /\ page' = p
    /\ wiz' = FreshWizard
    /\ calls' = Disown
    /\ UNCHANGED <<redirect, backend>>

\* The list of orders, each with the way to its page.
OrdersListed == backend.orders

\* The page of an order, from the list.
OrderOpened(o) ==
    /\ page' = "order"
    /\ wiz' = [FreshWizard EXCEPT !.order = o]
    /\ calls' = Disown
    /\ UNCHANGED backend

OpenOrder ==
    /\ page = "elsewhere"
    /\ \E o \in OrdersListed : OrderOpened(o)
    /\ UNCHANGED redirect

\* Two seconds after the last step, wherever the shopper is by then.
Redirect ==
    /\ redirect # 0
    /\ redirect' = 0
    /\ OrderOpened(redirect)

\* What the page of an order has to show: the order, or that there is none.
OrderFound == wiz.order \in backend.orders

-----------------------------------------------------------------------------
(* The checkout page. *)

\* The cart query: when the page appears, and again when the window is focused.
CartAnswer ==
    /\ page = "checkout"
    /\ wiz' = [wiz EXCEPT !.cart = backend.cart]
    /\ UNCHANGED <<page, calls, redirect, backend>>

\* The fields are shown on the steps they belong to, and may be emptied again.
TypeCustomer ==
    /\ page = "checkout" /\ wiz.step = 1
    /\ wiz' = [wiz EXCEPT !.customer = ~@]
    /\ UNCHANGED <<page, calls, redirect, backend>>

TypeShipping ==
    /\ page = "checkout" /\ wiz.step = 2
    /\ wiz' = [wiz EXCEPT !.shipping = ~@]
    /\ UNCHANGED <<page, calls, redirect, backend>>

\* Back waits for nothing: a call may be under way.
Back ==
    /\ page = "checkout" /\ wiz.step \in 2 .. 4
    /\ wiz' = [wiz EXCEPT !.step = @ - 1]
    /\ UNCHANGED <<page, calls, redirect, backend>>

Idle == \A c \in calls : ~c.own

Send(call) == calls' = calls \cup {call}

\* Continue: the details must be there to move on, the review asks for a
\* quote (not without a cart), the payment step confirms the quote.
Continue ==
    /\ page = "checkout" /\ wiz.step < 5
    /\ Idle
    /\ Cardinality(calls) < MaxCalls
    /\ \/ /\ wiz.step \in {1, 2}
          /\ wiz' = IF (wiz.step = 1 /\ wiz.customer) \/ (wiz.step = 2 /\ wiz.shipping)
                    THEN [wiz EXCEPT !.error = FALSE, !.step = @ + 1]
                    ELSE [wiz EXCEPT !.error = TRUE]
          /\ UNCHANGED calls
       \/ /\ wiz.step = 3
          /\ wiz' = [wiz EXCEPT !.error = wiz.cart = 0]
          /\ IF wiz.cart = 0 THEN UNCHANGED calls ELSE Send(Call("quote", wiz.cart, TRUE))
       \/ /\ wiz.step = 4
          /\ wiz' = [wiz EXCEPT !.error = FALSE]
          /\ Send(Call("confirm", wiz.quote, TRUE))
    /\ UNCHANGED <<page, redirect, backend>>

-----------------------------------------------------------------------------
(* The backend. *)

Fill ==
    /\ ~backend.filled
    /\ backend' = [backend EXCEPT !.filled = TRUE]
    /\ UNCHANGED <<page, wiz, calls, redirect>>

\* What the backend does with a call, and the number it answers with.
Carried(c) ==
    \/ /\ c.kind = "quote"
       /\ c.of = backend.cart /\ backend.filled
       /\ backend.quotes < MaxQuotes
       /\ backend' = [backend EXCEPT !.quotes = @ + 1, !.cartOf[backend.quotes + 1] = c.of]
       /\ calls' = (calls \ {c}) \cup {[c EXCEPT !.state = "done", !.result = backend.quotes + 1]}
    \/ /\ c.kind = "confirm"
       /\ backend.cartOf[c.of] = backend.cart /\ backend.filled
       /\ backend.cart < MaxCarts
       /\ backend' = [backend EXCEPT !.orders = @ \cup {c.of}, !.cart = @ + 1, !.filled = FALSE]
       /\ calls' = (calls \ {c}) \cup {[c EXCEPT !.state = "done", !.result = c.of]}
    \/ /\ c.kind = "payment"
       /\ c.of \in backend.orders
       /\ backend' = [backend EXCEPT !.created = @ \cup {c.of}]
       /\ calls' = (calls \ {c}) \cup {[c EXCEPT !.state = "done", !.result = c.of]}

Serve(c) ==
    /\ c.state = "sent"
    /\ \/ Carried(c)
       \/ /\ calls' = (calls \ {c}) \cup {[c EXCEPT !.state = "refused"]}
          /\ UNCHANGED backend
    /\ UNCHANGED <<page, wiz, redirect>>

-----------------------------------------------------------------------------
(* The callbacks. *)

\* What a callback sets in the page it was made for.
Show(c, w) == wiz' = IF c.own THEN w ELSE wiz

\* Mutants: a payment that failed is asked for again; the last step is shown
\* however the payment ends.
FailedThenRetried(c) ==
    /\ c.state \in {"done", "refused"}
    /\ IF c.kind = "payment"
       THEN /\ calls' = (calls \ {c}) \cup {[c EXCEPT !.state = "sent"]}
            /\ backend' = [backend EXCEPT !.asked[c.of] = @ + 1]
            /\ UNCHANGED wiz
       ELSE /\ calls' = calls \ {c}
            /\ Show(c, [wiz EXCEPT !.error = TRUE])
            /\ UNCHANGED backend
    /\ UNCHANGED <<page, redirect>>

FailedAtLast(c) ==
    /\ c.state \in {"done", "refused"}
    /\ calls' = calls \ {c}
    /\ Show(c, [wiz EXCEPT !.error = TRUE, !.step = IF c.kind = "payment" THEN 5 ELSE @])
    /\ UNCHANGED <<page, redirect, backend>>

\* The call failed, or its answer was lost.
Failed(c) ==
    /\ c.state \in {"done", "refused"}
    /\ calls' = calls \ {c}
    /\ Show(c, [wiz EXCEPT !.error = TRUE])
    /\ UNCHANGED <<page, redirect, backend>>

Quoted(c) ==
    /\ c.kind = "quote" /\ c.state = "done"
    /\ calls' = calls \ {c}
    /\ Show(c, [wiz EXCEPT !.quote = c.result, !.step = 4, !.error = FALSE])
    /\ UNCHANGED <<page, redirect, backend>>

\* The order is paid for at once, by a call that is the page's if the
\* confirmation was.  The page is drawn again before that call is answered,
\* if it is still there, and then its callback knows the order.
Confirmed(c) ==
    /\ c.kind = "confirm" /\ c.state = "done"
    /\ calls' = (calls \ {c}) \cup {[Call("payment", c.result, c.own) EXCEPT !.knows = c.own]}
    /\ backend' = [backend EXCEPT !.asked[c.result] = @ + 1]
    /\ Show(c, [wiz EXCEPT !.order = c.result])
    /\ UNCHANGED <<page, redirect>>

Paid(c) ==
    /\ c.kind = "payment" /\ c.state = "done"
    /\ calls' = calls \ {c}
    /\ redirect' = IF c.knows THEN c.of ELSE redirect
    /\ Show(c, [wiz EXCEPT !.step = 5])
    /\ UNCHANGED <<page, backend>>

Lost(c) == c.state = "done" /\ Failed(c)
Refused(c) == c.state = "refused" /\ Failed(c)

-----------------------------------------------------------------------------
FlowNext ==
    \/ \E p \in {"checkout", "elsewhere"} : Open(p)
    \/ OpenOrder \/ Redirect \/ CartAnswer \/ TypeCustomer \/ TypeShipping \/ Back \/ Continue \/ Fill
    \/ \E c \in calls :
          Serve(c) \/ Quoted(c) \/ Confirmed(c) \/ Paid(c) \/ Lost(c) \/ Refused(c)

-----------------------------------------------------------------------------
(* Properties. *)

FlowTypeOK ==
    /\ page \in {"checkout", "order", "elsewhere"}
    /\ wiz \in [step : Steps, customer : BOOLEAN, shipping : BOOLEAN, error : BOOLEAN,
                cart : {0} \cup Cart, quote : {0} \cup Quote, order : {0} \cup Quote]
    /\ calls \subseteq Calls
    /\ redirect \in {0} \cup Quote

\* No order is asked to be paid twice, however often the shopper presses the
\* button, goes back, or leaves and returns, and whatever answers are lost:
\* the page asks only on a confirmation, and the backend confirms once.
PaidForOnce == \A o \in Quote : backend.asked[o] <= 1

\* "Payment received", and the way to the order two seconds later, are for an
\* order the backend has created a payment for, and whatever answers were lost no
\* link leads to an order that is not found.  That anything was received does not
\* follow, and is not true (see above): the payment is in its first state,
\* CREATED, and this page asks nothing further of it.
ReceivedMeansCreated ==
    /\ wiz.step = 5 => wiz.order \in backend.created
    /\ redirect # 0 => redirect \in backend.created
    /\ page = "order" => OrderFound
=============================================================================
