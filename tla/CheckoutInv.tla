----------------------------- MODULE CheckoutInv -----------------------------
(***************************************************************************)
(* The inductive invariants behind the properties of module Checkout: IInv *)
(* for any number of concurrent requests, SerialInv for requests that do   *)
(* not overlap.                                                            *)
(***************************************************************************)
EXTENDS Checkout

Adding(w)     == pc[w] \in {"add_cart", "add_commit"}
Updating(w)   == pc[w] = "update_commit"
Quoting(w)    == pc[w] \in {"quote_validate", "quote_commit"}
Confirming(w) == pc[w] \in {"confirm_cart", "confirm_validate", "confirm_commit"}
Working(w)    == pc[w] \notin {"idle", "add_cart", "open_commit", "confirm_cart"}

\* A request has what its place in the handler requires.
LocalsOK ==
  \A w \in Worker :
    /\ Adding(w)     => asked[w] \in AddTokens
    /\ Updating(w)   => asked[w] \in UpdateTokens
    /\ Updating(w)   => \A x \in view[w] : x.id = asked[w].target
    /\ Working(w)    => mine[w] \in Cart
    /\ Quoting(w)    => asked[w] \in Quote
    /\ Confirming(w) => asked[w] \in Quote
    /\ pc[w] = "add_commit" => \A x \in view[w] :
         x.product = asked[w].target /\ x.quantity + asked[w].quantity <= MaxStock

\* A cart that a request has inserted and not committed is its own, and the cart
\* it works on is that or a committed one.
CartsOwned ==
  /\ \A w \in Worker : \A c \in made[w] :
       carts[c] = "NONE" /\ \A v \in Worker : v # w => c \notin made[v]
  /\ \A w \in Worker : Working(w) => carts[mine[w]] # "NONE" \/ mine[w] \in made[w]

\* A quote in the making is one request's own; one that is being confirmed exists,
\* and the cart that goes with it is its cart.
QuotesOwned ==
  /\ \A w \in Worker : Quoting(w) => quotes[asked[w]] = NoQuote
  /\ \A v, w \in Worker : v # w /\ Quoting(v) /\ Quoting(w) => asked[v] # asked[w]
  /\ \A w \in Worker : Confirming(w) => quotes[asked[w]].status # "NONE"
  /\ \A w \in Worker : pc[w] \in {"confirm_validate", "confirm_commit"} =>
       mine[w] = quotes[asked[w]].cart

\* An identifier stands for one row and one product, wherever it is held.
IdsUnique ==
  /\ \A x, y \in items : x.id = y.id => x = y
  /\ \A w \in Worker : \A x \in view[w] : \A y \in items : x.id = y.id => x.product = y.product

\* The price of a token, and of a row that a request has read, was shown.
Honest(t) ==
  /\ t \in AddTokens => <<t.target, t.price>> \in shown
  /\ t \in UpdateTokens => \A y \in items : y.id = t.target => <<y.product, t.price>> \in shown

TokensShown ==
  /\ \A t \in tokens : Honest(t)
  /\ \A w \in Worker : Adding(w) \/ Updating(w) => Honest(asked[w])
  /\ \A w \in Worker : \A x \in view[w] : <<x.product, x.price>> \in shown

IInv ==
  /\ TypeOK
  /\ LocalsOK
  /\ CartsOwned
  /\ QuotesOwned
  /\ IdsUnique
  /\ TokensShown
  /\ ConvertedByOrder
  /\ OrderIsItsQuote
  /\ PricesWereShown

\* What has a worth: finitely many rows, and some, wherever a quote is made.
FiniteRows == IsFiniteSet(items) /\ \A w \in Worker : IsFiniteSet(view[w])
SomeQuoted == \A w \in Worker : Quoting(w) => view[w] # {}

WorthInv ==
  /\ IInv
  /\ FiniteRows
  /\ SomeQuoted
  /\ NothingForNothing

\* Requests never overlap.
OneAtATime == \A v, w \in Worker : v = w

\* A request sees one cart at most, its own or an ACTIVE one.
OneCartInSight == \A w \in Worker : \A c, d \in Active \cup made[w] : c = d

\* A quote is of a cart that has a row.
QuotedCarts == \A q \in Quote : quotes[q].status # "NONE" =>
                 \E c \in Cart : c = quotes[q].cart /\ carts[c] # "NONE"

Removing(w) == pc[w] \in {"remove_commit", "clear_commit"}
Checking(w) == Quoting(w) \/ pc[w] \in {"confirm_validate", "confirm_commit"}

\* What a request has read still holds when it writes.
Fresh ==
  \A w \in Worker :
    /\ pc[w] \in {"idle", "add_cart", "confirm_cart"} => made[w] = {}
    /\ pc[w] = "add_commit" =>
         /\ mine[w] \in Active \cup made[w]
         /\ view[w] = {x \in ItemsOf(mine[w]) : x.product = asked[w].target}
    /\ Updating(w) \/ Removing(w) => mine[w] \in Active /\ view[w] \subseteq ItemsOf(mine[w])
    /\ Checking(w) => mine[w] \in Active /\ view[w] = ItemsOf(mine[w])
    /\ Confirming(w) => quotes[asked[w]].status = "ACTIVE"

SerialInv ==
  /\ IInv
  /\ OneCartInSight
  /\ QuotedCarts
  /\ Fresh
  /\ OneActiveCart
  /\ OneRowPerProduct
  /\ OneOrderPerQuote
=============================================================================
