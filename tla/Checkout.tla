------------------------------ MODULE Checkout ------------------------------
(***************************************************************************)
(* The cart and the checkout of one customer: CartService, CheckoutService *)
(* and their routes.  All their rows belong to one user, and stock is      *)
(* looked at and never reserved, so customers meet only in the catalog.    *)
(*                                                                         *)
(* As in Payments a request is split at its database statements, keeps     *)
(* what it read in its worker's locals and publishes its writes at its     *)
(* commit.  SQLAlchemy's session matters three times: a query of the cart  *)
(* loads its rows, their products and the stock of those (one step here);  *)
(* an object loaded once keeps its values for the rest of the request, as  *)
(* a later SELECT decides which rows match and does not refresh them; and  *)
(* an UPDATE sets only the columns the request has changed.                *)
(*                                                                         *)
(* A product stands for a product or one of its variants; stock 0 also for *)
(* an inactive one.  Amounts are subtotals: tax is a fixed share and there *)
(* are no discounts.                                                       *)
(***************************************************************************)
EXTENDS Naturals, FiniteSets, FiniteSetsExt

CONSTANTS
  Product,     \* products the merchant sells
  Price,       \* prices the merchant may ask
  MaxStock,    \* bound on the stock of a product
  Cart,        \* rows of carts the customer may get: a bound
  Item,        \* rows of cart_items that may exist: a bound
  Quote,       \* checkout quotes: a bound
  Order,       \* orders: a bound
  Worker,      \* request slots
  MaxTokens,   \* bound on the confirmation tokens valid at once
  None         \* no row

CartStatus  == {"NONE", "ACTIVE", "CONVERTED"}
QuoteStatus == {"NONE", "ACTIVE", "CONFIRMED"}
Quantity    == 1 .. MaxStock
Loaded      == [product : Product, price : Price, stock : 0 .. MaxStock]

\* Rows of cart_items, and what they cost.
Rows     == [id : Item, cart : Cart, product : Product, quantity : Quantity, price : Price]
Worth(S) == MapThenSumSet(LAMBDA x : x.price * x.quantity, S)

\* What quotes may amount to, and orders.
Amounts   == {0} \cup {Worth(S) : S \in SUBSET Rows}
OrderRows == [quote : Quote, cart : Cart, subtotal : Amounts, lines : SUBSET Rows]

\* Confirmation tokens, by what they allow.
AddTokens    == [action : {"add_item"}, target : Product, quantity : Quantity, price : Price]
UpdateTokens == [action : {"update_item"}, target : Item, quantity : Quantity, price : Price]
Tokens       == AddTokens \cup UpdateTokens \cup [action : {"remove_item"}, target : Item]
                \cup [action : {"clear_cart"}, target : Cart]

ASSUME CheckoutAssumption ==
  /\ Price \subseteq Nat \ {0}
  /\ MaxStock \in Nat
  /\ MaxTokens \in Nat
  /\ None \notin Cart \cup OrderRows

VARIABLES
  price,     \* the current price of each product
  stock,     \* its effective stock: available less reserved
  carts,     \* carts.status, "NONE" before the row exists
  items,     \* the rows of cart_items
  tokens,    \* the confirmation tokens the customer holds, not yet expired
  shown,     \* the product prices that tokens have shown the customer so far
  quotes,    \* checkout_quotes: cart, subtotal and status
  lapsed,    \* quotes past their expires_at
  orders,    \* orders: quote, cart, subtotal and lines (None: no such order)
  pc,        \* where each worker's request is
  asked,     \* its token or its quote
  mine,      \* the cart it works on
  made,      \* carts it has inserted and not committed
  view,      \* the rows of cart_items it works on, as it read them
  known      \* the products it has loaded, with price and stock at that moment, as
             \* long as a later step looks at them

catalog == <<price, stock>>
rows    == <<carts, items, quotes, orders>>
wallet  == <<tokens, shown>>
locals  == <<pc, asked, mine, made, view, known>>
vars    == <<catalog, rows, wallet, lapsed, locals>>

PC == {"idle", "add_cart", "add_commit", "update_commit", "remove_commit", "clear_commit",
       "open_commit", "quote_validate", "quote_commit", "confirm_cart", "confirm_validate",
       "confirm_commit"}

NoQuote == [cart |-> None, subtotal |-> 0, status |-> "NONE"]

Init ==
  /\ price \in [Product -> Price]
  /\ stock \in [Product -> 0 .. MaxStock]
  /\ carts  = [c \in Cart |-> "NONE"]
  /\ items  = {}
  /\ tokens = {}
  /\ shown  = {}
  /\ quotes = [q \in Quote |-> NoQuote]
  /\ lapsed = {}
  /\ orders = [o \in Order |-> None]
  /\ pc     = [w \in Worker |-> "idle"]
  /\ asked  = [w \in Worker |-> None]
  /\ mine   = [w \in Worker |-> None]
  /\ made   = [w \in Worker |-> {}]
  /\ view   = [w \in Worker |-> {}]
  /\ known  = [w \in Worker |-> {}]

-----------------------------------------------------------------------------
(* Helpers.                                                                *)

\* The request of w ends; what it has not committed is gone.
Finish(w) ==
  /\ pc'    = [pc EXCEPT ![w] = "idle"]
  /\ asked' = [asked EXCEPT ![w] = None]
  /\ mine'  = [mine EXCEPT ![w] = None]
  /\ made'  = [made EXCEPT ![w] = {}]
  /\ view'  = [view EXCEPT ![w] = {}]
  /\ known' = [known EXCEPT ![w] = {}]

Active      == {c \in Cart : carts[c] = "ACTIVE"}
ItemsOf(c)  == {x \in items : x.cart = c}
Placed      == {o \in Order : orders[o] # None}

\* Identifiers that nothing holds: a new row may get them.
NewItem(i) ==
  /\ \A x \in items : x.id # i
  /\ \A t \in tokens : t.target # i
  /\ \A v \in Worker : \A x \in view[v] : x.id # i
  /\ \A v \in Worker : asked[v] \in Tokens => asked[v].target # i
  /\ \A o \in Placed : \A x \in orders[o].lines : x.id # i
NewCart(c)  == carts[c] = "NONE" /\ \A v \in Worker : c \notin made[v]
NewQuote(q) == quotes[q] = NoQuote /\ \A v \in Worker : asked[v] # q

\* Mutation of GetOrCreate: the ACTIVE cart is not looked for.
AlwaysCreate(w, c) ==
  NewCart(c) /\ made' = [made EXCEPT ![w] = @ \cup {c}]

\* get_or_create_cart, in the transaction of w, returns c.  With two ACTIVE carts
\* it raises MultipleResultsFound.
GetOrCreate(w, c) ==
  LET visible == Active \cup made[w] IN
  \/ visible = {c} /\ made' = made
  \/ visible = {} /\ NewCart(c) /\ made' = [made EXCEPT ![w] = {c}]

\* w's commit publishes the cart it may have inserted.
Published(w) == [c \in Cart |-> IF c \in made[w] THEN "ACTIVE" ELSE carts[c]]

\* The products of the rows S as the database has them now, and as a request has
\* them that loaded those in K before.
Load(S)     == {[product |-> x.product, price |-> price[x.product],
                 stock |-> stock[x.product]] : x \in S}
LoadMore(K, S) == K \cup Load({x \in S : \A k \in K : k.product # x.product})

\* A row has the price of its product and no more than its stock, as loaded in K.
Sellable(x, K) ==
  \E k \in K : k.product = x.product /\ k.price = x.price /\ k.stock >= x.quantity

-----------------------------------------------------------------------------
(* The merchant, time, and the requests that only ask for a confirmation.  *)

SetPrice(p, v) ==
  /\ price' = [price EXCEPT ![p] = v]
  /\ UNCHANGED <<stock, rows, wallet, lapsed, locals>>

SetStock(p, n) ==
  /\ stock' = [stock EXCEPT ![p] = n]
  /\ UNCHANGED <<price, rows, wallet, lapsed, locals>>

\* The customer gets a token for a change of the cart (402), which shows him a price.
Issue(t, seen) ==
  /\ Cardinality(tokens) < MaxTokens
  /\ tokens' = tokens \cup {t}
  /\ shown'  = shown \cup seen
  /\ UNCHANGED <<catalog, rows, lapsed, locals>>

RequestAdd(p, n) ==
  /\ stock[p] >= n
  /\ Issue([action |-> "add_item", target |-> p, quantity |-> n, price |-> price[p]],
           {<<p, price[p]>>})

RequestUpdate(x, n) ==
  /\ Active = {x.cart}
  /\ stock[x.product] >= n
  /\ Issue([action |-> "update_item", target |-> x.id, quantity |-> n,
            price |-> price[x.product]],
           {<<x.product, price[x.product]>>})

RequestRemove(x) ==
  Active = {x.cart} /\ Issue([action |-> "remove_item", target |-> x.id], {})

RequestClear(c) ==
  Active = {c} /\ Issue([action |-> "clear_cart", target |-> c], {})

\* A token expires, 15 minutes after it was issued.
ExpireToken(t) ==
  /\ tokens' = tokens \ {t}
  /\ UNCHANGED <<catalog, rows, shown, lapsed, locals>>

\* A quote expires, 15 minutes after it was made.
Lapse(q) ==
  /\ quotes[q].status = "ACTIVE"
  /\ lapsed' = lapsed \cup {q}
  /\ UNCHANGED <<catalog, rows, wallet, locals>>

-----------------------------------------------------------------------------
(* CartService.add_item.                                                   *)

\* Mutation of BeginAdd: the price of the token is not compared.
BeginAddAtAnyPrice(w, t) ==
  /\ pc[w] = "idle"
  /\ t.action = "add_item"
  /\ stock[t.target] >= t.quantity
  /\ pc'    = [pc EXCEPT ![w] = "add_cart"]
  /\ asked' = [asked EXCEPT ![w] = [t EXCEPT !.price = price[t.target]]]
  /\ known' = [known EXCEPT ![w] = Load({[product |-> t.target]})]
  /\ UNCHANGED <<catalog, rows, wallet, lapsed, mine, made, view>>

\* SELECT price and stock; the stock suffices and the price is the token's.
BeginAdd(w, t) ==
  /\ pc[w] = "idle"
  /\ t.action = "add_item"
  /\ stock[t.target] >= t.quantity
  /\ price[t.target] = t.price
  /\ pc'    = [pc EXCEPT ![w] = "add_cart"]
  /\ asked' = [asked EXCEPT ![w] = t]
  /\ known' = [known EXCEPT ![w] = Load({[product |-> t.target]})]
  /\ UNCHANGED <<catalog, rows, wallet, lapsed, mine, made, view>>

\* The row to take the quantity too: the stock loaded before suffices for both.
Merged(w, c) ==
  LET same == {x \in ItemsOf(c) : x.product = asked[w].target} IN
  \/ same = {} /\ view' = [view EXCEPT ![w] = {}]
  \/ \E x \in same :
       /\ \E k \in known[w] : k.stock >= x.quantity + asked[w].quantity
       /\ view' = [view EXCEPT ![w] = {x}]

\* Mutation of AddCart: a second row although the cart has one of the product.
AddCartAlwaysInsert(w, c) ==
  /\ pc[w] = "add_cart"
  /\ GetOrCreate(w, c)
  /\ view' = [view EXCEPT ![w] = {}]
  /\ mine'  = [mine EXCEPT ![w] = c]
  /\ known' = [known EXCEPT ![w] = {}]
  /\ pc'    = [pc EXCEPT ![w] = "add_commit"]
  /\ UNCHANGED <<catalog, rows, wallet, lapsed, asked>>

\* Mutation of AddCart: the stock is not compared with the sum of the quantities.
AddCartBeyondStock(w, c) ==
  /\ pc[w] = "add_cart"
  /\ GetOrCreate(w, c)
  /\ view' = [view EXCEPT ![w] = {x \in ItemsOf(c) : x.product = asked[w].target}]
  /\ mine'  = [mine EXCEPT ![w] = c]
  /\ known' = [known EXCEPT ![w] = {}]
  /\ pc'    = [pc EXCEPT ![w] = "add_commit"]
  /\ UNCHANGED <<catalog, rows, wallet, lapsed, asked>>

\* SELECT the cart and its rows; the first row of the product, if any, is to take
\* the quantity too.
AddCart(w, c) ==
  /\ pc[w] = "add_cart"
  /\ GetOrCreate(w, c)
  /\ Merged(w, c)
  /\ mine'  = [mine EXCEPT ![w] = c]
  /\ known' = [known EXCEPT ![w] = {}]
  /\ pc'    = [pc EXCEPT ![w] = "add_commit"]
  /\ UNCHANGED <<catalog, rows, wallet, lapsed, asked>>

\* The row y, read as x, after an UPDATE to quantity n and price v: a column that
\* already had its value when it was read is left alone.
Updated(y, x, n, v) ==
  [y EXCEPT !.quantity = IF x.quantity = n THEN @ ELSE n,
            !.price    = IF x.price = v THEN @ ELSE v]

\* UPDATE the row (it must still exist) or INSERT one, commit.
CommitAdd(w) ==
  LET t == asked[w] IN
  /\ pc[w] = "add_commit"
  /\ \/ \E x \in view[w], y \in items :
          /\ y.id = x.id
          /\ items' = (items \ {y}) \cup {Updated(y, x, x.quantity + t.quantity, t.price)}
     \/ \E i \in Item :
          /\ view[w] = {} /\ NewItem(i)
          /\ items' = items \cup {[id |-> i, cart |-> mine[w], product |-> t.target,
                                   quantity |-> t.quantity, price |-> t.price]}
  /\ carts' = Published(w)
  /\ Finish(w)
  /\ UNCHANGED <<catalog, quotes, orders, wallet, lapsed>>

-----------------------------------------------------------------------------
(* CartService.update_item, remove_item and clear_cart.                    *)

\* w starts to work on the rows S of the ACTIVE cart.
Take(w, t, S, next) ==
  /\ pc[w] = "idle"
  /\ \E c \in Cart : Active = {c} /\ mine' = [mine EXCEPT ![w] = c]
  /\ asked' = [asked EXCEPT ![w] = t]
  /\ view'  = [view EXCEPT ![w] = S]
  /\ pc'    = [pc EXCEPT ![w] = next]
  /\ UNCHANGED <<catalog, rows, wallet, lapsed, made>>

\* SELECT the cart with its products; it has the row, the stock suffices and the
\* price is the token's.
BeginUpdate(w, t) ==
  /\ t.action = "update_item"
  /\ \E x \in items :
       /\ x.id = t.target /\ Active = {x.cart}
       /\ stock[x.product] >= t.quantity
       /\ price[x.product] = t.price
       /\ Take(w, t, {x}, "update_commit") /\ UNCHANGED known

\* UPDATE the row (it must still exist), commit.
CommitUpdate(w) ==
  /\ pc[w] = "update_commit"
  /\ \E x \in view[w], y \in items :
       /\ y.id = x.id
       /\ items' = (items \ {y}) \cup {Updated(y, x, asked[w].quantity, asked[w].price)}
  /\ Finish(w)
  /\ UNCHANGED <<catalog, carts, quotes, orders, wallet, lapsed>>

\* SELECT the cart; it has the row.
BeginRemove(w, t) ==
  /\ t.action = "remove_item"
  /\ \E x \in items : /\ x.id = t.target /\ Active = {x.cart}
                      /\ Take(w, t, {x}, "remove_commit") /\ UNCHANGED known

\* SELECT the cart; it is the token's.
BeginClear(w, t) ==
  /\ t.action = "clear_cart"
  /\ Active = {t.target}
  /\ Take(w, t, ItemsOf(t.target), "clear_commit") /\ UNCHANGED known

\* DELETE the rows that were read, as far as they still exist, commit.
CommitDelete(w) ==
  /\ pc[w] \in {"remove_commit", "clear_commit"}
  /\ items' = {y \in items : \A x \in view[w] : x.id # y.id}
  /\ Finish(w)
  /\ UNCHANGED <<catalog, carts, quotes, orders, wallet, lapsed>>

\* The agent's cart.view and cart.validate: as GET /cart and GET /cart/validate,
\* but the turn ends with a commit, so a cart inserted on the way stays.
BeginOpen(w, c) ==
  /\ pc[w] = "idle"
  /\ GetOrCreate(w, c)
  /\ pc' = [pc EXCEPT ![w] = "open_commit"]
  /\ UNCHANGED <<catalog, rows, wallet, lapsed, asked, mine, view, known>>

CommitOpen(w) ==
  /\ pc[w] = "open_commit"
  /\ carts' = Published(w)
  /\ Finish(w)
  /\ UNCHANGED <<catalog, items, quotes, orders, wallet, lapsed>>

-----------------------------------------------------------------------------
(* CheckoutService.create_quote and confirm_quote.                         *)

\* Mutation of BeginQuote: an empty cart is quoted.
BeginQuoteOfEmptyCart(w, c, q) ==
  /\ NewQuote(q)
  /\ Active = {c}
  /\ Take(w, q, ItemsOf(c), "quote_validate")
  /\ known' = [known EXCEPT ![w] = Load(ItemsOf(c))]

\* SELECT the cart; it is the one the client names and it is not empty.
BeginQuote(w, c, q) ==
  /\ NewQuote(q)
  /\ Active = {c} /\ ItemsOf(c) # {}
  /\ Take(w, q, ItemsOf(c), "quote_validate")
  /\ known' = [known EXCEPT ![w] = Load(ItemsOf(c))]

\* validate_cart: get_or_create_cart again, and every row of the cart it returns is
\* sellable.  Usually that is the cart already read, with rows and products as they
\* were; if another request has converted that one, it is another or a new cart.
Validate(w, c) ==
  LET checked == IF c = mine[w] THEN view[w] ELSE ItemsOf(c) IN
  /\ GetOrCreate(w, c)
  /\ \A x \in checked : Sellable(x, LoadMore(known[w], checked))
  /\ known' = [known EXCEPT ![w] = {}]
  /\ UNCHANGED <<catalog, rows, wallet, lapsed, asked, mine, view>>

ValidateQuote(w, c) ==
  /\ pc[w] = "quote_validate"
  /\ pc' = [pc EXCEPT ![w] = "quote_commit"]
  /\ Validate(w, c)

\* INSERT the quote, commit.
CommitQuote(w) ==
  /\ pc[w] = "quote_commit"
  /\ quotes' = [quotes EXCEPT ![asked[w]] =
                  [cart |-> mine[w], subtotal |-> Worth(view[w]), status |-> "ACTIVE"]]
  /\ carts'  = Published(w)
  /\ Finish(w)
  /\ UNCHANGED <<catalog, items, orders, wallet, lapsed>>

\* SELECT the quote if it is ACTIVE; it has not expired.  (The status EXPIRED that
\* is set on an expired one is rolled back with the refusal.)
BeginConfirm(w, q) ==
  /\ pc[w] = "idle"
  /\ quotes[q].status = "ACTIVE"
  /\ q \notin lapsed
  /\ pc'    = [pc EXCEPT ![w] = "confirm_cart"]
  /\ asked' = [asked EXCEPT ![w] = q]
  /\ UNCHANGED <<catalog, rows, wallet, lapsed, mine, made, view, known>>

\* Mutation of ConfirmCart: the cart need not be the quote's.
ConfirmAnyCart(w, c) ==
  /\ pc[w] = "confirm_cart"
  /\ GetOrCreate(w, c)
  /\ mine' = [mine EXCEPT ![w] = c]
  /\ view' = [view EXCEPT ![w] = ItemsOf(c)]
  /\ known' = [known EXCEPT ![w] = Load(ItemsOf(c))]
  /\ pc'   = [pc EXCEPT ![w] = "confirm_validate"]
  /\ UNCHANGED <<catalog, rows, wallet, lapsed, asked>>

\* SELECT the cart, its rows and their products; it is the quote's.
ConfirmCart(w, c) ==
  /\ pc[w] = "confirm_cart"
  /\ GetOrCreate(w, c)
  /\ c = quotes[asked[w]].cart
  /\ mine' = [mine EXCEPT ![w] = c]
  /\ view' = [view EXCEPT ![w] = ItemsOf(c)]
  /\ known' = [known EXCEPT ![w] = Load(ItemsOf(c))]
  /\ pc'   = [pc EXCEPT ![w] = "confirm_validate"]
  /\ UNCHANGED <<catalog, rows, wallet, lapsed, asked>>

ValidateConfirm(w, c) ==
  /\ pc[w] = "confirm_validate"
  /\ pc' = [pc EXCEPT ![w] = "confirm_commit"]
  /\ Validate(w, c)

\* Mutation of CommitConfirm: the order is made, quote and cart stay ACTIVE.
CommitConfirmOrderOnly(w, o) ==
  LET q == asked[w] IN
  /\ pc[w] = "confirm_commit"
  /\ orders[o] = None
  /\ orders' = [orders EXCEPT ![o] = [quote |-> q, cart |-> mine[w],
                                      subtotal |-> quotes[q].subtotal, lines |-> view[w]]]
  /\ carts'  = Published(w)
  /\ Finish(w)
  /\ UNCHANGED <<catalog, items, quotes, wallet, lapsed>>

\* INSERT the order at the quote's total with the rows of the cart as its lines,
\* UPDATE quote and cart by primary key alone, commit.
CommitConfirm(w, o) ==
  LET q == asked[w] IN
  /\ pc[w] = "confirm_commit"
  /\ orders[o] = None
  /\ orders' = [orders EXCEPT ![o] = [quote |-> q, cart |-> mine[w],
                                      subtotal |-> quotes[q].subtotal, lines |-> view[w]]]
  /\ quotes' = [quotes EXCEPT ![q].status = "CONFIRMED"]
  /\ carts'  = [Published(w) EXCEPT ![mine[w]] = "CONVERTED"]
  /\ Finish(w)
  /\ UNCHANGED <<catalog, items, wallet, lapsed>>

-----------------------------------------------------------------------------
\* The request is refused, fails or is killed: its transaction is rolled back.
Abort(w) ==
  /\ pc[w] # "idle"
  /\ Finish(w)
  /\ UNCHANGED <<catalog, rows, wallet, lapsed>>

Environment ==
  \/ \E p \in Product, v \in Price : SetPrice(p, v)
  \/ \E p \in Product, n \in 0 .. MaxStock : SetStock(p, n)
  \/ \E p \in Product, n \in Quantity : RequestAdd(p, n)
  \/ \E x \in items, n \in Quantity : RequestUpdate(x, n)
  \/ \E x \in items : RequestRemove(x)
  \/ \E c \in Cart : RequestClear(c)
  \/ \E t \in tokens : ExpireToken(t)
  \/ \E q \in Quote : Lapse(q)

CartStep(w) ==
  \/ \E t \in tokens : BeginAdd(w, t) \/ BeginUpdate(w, t) \/ BeginRemove(w, t)
                       \/ BeginClear(w, t)
  \/ \E c \in Cart : AddCart(w, c) \/ BeginOpen(w, c)
  \/ CommitAdd(w) \/ CommitUpdate(w) \/ CommitDelete(w) \/ CommitOpen(w)

CheckoutStep(w) ==
  \/ \E c \in Cart, q \in Quote : BeginQuote(w, c, q)
  \/ \E q \in Quote : BeginConfirm(w, q)
  \/ \E c \in Cart : ValidateQuote(w, c) \/ ConfirmCart(w, c) \/ ValidateConfirm(w, c)
  \/ CommitQuote(w)
  \/ \E o \in Order : CommitConfirm(w, o)

Next == Environment \/ \E w \in Worker : CartStep(w) \/ CheckoutStep(w) \/ Abort(w)

Spec == Init /\ [][Next]_vars

-----------------------------------------------------------------------------
(* Properties under any number of concurrent requests.                     *)

OrdersOf(c) == {o \in Placed : orders[o].cart = c}

\* Every variable keeps its type, and a request its cart while it works on one.
TypeOK ==
  /\ price  \in [Product -> Price]
  /\ stock  \in [Product -> 0 .. MaxStock]
  /\ carts  \in [Cart -> CartStatus]
  /\ items  \subseteq Rows
  /\ tokens \subseteq Tokens
  /\ shown  \subseteq Product \X Price
  /\ quotes \in [Quote -> [cart : Cart \cup {None}, subtotal : Amounts,
                        status : QuoteStatus]]
  /\ lapsed \subseteq Quote
  /\ orders \in [Order -> OrderRows \cup {None}]
  /\ pc     \in [Worker -> PC]
  /\ asked  \in [Worker -> Tokens \cup Quote \cup {None}]
  /\ mine   \in [Worker -> Cart \cup {None}]
  /\ made   \in [Worker -> SUBSET Cart]
  /\ view   \in [Worker -> SUBSET Rows]
  /\ known  \in [Worker -> SUBSET Loaded]

\* Order, quote and cart are committed together: a cart is CONVERTED, and a quote
\* CONFIRMED, exactly when an order was made of it.
ConvertedByOrder ==
  /\ \A c \in Cart  : carts[c] = "CONVERTED" <=> OrdersOf(c) # {}
  /\ \A q \in Quote : quotes[q].status = "CONFIRMED" <=> \E o \in Placed : orders[o].quote = q

\* An order is made of its quote's cart and at its quote's amount, whichever carts
\* get_or_create_cart returned on the way and whatever became of them.
OrderIsItsQuote ==
  \A o \in Placed :
    /\ orders[o].cart     = quotes[orders[o].quote].cart
    /\ orders[o].subtotal = quotes[orders[o].quote].subtotal

\* Nothing is quoted or ordered for nothing, although validate_cart finds no fault
\* with the empty cart it may come to create.
NothingForNothing ==
  /\ \A q \in Quote : quotes[q].status # "NONE" => quotes[q].subtotal > 0
  /\ \A o \in Placed : orders[o].subtotal > 0

\* No price gets into a cart or an order that a confirmation has not shown to the
\* customer, whatever the merchant does between the confirmation and the commit.
PricesWereShown ==
  /\ \A x \in items : <<x.product, x.price>> \in shown
  /\ \A o \in Placed : \A x \in orders[o].lines : <<x.product, x.price>> \in shown

-----------------------------------------------------------------------------
(* Properties that the handlers keep only while requests do not overlap.   *)

\* A customer never has two ACTIVE carts: get_or_create_cart would raise for ever.
OneActiveCart == \A c, d \in Active : c = d

\* A cart has one row for a product.
OneRowPerProduct ==
  \A x, y \in items : x.cart = y.cart /\ x.product = y.product => x = y

\* A quote is converted into one order.
OneOrderPerQuote ==
  \A a, b \in Placed : orders[a].quote = orders[b].quote => a = b

\* The lines of what is ordered of each cart, as CartLifecycle sees them.
OrderedOf == [c \in Cart |->
  IF OrdersOf(c) = {} THEN None ELSE UNION {orders[o].lines : o \in OrdersOf(c)}]

Lifecycle == INSTANCE CartLifecycle
  WITH stage <- carts, content <- [c \in Cart |-> ItemsOf(c)], ordered <- OrderedOf

\* One cart is open at a time, it is ordered once, as it stands, and stays so.
ImplementsCartLifecycle == Lifecycle!Spec

-----------------------------------------------------------------------------
(* What the route of POST /checkout/quote says and the handlers do not keep, *)
(* even one request at a time.                                             *)

\* The amount of an order is the worth of its lines: the quote is of the cart that
\* is converted.
OrderIsWorthItsLines ==
  \A o \in Placed : orders[o].subtotal = Worth(orders[o].lines)
=============================================================================
