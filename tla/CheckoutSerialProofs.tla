------------------------ MODULE CheckoutSerialProofs ------------------------
(***************************************************************************)
(* Proofs about module Checkout when requests never overlap: a customer    *)
(* has one ACTIVE cart, a cart one row for a product, a quote one order,   *)
(* and the handlers implement CartLifecycle.                               *)
(***************************************************************************)
EXTENDS CheckoutProofs

\* The serial invariant holds of a customer who has not done anything yet.
LEMMA SerialInit == Init => SerialInv
<1> SUFFICES ASSUME Init PROVE SerialInv
  OBVIOUS
<1>1. IInv
  BY InvInit
<1>2. Active = {} /\ Placed = {}
  BY DEF Init, Active, Placed
<1>3. OneCartInSight /\ OneActiveCart /\ OneOrderPerQuote /\ OneRowPerProduct
  BY <1>2 DEF Init, OneCartInSight, OneActiveCart, OneOrderPerQuote, OneRowPerProduct
<1>4. QuotedCarts
  BY DEF Init, QuotedCarts, NoQuote
<1>5. Fresh
  BY DEF Init, Fresh, Updating, Removing, Checking, Quoting, Confirming
<1>6. QED
  BY <1>1, <1>3, <1>4, <1>5 DEF SerialInv

\* A request that sees an ACTIVE cart has inserted none, and sees no other.
LEMMA SeesActive ==
  ASSUME TypeOK, CartsOwned, OneCartInSight, NEW w \in Worker, NEW c \in Active
  PROVE  made[w] = {} /\ Active = {c}
<1>1. \A d \in Active \cup made[w] : d = c
  BY DEF OneCartInSight
<1>2. c \notin made[w]
  BY DEF CartsOwned, Active
<1>3. QED
  BY <1>1, <1>2

\* Whatever get_or_create_cart returns is the one cart in sight.
LEMMA GetsOne ==
  ASSUME TypeOK, CartsOwned, OneCartInSight, NEW w \in Worker, NEW c \in Cart,
         GetOrCreate(w, c), carts' = carts
  PROVE  /\ made' \in [Worker -> SUBSET Cart]
         /\ \A v \in Worker : v # w => made'[v] = made[v]
         /\ Active' = Active
         /\ Active \cup made'[w] = {c}
         /\ carts[c] # "NONE" => c \in Active /\ made'[w] = {}
<1>1. Active' = Active
  BY DEF Active
<1>2. CASE Active \cup made[w] = {c} /\ made' = made
  BY <1>1, <1>2 DEF TypeOK, CartsOwned, Active
<1>3. CASE /\ Active \cup made[w] = {}
           /\ NewCart(c) /\ made' = [made EXCEPT ![w] = {c}]
  BY <1>1, <1>3 DEF TypeOK, NewCart
<1>4. QED
  BY <1>2, <1>3 DEF GetOrCreate

\* The only request's commit leaves the carts as they are if it has inserted none,
\* and otherwise makes the one it has inserted the only ACTIVE one.
LEMMA PublishesOne ==
  ASSUME TypeOK, CartsOwned, OneCartInSight, NEW w \in Worker
  PROVE  /\ made[w] = {} => Published(w) = carts
         /\ \A c \in made[w] : /\ c \in Cart /\ carts[c] = "NONE" /\ Active = {}
                               /\ Published(w) = [carts EXCEPT ![c] = "ACTIVE"]
<1>1. made[w] = {} => Published(w) = carts
  BY DEF TypeOK, Published
<1>2. ASSUME NEW c \in made[w]
      PROVE  /\ c \in Cart /\ carts[c] = "NONE" /\ Active = {}
             /\ Published(w) = [carts EXCEPT ![c] = "ACTIVE"]
  <2>1. c \in Cart /\ carts[c] = "NONE" /\ c \notin Active
    BY DEF TypeOK, CartsOwned, Active
  <2>2. made[w] = {c} /\ Active = {}
    BY <2>1 DEF OneCartInSight
  <2>3. QED
    BY <2>1, <2>2 DEF TypeOK, Published
<1>3. QED
  BY <1>1, <1>2

\* The merchant, time and the requests for a confirmation do not touch a request.
LEMMA Outside == Environment \/ UNCHANGED vars => UNCHANGED <<rows, locals>>
  BY DEF Environment, SetPrice, SetStock, RequestAdd, RequestUpdate, RequestRemove,
     RequestClear, ExpireToken, Lapse, Issue, rows, wallet, vars

\* A request reads at most one cart, and a cart is inserted only when there is none.
LEMMA InSightStep ==
  ASSUME OneAtATime, TypeOK, LocalsOK, CartsOwned, OneCartInSight, Fresh, [Next]_vars
  PROVE  OneCartInSight'
<1> USE DEF OneAtATime, TypeOK, OneCartInSight, rows, locals
<1>1. CASE UNCHANGED <<carts, made>>
  BY <1>1 DEF Active
<1>2. ASSUME NEW w \in Worker, NEW c \in Cart, GetOrCreate(w, c), carts' = carts
      PROVE  OneCartInSight'
  BY <1>2, GetsOne
<1>3. ASSUME NEW w \in Worker, CommitAdd(w) \/ CommitOpen(w) \/ CommitQuote(w)
      PROVE  OneCartInSight'
  <2>1. carts' = Published(w) /\ made' = [made EXCEPT ![w] = {}]
    BY <1>3 DEF CommitAdd, CommitOpen, CommitQuote, Finish
  <2>2. \A c, d \in Active' : c = d
    <3>1. CASE made[w] = {}
      BY <2>1, <3>1, PublishesOne DEF Active
    <3>2. ASSUME NEW c \in made[w] PROVE \A d \in Active' : d = c
      BY <2>1, <3>2, PublishesOne DEF Active
    <3>3. QED
      BY <3>1, <3>2
  <2>3. QED
    BY <2>1, <2>2
<1>4. ASSUME NEW w \in Worker, NEW o \in Order, CommitConfirm(w, o) PROVE OneCartInSight'
  <2>1. mine[w] \in Active /\ made[w] = {}
    BY <1>4, SeesActive DEF CommitConfirm, Fresh, Checking
  <2>2. carts' = [carts EXCEPT ![mine[w]] = "CONVERTED"] /\ made' = [made EXCEPT ![w] = {}]
    BY <1>4, <2>1, PublishesOne DEF CommitConfirm, Finish
  <2>3. Active' \subseteq Active
    BY <2>2 DEF Active
  <2>4. QED
    BY <2>1, <2>2, <2>3
<1>5. ASSUME NEW w \in Worker, CommitUpdate(w) \/ CommitDelete(w) \/ Abort(w)
      PROVE  OneCartInSight'
  <2>1. carts' = carts /\ made' = [made EXCEPT ![w] = {}]
    BY <1>5 DEF CommitUpdate, CommitDelete, Abort, Finish
  <2>2. QED
    BY <2>1 DEF Active
<1>6. ASSUME NEW w \in Worker, NEW t \in tokens,
             BeginAdd(w, t) \/ BeginUpdate(w, t) \/ BeginRemove(w, t) \/ BeginClear(w, t)
      PROVE  UNCHANGED <<carts, made>>
  BY <1>6 DEF BeginAdd, BeginUpdate, BeginRemove, BeginClear, Take
<1>7. ASSUME NEW w \in Worker, NEW q \in Quote,
             BeginConfirm(w, q) \/ \E c \in Cart : BeginQuote(w, c, q)
      PROVE  UNCHANGED <<carts, made>>
  BY <1>7 DEF BeginQuote, BeginConfirm, Take
<1>8. ASSUME NEW w \in Worker, NEW c \in Cart,
             \/ AddCart(w, c) \/ BeginOpen(w, c) \/ ValidateQuote(w, c) \/ ConfirmCart(w, c)
             \/ ValidateConfirm(w, c)
      PROVE  GetOrCreate(w, c) /\ carts' = carts
  BY <1>8 DEF AddCart, BeginOpen, ValidateQuote, ConfirmCart, ValidateConfirm, Validate
<1>9. QED
  BY <1>1, <1>2, <1>3, <1>4, <1>5, <1>6, <1>7, <1>8, Outside
     DEF Next, CartStep, CheckoutStep

\* One ACTIVE cart: where there is a request it sees them all.
LEMMA OneActiveStep ==
  ASSUME OneAtATime, TypeOK, LocalsOK, CartsOwned, OneCartInSight, Fresh, OneActiveCart,
         [Next]_vars
  PROVE  OneActiveCart'
<1>1. CASE carts' = carts
  BY <1>1 DEF OneActiveCart, Active
<1>2. ASSUME NEW w \in Worker PROVE OneActiveCart'
  BY InSightStep DEF OneCartInSight, OneActiveCart
<1>3. QED
  BY <1>1, <1>2, Writers

\* No cart loses its row, and a quote is made of one that has a row.
LEMMA QuotedCartsStep ==
  ASSUME TypeOK, LocalsOK, CartsOwned, QuotedCarts, Fresh, [Next]_vars
  PROVE  QuotedCarts'
<1>1. CASE carts' = carts /\ quotes' = quotes
  BY <1>1 DEF QuotedCarts
<1>2. \A w \in Worker : \A c \in Cart : carts[c] # "NONE" => Published(w)[c] # "NONE"
  BY DEF Published
<1>3. ASSUME NEW w \in Worker, CommitAdd(w) \/ CommitOpen(w) PROVE QuotedCarts'
  <2>1. carts' = Published(w) /\ quotes' = quotes
    BY <1>3 DEF CommitAdd, CommitOpen
  <2>2. QED
    BY <1>2, <2>1 DEF QuotedCarts
<1>4. ASSUME NEW w \in Worker, CommitQuote(w) PROVE QuotedCarts'
  <2>1. mine[w] \in Cart /\ carts[mine[w]] # "NONE"
    BY <1>4 DEF CommitQuote, Fresh, Checking, Quoting, Active
  <2>2. /\ quotes'[asked[w]].cart = mine[w]
        /\ \A q \in Quote : q # asked[w] => quotes'[q] = quotes[q]
        /\ carts' = Published(w)
    BY <1>4 DEF CommitQuote, LocalsOK, Quoting, TypeOK
  <2>3. QED
    BY <1>2, <2>1, <2>2 DEF QuotedCarts
<1>5. ASSUME NEW w \in Worker, NEW o \in Order, CommitConfirm(w, o) PROVE QuotedCarts'
  <2>1. /\ \A q \in Quote : quotes'[q].cart = quotes[q].cart
        /\ \A q \in Quote : quotes'[q].status # "NONE" => q = asked[w] \/ quotes[q].status # "NONE"
        /\ \A c \in Cart : carts[c] # "NONE" => carts'[c] # "NONE"
    BY <1>5, <1>2, OnePlaced
  <2>2. quotes[asked[w]].status = "ACTIVE"
    BY <1>5 DEF CommitConfirm, Fresh, Confirming
  <2>3. QED
    BY <2>1, <2>2 DEF QuotedCarts
<1>6. QED
  BY <1>1, <1>3, <1>4, <1>5, Writers

\* An ended request has nothing to keep.
LEMMA FinishedFresh ==
  ASSUME OneAtATime, TypeOK, NEW w \in Worker, Finish(w)
  PROVE  Fresh'
  BY DEF OneAtATime, TypeOK, Finish, Fresh, Updating, Removing, Checking, Quoting, Confirming

\* Nothing comes between what the only request reads and what it writes.
LEMMA FreshStep ==
  ASSUME OneAtATime, TypeOK, LocalsOK, CartsOwned, OneCartInSight, QuotedCarts, Fresh,
         OneRowPerProduct, [Next]_vars
  PROVE  Fresh'
<1> USE DEF OneAtATime, TypeOK, Fresh, Updating, Removing, Checking, Quoting, Confirming,
        rows, locals
<1>1. CASE UNCHANGED <<rows, locals>>
  BY <1>1 DEF Active, ItemsOf
<1>2. ASSUME NEW w \in Worker, Finish(w) PROVE Fresh'
  BY <1>2, FinishedFresh
<1>3. ASSUME NEW w \in Worker, NEW t \in tokens, BeginAdd(w, t) PROVE Fresh'
  BY <1>3 DEF BeginAdd
<1>4. ASSUME NEW w \in Worker, NEW c \in Cart, AddCart(w, c) PROVE Fresh'
  <2> DEFINE same == {x \in ItemsOf(c) : x.product = asked[w].target}
  <2>1. /\ ItemsOf(c)' = ItemsOf(c) /\ asked' = asked
        /\ mine'[w] = c /\ pc'[w] = "add_commit"
    BY <1>4 DEF AddCart, ItemsOf
  <2>2. c \in Active' \cup made'[w]
    BY <1>4, GetsOne DEF AddCart
  <2>3. \A x, y \in same : x = y
    BY DEF OneRowPerProduct, ItemsOf
  <2>4. view'[w] = same
    BY <1>4, <2>3 DEF AddCart, Merged
  <2>5. QED
    BY <2>1, <2>2, <2>4
<1>5. ASSUME NEW w \in Worker, NEW t \in tokens, NEW S, NEW next, NEW c \in Cart,
             Take(w, t, S, next), next \in {"update_commit", "remove_commit", "clear_commit"},
             Active = {c}, S \subseteq ItemsOf(c)
      PROVE  Fresh'
  <2>1. /\ Active' = Active /\ ItemsOf(c)' = ItemsOf(c)
        /\ mine'[w] = c /\ view'[w] = S /\ pc'[w] = next
    BY <1>5 DEF Take, Active, ItemsOf
  <2>2. QED
    BY <1>5, <2>1
<1>6. ASSUME NEW w \in Worker, NEW t \in tokens,
             BeginUpdate(w, t) \/ BeginRemove(w, t) \/ BeginClear(w, t)
      PROVE  Fresh'
  <2>1. CASE BeginClear(w, t)
    <3>1. Active = {t.target} /\ t.target \in Cart
      BY <2>1 DEF BeginClear, Active
    <3>2. QED
      BY <2>1, <3>1, <1>5 DEF BeginClear
  <2>2. ASSUME NEW x \in items, Active = {x.cart},
               Take(w, t, {x}, "update_commit") \/ Take(w, t, {x}, "remove_commit")
        PROVE  Fresh'
    <3>1. x.cart \in Cart /\ {x} \subseteq ItemsOf(x.cart)
      BY <2>2 DEF Active, ItemsOf
    <3>2. QED
      BY <2>2, <3>1, <1>5
  <2>3. QED
    BY <1>6, <2>1, <2>2 DEF BeginUpdate, BeginRemove
<1>7. ASSUME NEW w \in Worker, NEW c \in Cart, BeginOpen(w, c) PROVE Fresh'
  BY <1>7 DEF BeginOpen
<1>8. ASSUME NEW w \in Worker, NEW c \in Cart, NEW q \in Quote, BeginQuote(w, c, q)
      PROVE  Fresh'
  <2>1. /\ Active' = Active /\ ItemsOf(c)' = ItemsOf(c) /\ Active = {c}
        /\ mine'[w] = c /\ view'[w] = ItemsOf(c) /\ pc'[w] = "quote_validate"
    BY <1>8 DEF BeginQuote, Take, Active, ItemsOf
  <2>2. QED
    BY <2>1
<1>9. ASSUME NEW w \in Worker, NEW c \in Cart, ValidateQuote(w, c) \/ ValidateConfirm(w, c)
      PROVE  Fresh'
  <2>1. /\ Active' = Active /\ \A d : ItemsOf(d)' = ItemsOf(d)
        /\ UNCHANGED <<quotes, asked, mine, view>>
        /\ pc'[w] = IF pc[w] = "quote_validate" THEN "quote_commit" ELSE "confirm_commit"
    BY <1>9 DEF ValidateQuote, ValidateConfirm, Validate, Active, ItemsOf
  <2>2. pc[w] \in {"quote_validate", "confirm_validate"}
    BY <1>9 DEF ValidateQuote, ValidateConfirm
  <2>3. QED
    BY <2>1, <2>2
<1>10. ASSUME NEW w \in Worker, NEW q \in Quote, BeginConfirm(w, q) PROVE Fresh'
  BY <1>10 DEF BeginConfirm
<1>11. ASSUME NEW w \in Worker, NEW c \in Cart, ConfirmCart(w, c) PROVE Fresh'
  <2>1. quotes[asked[w]].status = "ACTIVE" /\ c = quotes[asked[w]].cart
    BY <1>11 DEF ConfirmCart
  <2>2. carts[c] # "NONE"
    BY <1>11, <2>1 DEF QuotedCarts, LocalsOK, ConfirmCart
  <2>3. c \in Active'
    BY <1>11, <2>2, GetsOne DEF ConfirmCart
  <2>4. /\ ItemsOf(c)' = ItemsOf(c) /\ UNCHANGED <<quotes, asked>>
        /\ mine'[w] = c /\ view'[w] = ItemsOf(c) /\ pc'[w] = "confirm_validate"
    BY <1>11 DEF ConfirmCart, ItemsOf
  <2>5. QED
    BY <2>1, <2>3, <2>4
<1>12. ASSUME NEW w \in Worker
       PROVE  /\ CommitAdd(w) \/ CommitUpdate(w) \/ CommitDelete(w) \/ CommitOpen(w) => Finish(w)
              /\ CommitQuote(w) \/ Abort(w) => Finish(w)
              /\ \A o \in Order : CommitConfirm(w, o) => Finish(w)
  BY DEF CommitAdd, CommitUpdate, CommitDelete, CommitOpen, CommitQuote, CommitConfirm, Abort
<1>13. QED
  BY <1>1, <1>2, <1>3, <1>4, <1>6, <1>7, <1>8, <1>9, <1>10, <1>11, <1>12, Outside
     DEF Next, CartStep, CheckoutStep

\* A row is changed in place, and inserted only for a product the cart has not.
LEMMA OneRowStep ==
  ASSUME TypeOK, LocalsOK, Fresh, OneRowPerProduct, [Next]_vars
  PROVE  OneRowPerProduct'
<1>1. CASE items' = items
  BY <1>1 DEF OneRowPerProduct
<1>2. ASSUME NEW y \in items, NEW x, NEW n, NEW v,
             items' = (items \ {y}) \cup {Updated(y, x, n, v)}
      PROVE  OneRowPerProduct'
  <2>1. Updated(y, x, n, v).cart = y.cart /\ Updated(y, x, n, v).product = y.product
    BY UpdatedKeeps DEF TypeOK
  <2>2. QED
    BY <1>2, <2>1 DEF OneRowPerProduct
<1>3. ASSUME NEW w \in Worker, CommitAdd(w) PROVE OneRowPerProduct'
  <2> DEFINE t == asked[w]
  <2>1. CASE \E x \in view[w], y \in items :
               items' = (items \ {y}) \cup {Updated(y, x, x.quantity + t.quantity, t.price)}
    BY <1>2, <2>1
  <2>2. ASSUME NEW i \in Item, view[w] = {},
               items' = items \cup {[id |-> i, cart |-> mine[w], product |-> t.target,
                                     quantity |-> t.quantity, price |-> t.price]}
        PROVE  OneRowPerProduct'
    <3>1. \A x \in items : x.cart = mine[w] => x.product # t.target
      BY <1>3, <2>2 DEF CommitAdd, Fresh, ItemsOf
    <3>2. QED
      BY <2>2, <3>1 DEF OneRowPerProduct
  <2>3. QED
    BY <1>3, <2>1, <2>2 DEF CommitAdd
<1>4. ASSUME NEW w \in Worker, CommitUpdate(w) PROVE OneRowPerProduct'
  BY <1>2, <1>4 DEF CommitUpdate
<1>5. ASSUME NEW w \in Worker, CommitDelete(w) PROVE OneRowPerProduct'
  BY <1>5 DEF CommitDelete, OneRowPerProduct
<1>6. QED
  BY <1>1, <1>3, <1>4, <1>5, Writers

\* The quote that is confirmed is ACTIVE still, so it has no order.
LEMMA OneOrderStep ==
  ASSUME TypeOK, LocalsOK, ConvertedByOrder, Fresh, OneOrderPerQuote, [Next]_vars
  PROVE  OneOrderPerQuote'
<1>1. CASE orders' = orders
  BY <1>1 DEF OneOrderPerQuote, Placed
<1>2. ASSUME NEW w \in Worker, NEW o \in Order, CommitConfirm(w, o) PROVE OneOrderPerQuote'
  <2>1. quotes[asked[w]].status = "ACTIVE" /\ asked[w] \in Quote
    BY <1>2 DEF CommitConfirm, Fresh, Confirming, LocalsOK
  <2>2. \A p \in Placed : orders[p].quote # asked[w]
    BY <2>1 DEF ConvertedByOrder
  <2>3. /\ Placed' = Placed \cup {o} /\ orders'[o].quote = asked[w]
        /\ \A p \in Placed : orders'[p] = orders[p]
    BY <1>2, OnePlaced
  <2>4. QED
    BY <2>2, <2>3 DEF OneOrderPerQuote
<1>3. ASSUME NEW w \in Worker, CommitAdd(w) \/ CommitOpen(w) \/ CommitQuote(w)
      PROVE  orders' = orders
  BY <1>3 DEF CommitAdd, CommitOpen, CommitQuote
<1>4. QED
  BY <1>1, <1>2, <1>3, Writers

\* The serial invariant is inductive.
LEMMA SerialStep ==
  ASSUME OneAtATime, SerialInv, IInv', [Next]_vars PROVE SerialInv'
  BY InSightStep, QuotedCartsStep, FreshStep, OneActiveStep, OneRowStep, OneOrderStep
     DEF SerialInv, IInv

\* Without overlapping requests every request writes to what it has read.
THEOREM SerialInductive == ASSUME OneAtATime PROVE Spec => []SerialInv
  BY SerialInit, Inductive, SerialStep, PTL DEF Spec

\* Without overlapping requests a customer never has two ACTIVE carts, after
\* which every request for the cart would fail.
THEOREM SerialOneActiveCart == ASSUME OneAtATime PROVE Spec => []OneActiveCart
  BY SerialInductive, PTL DEF SerialInv

\* Without overlapping requests a cart has one row for a product, however often
\* the product is added.
THEOREM SerialOneRowPerProduct == ASSUME OneAtATime PROVE Spec => []OneRowPerProduct
  BY SerialInductive, PTL DEF SerialInv

\* Without overlapping requests a quote is converted into one order, however
\* often it is confirmed.
THEOREM SerialOneOrderPerQuote == ASSUME OneAtATime PROVE Spec => []OneOrderPerQuote
  BY SerialInductive, PTL DEF SerialInv

-----------------------------------------------------------------------------
(* The refinement of CartLifecycle.                                        *)

\* The initial states map to the abstract one.
LEMMA RefinementInit == Init => Lifecycle!Init
<1> SUFFICES ASSUME Init PROVE Lifecycle!Init
  OBVIOUS
<1>1. Placed = {}
  BY DEF Init, Placed
<1>2. \A c \in Cart : OrdersOf(c) = {} /\ ItemsOf(c) = {}
  BY <1>1 DEF Init, OrdersOf, ItemsOf
<1>3. QED
  BY <1>2 DEF Init, Lifecycle!Init, OrderedOf

\* Rows that change are those of one cart.
LEMMA FillsOnly ==
  ASSUME NEW c \in Cart, \A d \in Cart : d # c => ItemsOf(d)' = ItemsOf(d)
  PROVE  Lifecycle!FillOnly(c)
  BY DEF Lifecycle!FillOnly

\* Orders that do not change leave every cart with its order.
LEMMA OrderedKeeps ==
  ASSUME orders' = orders PROVE OrderedOf' = OrderedOf
  BY DEF OrderedOf, OrdersOf, Placed

\* Every step of the handlers is one of shopping, or none.
LEMMA RefinementStep ==
  ASSUME OneAtATime, SerialInv, [Next]_vars
  PROVE  [Lifecycle!Next]_(Lifecycle!vars)
<1> USE DEF SerialInv, IInv
<1>1. CASE UNCHANGED <<carts, items, orders>>
  <2>1. \A c : ItemsOf(c)' = ItemsOf(c)
    BY <1>1 DEF ItemsOf
  <2>2. QED
    BY <1>1, <2>1, OrderedKeeps DEF Lifecycle!vars
<1>2. ASSUME NEW w \in Worker, CommitUpdate(w) \/ CommitDelete(w) PROVE Lifecycle!Next
  <2>1. mine[w] \in Active /\ view[w] \subseteq ItemsOf(mine[w])
    BY <1>2 DEF CommitUpdate, CommitDelete, Fresh, Updating, Removing
  <2>2. \A x \in view[w] : \A y \in items : x.id = y.id => x = y
    BY <2>1 DEF IdsUnique, ItemsOf
  <2>3. ASSUME NEW d \in Cart, d # mine[w] PROVE ItemsOf(d)' = ItemsOf(d)
    <3>1. CASE CommitUpdate(w)
      <4>1. PICK x \in view[w] : 
              items' = (items \ {x}) \cup {Updated(x, x, asked[w].quantity, asked[w].price)}
        BY <2>2, <3>1 DEF CommitUpdate
      <4>2. x \in Rows /\ x.cart = mine[w]
        BY <2>1 DEF ItemsOf, TypeOK
      <4>3. Updated(x, x, asked[w].quantity, asked[w].price).cart = mine[w]
        BY <4>2, UpdatedKeeps
      <4>4. QED
        BY <2>3, <4>1, <4>2, <4>3 DEF ItemsOf
    <3>2. CASE CommitDelete(w)
      <4>1. \A y \in items \ items' : y.cart = mine[w]
        BY <2>1, <2>2, <3>2 DEF CommitDelete, ItemsOf
      <4>2. items' \subseteq items
        BY <3>2 DEF CommitDelete
      <4>3. QED
        BY <2>3, <4>1, <4>2 DEF ItemsOf
    <3>3. QED
      BY <1>2, <3>1, <3>2
  <2>4. mine[w] \in Cart /\ carts[mine[w]] = "ACTIVE"
    BY <2>1 DEF Active
  <2>5. carts' = carts /\ orders' = orders
    BY <1>2 DEF CommitUpdate, CommitDelete
  <2>6. Lifecycle!Fill(mine[w])
    BY <2>3, <2>4, <2>5, FillsOnly, OrderedKeeps DEF Lifecycle!Fill
  <2>7. QED
    BY <2>4, <2>6 DEF Lifecycle!Next
<1>3. ASSUME NEW w \in Worker, NEW c \in made[w], carts' = Published(w), orders' = orders,
             \A d \in Cart : d # c => ItemsOf(d)' = ItemsOf(d)
      PROVE  Lifecycle!Next
  <2>1. /\ c \in Cart /\ carts[c] = "NONE" /\ carts' = [carts EXCEPT ![c] = "ACTIVE"]
        /\ \A d \in Cart : carts[d] # "ACTIVE"
    BY <1>3, PublishesOne DEF Active
  <2>2. Lifecycle!Open(c)
    BY <1>3, <2>1, FillsOnly, OrderedKeeps DEF Lifecycle!Open
  <2>3. QED
    BY <2>1, <2>2 DEF Lifecycle!Next
<1>4. ASSUME NEW w \in Worker, CommitAdd(w) PROVE Lifecycle!Next
  <2>1. mine[w] \in Active \cup made[w] /\ mine[w] \in Cart /\ view[w] \subseteq ItemsOf(mine[w])
    BY <1>4 DEF CommitAdd, Fresh, LocalsOK, Working
  <2>2. ASSUME NEW d \in Cart, d # mine[w] PROVE ItemsOf(d)' = ItemsOf(d)
    <3> DEFINE t == asked[w]
    <3>1. ASSUME NEW x \in view[w], NEW y \in items, y.id = x.id,
                 items' = (items \ {y}) \cup {Updated(y, x, x.quantity + t.quantity, t.price)}
          PROVE  ItemsOf(d)' = ItemsOf(d)
      <4>1. y = x /\ y \in Rows /\ y.cart = mine[w]
        BY <2>1, <3>1 DEF IdsUnique, ItemsOf, TypeOK
      <4>2. Updated(y, x, x.quantity + t.quantity, t.price).cart = mine[w]
        BY <4>1, UpdatedKeeps
      <4>3. QED
        BY <2>2, <3>1, <4>1, <4>2 DEF ItemsOf
    <3>2. ASSUME NEW i \in Item,
                 items' = items \cup {[id |-> i, cart |-> mine[w], product |-> t.target,
                                       quantity |-> t.quantity, price |-> t.price]}
          PROVE  ItemsOf(d)' = ItemsOf(d)
      BY <2>2, <3>2 DEF ItemsOf
    <3>3. QED
      BY <1>4, <3>1, <3>2 DEF CommitAdd
  <2>3. carts' = Published(w) /\ orders' = orders
    BY <1>4 DEF CommitAdd
  <2>4. CASE mine[w] \in made[w]
    BY <1>3, <2>2, <2>3, <2>4
  <2>5. CASE mine[w] \in Active
    <3>1. carts' = carts
      BY <2>3, <2>5, SeesActive, PublishesOne
    <3>2. Lifecycle!Fill(mine[w])
      BY <2>1, <2>2, <2>3, <2>5, <3>1, FillsOnly, OrderedKeeps DEF Lifecycle!Fill, Active
    <3>3. QED
      BY <2>1, <3>2 DEF Lifecycle!Next
  <2>6. QED
    BY <2>1, <2>4, <2>5
<1>5. ASSUME NEW w \in Worker, CommitOpen(w) \/ CommitQuote(w)
      PROVE  Lifecycle!Next \/ UNCHANGED <<carts, items, orders>>
  <2>1. carts' = Published(w) /\ items' = items /\ orders' = orders
    BY <1>5 DEF CommitOpen, CommitQuote
  <2>2. CASE made[w] = {}
    BY <2>1, <2>2, PublishesOne
  <2>3. ASSUME NEW c \in made[w] PROVE Lifecycle!Next
    BY <1>3, <2>1 DEF ItemsOf
  <2>4. QED
    BY <2>2, <2>3
<1>6. ASSUME NEW w \in Worker, NEW o \in Order, CommitConfirm(w, o) PROVE Lifecycle!Next
  <2>1. PICK c \in Cart : c = mine[w] /\ c \in Active /\ view[w] = ItemsOf(c)
    BY <1>6 DEF CommitConfirm, Fresh, Checking, Active
  <2>2. carts[c] = "ACTIVE" /\ carts' = [carts EXCEPT ![c] = "CONVERTED"]
    BY <1>6, <2>1, SeesActive, PublishesOne DEF CommitConfirm, Active
  <2>3. /\ o \notin Placed /\ Placed' = Placed \cup {o}
        /\ \A p \in Placed : orders'[p] = orders[p]
        /\ orders'[o].cart = c /\ orders'[o].lines = ItemsOf(c)
    BY <1>6, <2>1, OnePlaced
  <2>4. OrdersOf(c) = {}
    BY <2>1, <2>2 DEF ConvertedByOrder
  <2>5. OrdersOf(c)' = {o}
    BY <2>3, <2>4 DEF OrdersOf
  <2>6. \A d \in Cart : d # c => OrdersOf(d)' = OrdersOf(d) /\ OrdersOf(d) \subseteq Placed
    BY <2>3 DEF OrdersOf
  <2>7. OrderedOf'[c] = ItemsOf(c)
    BY <2>1, <2>3, <2>5 DEF OrderedOf
  <2>8. ASSUME NEW d \in Cart, d # c PROVE OrderedOf'[d] = OrderedOf[d]
    <3>1. OrdersOf(d)' = OrdersOf(d) /\ \A p \in OrdersOf(d) : orders'[p].lines = orders[p].lines
      BY <2>3, <2>6, <2>8
    <3>2. {orders'[p].lines : p \in OrdersOf(d)'} = {orders[p].lines : p \in OrdersOf(d)}
      BY <3>1
    <3>3. QED
      BY <3>1, <3>2 DEF OrderedOf
  <2>9. OrderedOf' = [OrderedOf EXCEPT ![c] = ItemsOf(c)]
    BY <2>1, <2>7, <2>8 DEF OrderedOf
  <2>10. \A d \in Cart : ItemsOf(d)' = ItemsOf(d)
    BY <1>6 DEF CommitConfirm, ItemsOf
  <2>11. Lifecycle!Convert(c)
    BY <2>1, <2>2, <2>9, <2>10 DEF Lifecycle!Convert
  <2>12. QED
    BY <2>1, <2>11 DEF Lifecycle!Next
<1>7. QED
  BY <1>1, <1>2, <1>4, <1>5, <1>6, Writers

\* Without overlapping requests the handlers do to every cart what CartLifecycle
\* promises: one is open at a time, it is ordered once, as it stands, and is then
\* left alone.
THEOREM SerialRefinement == ASSUME OneAtATime PROVE Spec => ImplementsCartLifecycle
  BY RefinementInit, SerialInductive, RefinementStep, PTL
     DEF Spec, ImplementsCartLifecycle, Lifecycle!Spec
=============================================================================
