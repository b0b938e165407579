--------------------------- MODULE CheckoutProofs ---------------------------
(***************************************************************************)
(* Proofs about module Checkout, for every set of products, prices, rows   *)
(* and workers: IInv is an invariant however the requests interleave and   *)
(* whatever the merchant does, one lemma for each of its conjuncts.        *)
(***************************************************************************)
EXTENDS CheckoutInv, Sums, TLAPS

\* A token is of the kind that its action says.
LEMMA TokenKinds ==
  /\ \A t \in Tokens :
       /\ t.action = "add_item"    => t \in AddTokens
       /\ t.action = "update_item" => t \in UpdateTokens
       /\ t.action = "clear_cart"  => t.target \in Cart
  /\ \A t \in AddTokens :
       t.action = "add_item" /\ t.target \in Product /\ t.quantity \in Quantity /\ t.price \in Price
  /\ \A t \in UpdateTokens :
       t.action = "update_item" /\ t.target \in Item /\ t.quantity \in Quantity /\ t.price \in Price
  BY DEF Tokens, AddTokens, UpdateTokens

\* The rows of a cart have their type, and so has what is loaded for any rows.
LEMMA RowsType ==
  ASSUME TypeOK
  PROVE  /\ \A c : ItemsOf(c) \in SUBSET Rows /\ Load(ItemsOf(c)) \in SUBSET Loaded
         /\ \A p \in Product : Load({[product |-> p]}) \in SUBSET Loaded
<1>1. ASSUME NEW S, \A x \in S : x.product \in Product
      PROVE  Load(S) \in SUBSET Loaded
  BY <1>1 DEF Load, Loaded, TypeOK
<1>2. \A c : ItemsOf(c) \in SUBSET Rows
  BY DEF TypeOK, ItemsOf
<1>3. \A c : \A x \in ItemsOf(c) : x.product \in Product
  BY <1>2 DEF Rows
<1>4. QED
  BY <1>1, <1>2, <1>3

\* Types are kept.
LEMMA TypeStep == TypeOK /\ LocalsOK /\ [Next]_vars => TypeOK'
<1> SUFFICES ASSUME TypeOK, LocalsOK, [Next]_vars PROVE TypeOK'
  OBVIOUS
<1> USE CheckoutAssumption DEF TypeOK, catalog, rows, wallet, locals, PC, CartStatus,
      QuoteStatus, Quantity
<1>1. ASSUME NEW p \in Product, NEW v \in Price, SetPrice(p, v) PROVE TypeOK'
  BY <1>1 DEF SetPrice
<1>2. ASSUME NEW p \in Product, NEW n \in 0 .. MaxStock, SetStock(p, n) PROVE TypeOK'
  BY <1>2 DEF SetStock
<1>3. ASSUME NEW p \in Product, NEW n \in Quantity, RequestAdd(p, n) PROVE TypeOK'
  <2>1. [action |-> "add_item", target |-> p, quantity |-> n, price |-> price[p]] \in Tokens
    BY DEF Tokens, AddTokens
  <2>2. QED
    BY <1>3, <2>1 DEF RequestAdd, Issue
<1>4. ASSUME NEW x \in items, NEW n \in Quantity, RequestUpdate(x, n) PROVE TypeOK'
  <2>1. x \in Rows
    OBVIOUS
  <2>2. x.id \in Item /\ x.product \in Product
    BY <2>1 DEF Rows
  <2>3. [action |-> "update_item", target |-> x.id, quantity |-> n,
         price |-> price[x.product]] \in Tokens
    BY <2>2 DEF Tokens, UpdateTokens
  <2>4. <<x.product, price[x.product]>> \in Product \X Price
    BY <2>2
  <2>5. QED
    BY <1>4, <2>3, <2>4 DEF RequestUpdate, Issue
<1>5. ASSUME NEW x \in items, RequestRemove(x) PROVE TypeOK'
  <2>1. x.id \in Item
    BY DEF Rows
  <2>2. [action |-> "remove_item", target |-> x.id] \in Tokens
    BY <2>1 DEF Tokens
  <2>3. QED
    BY <1>5, <2>2 DEF RequestRemove, Issue
<1>6. ASSUME NEW c \in Cart, RequestClear(c) PROVE TypeOK'
  <2>1. [action |-> "clear_cart", target |-> c] \in Tokens
    BY DEF Tokens
  <2>2. QED
    BY <1>6, <2>1 DEF RequestClear, Issue
<1>7. ASSUME NEW t \in tokens, ExpireToken(t) PROVE TypeOK'
  BY <1>7 DEF ExpireToken
<1>8. ASSUME NEW q \in Quote, Lapse(q) PROVE TypeOK'
  BY <1>8 DEF Lapse
<1>9. ASSUME NEW w \in Worker, NEW t \in tokens, BeginAdd(w, t) PROVE TypeOK'
  <2>1. t \in Tokens /\ t.target \in Product
    BY <1>9, TokenKinds DEF BeginAdd
  <2>2. Load({[product |-> t.target]}) \in SUBSET Loaded
    BY <2>1, RowsType
  <2>3. QED
    BY <1>9, <2>1, <2>2 DEF BeginAdd
<1>10. ASSUME NEW w \in Worker, NEW c \in Cart, AddCart(w, c) PROVE TypeOK'
  <2>1. made' \in [Worker -> SUBSET Cart]
    BY <1>10 DEF AddCart, GetOrCreate
  <2>2. view' \in [Worker -> SUBSET Rows]
    BY <1>10, RowsType DEF AddCart, Merged, ItemsOf
  <2>3. QED
    BY <1>10, <2>1, <2>2 DEF AddCart
<1>11. ASSUME NEW w \in Worker, CommitAdd(w) PROVE TypeOK'
  <2> DEFINE t == asked[w]
  <2>1. t \in AddTokens /\ mine[w] \in Cart
    BY <1>11 DEF CommitAdd, LocalsOK, Adding, Working
  <2>2. t.target \in Product /\ t.quantity \in Nat \ {0} /\ t.quantity <= MaxStock
        /\ t.price \in Price
    BY <2>1 DEF AddTokens
  <2>3. ASSUME NEW x \in view[w], NEW y \in items
        PROVE  Updated(y, x, x.quantity + t.quantity, t.price) \in Rows
    <3>1. x \in Rows /\ y \in Rows
      OBVIOUS
    <3>2. x.quantity + t.quantity \in Quantity
      BY <1>11, <2>2, <3>1 DEF CommitAdd, LocalsOK, Rows
    <3>3. QED
      BY <2>2, <3>1, <3>2 DEF Updated, Rows
  <2>4. \A i \in Item : [id |-> i, cart |-> mine[w], product |-> t.target,
                          quantity |-> t.quantity, price |-> t.price] \in Rows
    BY <2>1, <2>2 DEF Rows
  <2>5. items' \subseteq Rows
    BY <1>11, <2>3, <2>4 DEF CommitAdd
  <2>6. carts' \in [Cart -> CartStatus]
    BY <1>11 DEF CommitAdd, Published
  <2>7. QED
    BY <1>11, <2>5, <2>6 DEF CommitAdd, Finish
<1>12. ASSUME NEW w \in Worker, NEW t \in tokens, BeginUpdate(w, t) PROVE TypeOK'
  BY <1>12 DEF BeginUpdate, Take
<1>13. ASSUME NEW w \in Worker, CommitUpdate(w) PROVE TypeOK'
  <2> DEFINE t == asked[w]
  <2>1. t.quantity \in Quantity /\ t.price \in Price
    BY <1>13, TokenKinds DEF CommitUpdate, LocalsOK, Updating
  <2>2. ASSUME NEW x \in Rows, NEW y \in Rows
        PROVE  Updated(y, x, t.quantity, t.price) \in Rows
    BY <2>1 DEF Updated, Rows
  <2>3. items' \subseteq Rows
    BY <1>13, <2>2 DEF CommitUpdate
  <2>4. QED
    BY <1>13, <2>3 DEF CommitUpdate, Finish
<1>14. ASSUME NEW w \in Worker, NEW t \in tokens, BeginRemove(w, t) PROVE TypeOK'
  BY <1>14 DEF BeginRemove, Take
<1>15. ASSUME NEW w \in Worker, NEW t \in tokens, BeginClear(w, t) PROVE TypeOK'
  <2>1. t \in Tokens
    OBVIOUS
  <2>2. QED
    BY <1>15, <2>1, RowsType DEF BeginClear, Take
<1>16. ASSUME NEW w \in Worker, CommitDelete(w) PROVE TypeOK'
  BY <1>16 DEF CommitDelete, Finish
<1>17. ASSUME NEW w \in Worker, NEW c \in Cart, BeginOpen(w, c) PROVE TypeOK'
  BY <1>17 DEF BeginOpen, GetOrCreate
<1>18. ASSUME NEW w \in Worker, CommitOpen(w) PROVE TypeOK'
  BY <1>18 DEF CommitOpen, Published, Finish
<1>19. ASSUME NEW w \in Worker, NEW c \in Cart, NEW q \in Quote, BeginQuote(w, c, q)
      PROVE  TypeOK'
  BY <1>19, RowsType DEF BeginQuote, Take
<1>20. ASSUME NEW w \in Worker, NEW c \in Cart, ValidateQuote(w, c) PROVE TypeOK'
  BY <1>20 DEF ValidateQuote, Validate, GetOrCreate
<1>21. ASSUME NEW w \in Worker, CommitQuote(w) PROVE TypeOK'
  <2>1. asked[w] \in Quote /\ mine[w] \in Cart
    BY <1>21 DEF CommitQuote, LocalsOK, Quoting, Working
  <2>2. Worth(view[w]) \in Amounts
    BY DEF Amounts
  <2>3. [cart |-> mine[w], subtotal |-> Worth(view[w]), status |-> "ACTIVE"]
          \in [cart : Cart \cup {None}, subtotal : Amounts, status : QuoteStatus]
    BY <2>1, <2>2
  <2>4. quotes' \in [Quote -> [cart : Cart \cup {None}, subtotal : Amounts, status : QuoteStatus]]
    BY <1>21, <2>3 DEF CommitQuote
  <2>5. carts' \in [Cart -> CartStatus]
    BY <1>21 DEF CommitQuote, Published
  <2>6. QED
    BY <1>21, <2>4, <2>5 DEF CommitQuote, Finish
<1>22. ASSUME NEW w \in Worker, NEW q \in Quote, BeginConfirm(w, q) PROVE TypeOK'
  BY <1>22 DEF BeginConfirm
<1>23. ASSUME NEW w \in Worker, NEW c \in Cart, ConfirmCart(w, c) PROVE TypeOK'
  <2>1. made' \in [Worker -> SUBSET Cart]
    BY <1>23 DEF ConfirmCart, GetOrCreate
  <2>2. QED
    BY <1>23, <2>1, RowsType DEF ConfirmCart
<1>24. ASSUME NEW w \in Worker, NEW c \in Cart, ValidateConfirm(w, c) PROVE TypeOK'
  BY <1>24 DEF ValidateConfirm, Validate, GetOrCreate
<1>25. ASSUME NEW w \in Worker, NEW o \in Order, CommitConfirm(w, o) PROVE TypeOK'
  <2> DEFINE q == asked[w]
  <2>1. q \in Quote /\ mine[w] \in Cart
    BY <1>25 DEF CommitConfirm, LocalsOK, Confirming, Working
  <2>2. [quote |-> q, cart |-> mine[w], subtotal |-> quotes[q].subtotal, lines |-> view[w]]
          \in OrderRows
    BY <2>1 DEF OrderRows
  <2>3. orders' \in [Order -> OrderRows \cup {None}]
    BY <1>25, <2>2 DEF CommitConfirm
  <2>4. quotes' \in [Quote -> [cart : Cart \cup {None}, subtotal : Amounts, status : QuoteStatus]]
    BY <1>25, <2>1 DEF CommitConfirm
  <2>5. carts' \in [Cart -> CartStatus]
    BY <1>25, <2>1 DEF CommitConfirm, Published
  <2>6. QED
    BY <1>25, <2>3, <2>4, <2>5 DEF CommitConfirm, Finish
<1>26. ASSUME NEW w \in Worker, Abort(w) PROVE TypeOK'
  BY <1>26 DEF Abort, Finish
<1>27. CASE UNCHANGED vars
  BY <1>27 DEF vars
<1>28. QED
  BY <1>1, <1>2, <1>3, <1>4, <1>5, <1>6, <1>7, <1>8, <1>9, <1>10, <1>11, <1>12, <1>13,
     <1>14, <1>15, <1>16, <1>17, <1>18, <1>19, <1>20, <1>21, <1>22, <1>23, <1>24, <1>25,
     <1>26, <1>27 DEF Next, Environment, CartStep, CheckoutStep

\* A request has what its next step needs.
LEMMA LocalsStep == TypeOK /\ LocalsOK /\ [Next]_vars => LocalsOK'
<1> SUFFICES ASSUME TypeOK, LocalsOK, [Next]_vars PROVE LocalsOK'
  OBVIOUS
<1> USE TokenKinds DEF TypeOK, LocalsOK, Adding, Updating, Quoting, Confirming, Working,
      catalog, rows, wallet, locals
<1>1. ASSUME NEW p \in Product, NEW v \in Price, SetPrice(p, v) PROVE LocalsOK'
  BY <1>1 DEF SetPrice
<1>2. ASSUME NEW p \in Product, NEW n \in 0 .. MaxStock, SetStock(p, n) PROVE LocalsOK'
  BY <1>2 DEF SetStock
<1>3. ASSUME NEW p \in Product, NEW n \in Quantity, RequestAdd(p, n) PROVE LocalsOK'
  BY <1>3 DEF RequestAdd, Issue
<1>4. ASSUME NEW x \in items, NEW n \in Quantity, RequestUpdate(x, n) PROVE LocalsOK'
  BY <1>4 DEF RequestUpdate, Issue
<1>5. ASSUME NEW x \in items, RequestRemove(x) PROVE LocalsOK'
  BY <1>5 DEF RequestRemove, Issue
<1>6. ASSUME NEW c \in Cart, RequestClear(c) PROVE LocalsOK'
  BY <1>6 DEF RequestClear, Issue
<1>7. ASSUME NEW t \in tokens, ExpireToken(t) PROVE LocalsOK'
  BY <1>7 DEF ExpireToken
<1>8. ASSUME NEW q \in Quote, Lapse(q) PROVE LocalsOK'
  BY <1>8 DEF Lapse
<1>9. ASSUME NEW w \in Worker, NEW t \in tokens, BeginAdd(w, t) PROVE LocalsOK'
  BY <1>9 DEF BeginAdd
<1>10. ASSUME NEW w \in Worker, NEW c \in Cart, AddCart(w, c) PROVE LocalsOK'
  <2>1. \A x \in view'[w] :
          x.product = asked[w].target /\ x.quantity + asked[w].quantity <= MaxStock
    <3>1. \A k \in known[w] : k.stock \in 0 .. MaxStock
      BY DEF Loaded
    <3>2. asked[w].quantity \in Nat /\ \A x \in ItemsOf(c) : x.quantity \in Nat
      BY <1>10, RowsType DEF AddCart, AddTokens, Rows, Quantity
    <3>3. QED
      BY <1>10, <3>1, <3>2, CheckoutAssumption DEF AddCart, Merged
  <2>2. \A v \in Worker \ {w} : pc'[v] = pc[v] /\ mine'[v] = mine[v] /\ view'[v] = view[v]
    BY <1>10 DEF AddCart, Merged
  <2>3. pc'[w] = "add_commit" /\ mine'[w] = c /\ asked' = asked
    BY <1>10 DEF AddCart
  <2>4. asked[w] \in AddTokens
    BY <1>10 DEF AddCart
  <2>5. QED
    BY <2>1, <2>2, <2>3, <2>4
<1>11. ASSUME NEW w \in Worker, CommitAdd(w) PROVE LocalsOK'
  BY <1>11 DEF CommitAdd, Published, Finish
<1>12. ASSUME NEW w \in Worker, NEW t \in tokens, BeginUpdate(w, t) PROVE LocalsOK'
  BY <1>12 DEF BeginUpdate, Take
<1>13. ASSUME NEW w \in Worker, CommitUpdate(w) PROVE LocalsOK'
  BY <1>13 DEF CommitUpdate, Finish
<1>14. ASSUME NEW w \in Worker, NEW t \in tokens, BeginRemove(w, t) PROVE LocalsOK'
  BY <1>14 DEF BeginRemove, Take
<1>15. ASSUME NEW w \in Worker, NEW t \in tokens, BeginClear(w, t) PROVE LocalsOK'
  BY <1>15 DEF BeginClear, Take
<1>16. ASSUME NEW w \in Worker, CommitDelete(w) PROVE LocalsOK'
  BY <1>16 DEF CommitDelete, Finish
<1>17. ASSUME NEW w \in Worker, NEW c \in Cart, BeginOpen(w, c) PROVE LocalsOK'
  BY <1>17 DEF BeginOpen, GetOrCreate
<1>18. ASSUME NEW w \in Worker, CommitOpen(w) PROVE LocalsOK'
  BY <1>18 DEF CommitOpen, Published, Finish
<1>19. ASSUME NEW w \in Worker, NEW c \in Cart, NEW q \in Quote, BeginQuote(w, c, q)
      PROVE  LocalsOK'
  BY <1>19 DEF BeginQuote, Take, NewQuote
<1>20. ASSUME NEW w \in Worker, NEW c \in Cart, ValidateQuote(w, c) PROVE LocalsOK'
  BY <1>20 DEF ValidateQuote, Validate, GetOrCreate
<1>21. ASSUME NEW w \in Worker, CommitQuote(w) PROVE LocalsOK'
  BY <1>21 DEF CommitQuote, Published, Finish
<1>22. ASSUME NEW w \in Worker, NEW q \in Quote, BeginConfirm(w, q) PROVE LocalsOK'
  BY <1>22 DEF BeginConfirm
<1>23. ASSUME NEW w \in Worker, NEW c \in Cart, ConfirmCart(w, c) PROVE LocalsOK'
  BY <1>23 DEF ConfirmCart, GetOrCreate
<1>24. ASSUME NEW w \in Worker, NEW c \in Cart, ValidateConfirm(w, c) PROVE LocalsOK'
  BY <1>24 DEF ValidateConfirm, Validate, GetOrCreate
<1>25. ASSUME NEW w \in Worker, NEW o \in Order, CommitConfirm(w, o) PROVE LocalsOK'
  BY <1>25 DEF CommitConfirm, Published, Finish
<1>26. ASSUME NEW w \in Worker, Abort(w) PROVE LocalsOK'
  BY <1>26 DEF Abort, Finish
<1>27. CASE UNCHANGED vars
  BY <1>27 DEF vars
<1>28. QED
  BY <1>1, <1>2, <1>3, <1>4, <1>5, <1>6, <1>7, <1>8, <1>9, <1>10, <1>11, <1>12, <1>13,
     <1>14, <1>15, <1>16, <1>17, <1>18, <1>19, <1>20, <1>21, <1>22, <1>23, <1>24, <1>25,
     <1>26, <1>27 DEF Next, Environment, CartStep, CheckoutStep

\* A request that works on a cart has found it ACTIVE.
LEMMA TakesActive ==
  ASSUME NEW w, NEW t, NEW S, NEW next, Take(w, t, S, next)
  PROVE  \E c \in Cart : carts[c] = "ACTIVE" /\ mine' = [mine EXCEPT ![w] = c]
<1>1. PICK c \in Cart : Active = {c} /\ mine' = [mine EXCEPT ![w] = c]
  BY DEF Take
<1>2. carts[c] = "ACTIVE"
  BY <1>1 DEF Active
<1>3. QED
  BY <1>1, <1>2

\* Every cart a request works on is its own or committed: no other request can
\* insert the same one.
LEMMA CartsStep == TypeOK /\ LocalsOK /\ CartsOwned /\ [Next]_vars => CartsOwned'
<1> SUFFICES ASSUME TypeOK, LocalsOK, CartsOwned, [Next]_vars PROVE CartsOwned'
  OBVIOUS
<1> USE DEF TypeOK, LocalsOK, CartsOwned, Working, NewCart, catalog, rows, wallet, locals
<1>1. ASSUME NEW p \in Product, NEW v \in Price, SetPrice(p, v) PROVE CartsOwned'
  BY <1>1 DEF SetPrice
<1>2. ASSUME NEW p \in Product, NEW n \in 0 .. MaxStock, SetStock(p, n) PROVE CartsOwned'
  BY <1>2 DEF SetStock
<1>3. ASSUME NEW p \in Product, NEW n \in Quantity, RequestAdd(p, n) PROVE CartsOwned'
  BY <1>3 DEF RequestAdd, Issue
<1>4. ASSUME NEW x \in items, NEW n \in Quantity, RequestUpdate(x, n) PROVE CartsOwned'
  BY <1>4 DEF RequestUpdate, Issue
<1>5. ASSUME NEW x \in items, RequestRemove(x) PROVE CartsOwned'
  BY <1>5 DEF RequestRemove, Issue
<1>6. ASSUME NEW c \in Cart, RequestClear(c) PROVE CartsOwned'
  BY <1>6 DEF RequestClear, Issue
<1>7. ASSUME NEW t \in tokens, ExpireToken(t) PROVE CartsOwned'
  BY <1>7 DEF ExpireToken
<1>8. ASSUME NEW q \in Quote, Lapse(q) PROVE CartsOwned'
  BY <1>8 DEF Lapse
<1>9. ASSUME NEW w \in Worker, NEW t \in tokens, BeginAdd(w, t) PROVE CartsOwned'
  BY <1>9 DEF BeginAdd
<1>10. ASSUME NEW w \in Worker, NEW c \in Cart, AddCart(w, c) PROVE CartsOwned'
  <2>1. CASE made' = made /\ (carts[c] = "ACTIVE" \/ c \in made[w])
    BY <1>10, <2>1 DEF AddCart
  <2>2. CASE NewCart(c) /\ made' = [made EXCEPT ![w] = {c}]
    BY <1>10, <2>2 DEF AddCart
  <2>3. QED
    BY <1>10, <2>1, <2>2 DEF AddCart, GetOrCreate, Active
<1>11. ASSUME NEW w \in Worker, CommitAdd(w) PROVE CartsOwned'
  <2>1. \A v \in Worker \ {w} : made'[v] = made[v] /\ pc'[v] = pc[v] /\ mine'[v] = mine[v]
    BY <1>11 DEF CommitAdd, Finish
  <2>2. made'[w] = {} /\ pc'[w] = "idle"
    BY <1>11 DEF CommitAdd, Finish
  <2>3. \A c \in Cart : carts'[c] = IF c \in made[w] THEN "ACTIVE" ELSE carts[c]
    BY <1>11 DEF CommitAdd, Published
  <2>4. QED
    BY <2>1, <2>2, <2>3
<1>12. ASSUME NEW w \in Worker, NEW t \in tokens, BeginUpdate(w, t) PROVE CartsOwned'
  <2>1. \E d \in Cart : carts[d] = "ACTIVE" /\ mine' = [mine EXCEPT ![w] = d]
    BY <1>12, TakesActive DEF BeginUpdate
  <2>2. QED
    BY <1>12, <2>1 DEF BeginUpdate, Take
<1>13. ASSUME NEW w \in Worker, CommitUpdate(w) PROVE CartsOwned'
  BY <1>13 DEF CommitUpdate, Finish
<1>14. ASSUME NEW w \in Worker, NEW t \in tokens, BeginRemove(w, t) PROVE CartsOwned'
  <2>1. \E d \in Cart : carts[d] = "ACTIVE" /\ mine' = [mine EXCEPT ![w] = d]
    BY <1>14, TakesActive DEF BeginRemove
  <2>2. QED
    BY <1>14, <2>1 DEF BeginRemove, Take
<1>15. ASSUME NEW w \in Worker, NEW t \in tokens, BeginClear(w, t) PROVE CartsOwned'
  <2>1. \E d \in Cart : carts[d] = "ACTIVE" /\ mine' = [mine EXCEPT ![w] = d]
    BY <1>15, TakesActive DEF BeginClear
  <2>2. QED
    BY <1>15, <2>1 DEF BeginClear, Take
<1>16. ASSUME NEW w \in Worker, CommitDelete(w) PROVE CartsOwned'
  BY <1>16 DEF CommitDelete, Finish
<1>17. ASSUME NEW w \in Worker, NEW c \in Cart, BeginOpen(w, c) PROVE CartsOwned'
  BY <1>17 DEF BeginOpen, GetOrCreate
<1>18. ASSUME NEW w \in Worker, CommitOpen(w) PROVE CartsOwned'
  <2>1. \A v \in Worker \ {w} : made'[v] = made[v] /\ pc'[v] = pc[v] /\ mine'[v] = mine[v]
    BY <1>18 DEF CommitOpen, Finish
  <2>2. made'[w] = {} /\ pc'[w] = "idle"
    BY <1>18 DEF CommitOpen, Finish
  <2>3. \A c \in Cart : carts'[c] = IF c \in made[w] THEN "ACTIVE" ELSE carts[c]
    BY <1>18 DEF CommitOpen, Published
  <2>4. QED
    BY <2>1, <2>2, <2>3
<1>19. ASSUME NEW w \in Worker, NEW c \in Cart, NEW q \in Quote, BeginQuote(w, c, q)
      PROVE  CartsOwned'
  <2>1. \E d \in Cart : carts[d] = "ACTIVE" /\ mine' = [mine EXCEPT ![w] = d]
    BY <1>19, TakesActive DEF BeginQuote
  <2>2. QED
    BY <1>19, <2>1 DEF BeginQuote, Take
<1>20. ASSUME NEW w \in Worker, NEW c \in Cart, ValidateQuote(w, c) PROVE CartsOwned'
  BY <1>20 DEF ValidateQuote, Validate, GetOrCreate
<1>21. ASSUME NEW w \in Worker, CommitQuote(w) PROVE CartsOwned'
  <2>1. \A v \in Worker \ {w} : made'[v] = made[v] /\ pc'[v] = pc[v] /\ mine'[v] = mine[v]
    BY <1>21 DEF CommitQuote, Finish
  <2>2. made'[w] = {} /\ pc'[w] = "idle"
    BY <1>21 DEF CommitQuote, Finish
  <2>3. \A c \in Cart : carts'[c] = IF c \in made[w] THEN "ACTIVE" ELSE carts[c]
    BY <1>21 DEF CommitQuote, Published
  <2>4. QED
    BY <2>1, <2>2, <2>3
<1>22. ASSUME NEW w \in Worker, NEW q \in Quote, BeginConfirm(w, q) PROVE CartsOwned'
  BY <1>22 DEF BeginConfirm
<1>23. ASSUME NEW w \in Worker, NEW c \in Cart, ConfirmCart(w, c) PROVE CartsOwned'
  <2>1. CASE made' = made /\ (carts[c] = "ACTIVE" \/ c \in made[w])
    BY <1>23, <2>1 DEF ConfirmCart
  <2>2. CASE NewCart(c) /\ made' = [made EXCEPT ![w] = {c}]
    BY <1>23, <2>2 DEF ConfirmCart
  <2>3. QED
    BY <1>23, <2>1, <2>2 DEF ConfirmCart, GetOrCreate, Active
<1>24. ASSUME NEW w \in Worker, NEW c \in Cart, ValidateConfirm(w, c) PROVE CartsOwned'
  BY <1>24 DEF ValidateConfirm, Validate, GetOrCreate
<1>25. ASSUME NEW w \in Worker, NEW o \in Order, CommitConfirm(w, o) PROVE CartsOwned'
  <2>1. \A v \in Worker \ {w} : made'[v] = made[v] /\ pc'[v] = pc[v] /\ mine'[v] = mine[v]
    BY <1>25 DEF CommitConfirm, Finish
  <2>2. made'[w] = {} /\ pc'[w] = "idle"
    BY <1>25 DEF CommitConfirm, Finish
  <2>3. \A c \in Cart : 
          carts'[c] = IF c = mine[w] THEN "CONVERTED"
                      ELSE IF c \in made[w] THEN "ACTIVE" ELSE carts[c]
    BY <1>25 DEF CommitConfirm, Published
  <2>4. QED
    BY <1>25, <2>1, <2>2, <2>3 DEF CommitConfirm
<1>26. ASSUME NEW w \in Worker, Abort(w) PROVE CartsOwned'
  BY <1>26 DEF Abort, Finish
<1>27. CASE UNCHANGED vars
  BY <1>27 DEF vars
<1>28. QED
  BY <1>1, <1>2, <1>3, <1>4, <1>5, <1>6, <1>7, <1>8, <1>9, <1>10, <1>11, <1>12, <1>13,
     <1>14, <1>15, <1>16, <1>17, <1>18, <1>19, <1>20, <1>21, <1>22, <1>23, <1>24, <1>25,
     <1>26, <1>27 DEF Next, Environment, CartStep, CheckoutStep

\* No two requests make the same quote, and a quote keeps its cart.
LEMMA QuotesStep == TypeOK /\ LocalsOK /\ QuotesOwned /\ [Next]_vars => QuotesOwned'
<1> SUFFICES ASSUME TypeOK, LocalsOK, QuotesOwned, [Next]_vars PROVE QuotesOwned'
  OBVIOUS
<1> USE DEF TypeOK, LocalsOK, QuotesOwned, Quoting, Confirming, Working, catalog, rows,
      wallet, locals
<1>1. ASSUME NEW p \in Product, NEW v \in Price, SetPrice(p, v) PROVE QuotesOwned'
  BY <1>1 DEF SetPrice
<1>2. ASSUME NEW p \in Product, NEW n \in 0 .. MaxStock, SetStock(p, n) PROVE QuotesOwned'
  BY <1>2 DEF SetStock
<1>3. ASSUME NEW p \in Product, NEW n \in Quantity, RequestAdd(p, n) PROVE QuotesOwned'
  BY <1>3 DEF RequestAdd, Issue
<1>4. ASSUME NEW x \in items, NEW n \in Quantity, RequestUpdate(x, n) PROVE QuotesOwned'
  BY <1>4 DEF RequestUpdate, Issue
<1>5. ASSUME NEW x \in items, RequestRemove(x) PROVE QuotesOwned'
  BY <1>5 DEF RequestRemove, Issue
<1>6. ASSUME NEW c \in Cart, RequestClear(c) PROVE QuotesOwned'
  BY <1>6 DEF RequestClear, Issue
<1>7. ASSUME NEW t \in tokens, ExpireToken(t) PROVE QuotesOwned'
  BY <1>7 DEF ExpireToken
<1>8. ASSUME NEW q \in Quote, Lapse(q) PROVE QuotesOwned'
  BY <1>8 DEF Lapse
<1>9. ASSUME NEW w \in Worker, NEW t \in tokens, BeginAdd(w, t) PROVE QuotesOwned'
  BY <1>9 DEF BeginAdd
<1>10. ASSUME NEW w \in Worker, NEW c \in Cart, AddCart(w, c) PROVE QuotesOwned'
  BY <1>10 DEF AddCart, GetOrCreate, Merged
<1>11. ASSUME NEW w \in Worker, CommitAdd(w) PROVE QuotesOwned'
  BY <1>11 DEF CommitAdd, Published, Finish
<1>12. ASSUME NEW w \in Worker, NEW t \in tokens, BeginUpdate(w, t) PROVE QuotesOwned'
  BY <1>12 DEF BeginUpdate, Take
<1>13. ASSUME NEW w \in Worker, CommitUpdate(w) PROVE QuotesOwned'
  BY <1>13 DEF CommitUpdate, Finish
<1>14. ASSUME NEW w \in Worker, NEW t \in tokens, BeginRemove(w, t) PROVE QuotesOwned'
  BY <1>14 DEF BeginRemove, Take
<1>15. ASSUME NEW w \in Worker, NEW t \in tokens, BeginClear(w, t) PROVE QuotesOwned'
  BY <1>15 DEF BeginClear, Take
<1>16. ASSUME NEW w \in Worker, CommitDelete(w) PROVE QuotesOwned'
  BY <1>16 DEF CommitDelete, Finish
<1>17. ASSUME NEW w \in Worker, NEW c \in Cart, BeginOpen(w, c) PROVE QuotesOwned'
  BY <1>17 DEF BeginOpen, GetOrCreate
<1>18. ASSUME NEW w \in Worker, CommitOpen(w) PROVE QuotesOwned'
  BY <1>18 DEF CommitOpen, Published, Finish
<1>19. ASSUME NEW w \in Worker, NEW c \in Cart, NEW q \in Quote, BeginQuote(w, c, q)
      PROVE  QuotesOwned'
  BY <1>19 DEF BeginQuote, Take, NewQuote, NewQuote
<1>20. ASSUME NEW w \in Worker, NEW c \in Cart, ValidateQuote(w, c) PROVE QuotesOwned'
  BY <1>20 DEF ValidateQuote, Validate, GetOrCreate
<1>21. ASSUME NEW w \in Worker, CommitQuote(w) PROVE QuotesOwned'
  <2>1. \A v \in Worker \ {w} : asked'[v] = asked[v] /\ pc'[v] = pc[v] /\ mine'[v] = mine[v]
    BY <1>21 DEF CommitQuote, Finish
  <2>2. pc'[w] = "idle"
    BY <1>21 DEF CommitQuote, Finish
  <2>3. asked[w] \in Quote /\ quotes[asked[w]] = NoQuote
    BY <1>21 DEF CommitQuote
  <2>4. quotes'[asked[w]].status = "ACTIVE" /\ \A q \in Quote \ {asked[w]} : quotes'[q] = quotes[q]
    BY <1>21, <2>3 DEF CommitQuote
  <2>5. \A v \in Worker \ {w} : Quoting(v) \/ Confirming(v) => asked[v] # asked[w]
    BY <1>21, <2>3 DEF CommitQuote, NoQuote
  <2>6. QED
    BY <2>1, <2>2, <2>4, <2>5
<1>22. ASSUME NEW w \in Worker, NEW q \in Quote, BeginConfirm(w, q) PROVE QuotesOwned'
  BY <1>22 DEF BeginConfirm
<1>23. ASSUME NEW w \in Worker, NEW c \in Cart, ConfirmCart(w, c) PROVE QuotesOwned'
  BY <1>23 DEF ConfirmCart, GetOrCreate
<1>24. ASSUME NEW w \in Worker, NEW c \in Cart, ValidateConfirm(w, c) PROVE QuotesOwned'
  BY <1>24 DEF ValidateConfirm, Validate, GetOrCreate
<1>25. ASSUME NEW w \in Worker, NEW o \in Order, CommitConfirm(w, o) PROVE QuotesOwned'
  <2>1. \A v \in Worker \ {w} : asked'[v] = asked[v] /\ pc'[v] = pc[v] /\ mine'[v] = mine[v]
    BY <1>25 DEF CommitConfirm, Finish
  <2>2. pc'[w] = "idle"
    BY <1>25 DEF CommitConfirm, Finish
  <2>3. asked[w] \in Quote /\ quotes[asked[w]].status # "NONE"
    BY <1>25 DEF CommitConfirm
  <2>4. /\ quotes'[asked[w]].status = "CONFIRMED" /\ quotes'[asked[w]].cart = quotes[asked[w]].cart
        /\ \A q \in Quote \ {asked[w]} : quotes'[q] = quotes[q]
    BY <1>25, <2>3 DEF CommitConfirm
  <2>5. \A v \in Worker \ {w} : Quoting(v) => asked[v] # asked[w]
    BY <2>3 DEF NoQuote
  <2>6. \A v \in Worker : Confirming(v) => /\ quotes'[asked[v]].status # "NONE"
                                       /\ quotes'[asked[v]].cart = quotes[asked[v]].cart
    BY <2>4
  <2>7. \A v \in Worker : Quoting(v)' \/ Confirming(v)' =>
          v # w /\ asked'[v] = asked[v]
          /\ mine'[v] = mine[v] /\ pc'[v] = pc[v] /\ asked[v] \in Quote
    BY <2>1, <2>2
  <2>8. \A v \in Worker : Quoting(v)' => quotes'[asked'[v]] = NoQuote
    BY <2>4, <2>5, <2>7
  <2>9. QED
    BY <2>6, <2>7, <2>8
<1>26. ASSUME NEW w \in Worker, Abort(w) PROVE QuotesOwned'
  BY <1>26 DEF Abort, Finish
<1>27. CASE UNCHANGED vars
  BY <1>27 DEF vars
<1>28. QED
  BY <1>1, <1>2, <1>3, <1>4, <1>5, <1>6, <1>7, <1>8, <1>9, <1>10, <1>11, <1>12, <1>13,
     <1>14, <1>15, <1>16, <1>17, <1>18, <1>19, <1>20, <1>21, <1>22, <1>23, <1>24, <1>25,
     <1>26, <1>27 DEF Next, Environment, CartStep, CheckoutStep

\* An UPDATE leaves a row its identifier, its cart and its product.
LEMMA UpdatedKeeps ==
  ASSUME NEW y \in Rows, NEW x, NEW n, NEW v
  PROVE  LET z == Updated(y, x, n, v) IN
         z.id = y.id /\ z.cart = y.cart /\ z.product = y.product /\ z.price \in {y.price, v}
                     /\ (z.price = y.price => x.price = v \/ y.price = v)
  BY DEF Updated, Rows

\* No identifier comes to stand for another row or another product.
LEMMA IdsStep == TypeOK /\ IdsUnique /\ [Next]_vars => IdsUnique'
<1> SUFFICES ASSUME TypeOK, IdsUnique, [Next]_vars PROVE IdsUnique'
  OBVIOUS
<1> USE DEF TypeOK, IdsUnique, catalog, rows, wallet, locals
<1>1. ASSUME NEW p \in Product, NEW v \in Price, SetPrice(p, v) PROVE IdsUnique'
  BY <1>1 DEF SetPrice
<1>2. ASSUME NEW p \in Product, NEW n \in 0 .. MaxStock, SetStock(p, n) PROVE IdsUnique'
  BY <1>2 DEF SetStock
<1>3. ASSUME NEW p \in Product, NEW n \in Quantity, RequestAdd(p, n) PROVE IdsUnique'
  BY <1>3 DEF RequestAdd, Issue
<1>4. ASSUME NEW x \in items, NEW n \in Quantity, RequestUpdate(x, n) PROVE IdsUnique'
  BY <1>4 DEF RequestUpdate, Issue
<1>5. ASSUME NEW x \in items, RequestRemove(x) PROVE IdsUnique'
  BY <1>5 DEF RequestRemove, Issue
<1>6. ASSUME NEW c \in Cart, RequestClear(c) PROVE IdsUnique'
  BY <1>6 DEF RequestClear, Issue
<1>7. ASSUME NEW t \in tokens, ExpireToken(t) PROVE IdsUnique'
  BY <1>7 DEF ExpireToken
<1>8. ASSUME NEW q \in Quote, Lapse(q) PROVE IdsUnique'
  BY <1>8 DEF Lapse
<1>9. ASSUME NEW w \in Worker, NEW t \in tokens, BeginAdd(w, t) PROVE IdsUnique'
  BY <1>9 DEF BeginAdd
<1>10. ASSUME NEW w \in Worker, NEW c \in Cart, AddCart(w, c) PROVE IdsUnique'
  <2>1. view'[w] \subseteq items /\ \A v \in Worker \ {w} : view'[v] = view[v]
    BY <1>10 DEF AddCart, Merged, ItemsOf
  <2>2. items' = items
    BY <1>10 DEF AddCart
  <2>3. QED
    BY <2>1, <2>2
<1>11. ASSUME NEW w \in Worker, CommitAdd(w) PROVE IdsUnique'
  <2> DEFINE t == asked[w]
  <2>1. view'[w] = {} /\ \A v \in Worker \ {w} : view'[v] = view[v]
    BY <1>11 DEF CommitAdd, Finish
  <2>2. ASSUME NEW x \in view[w], NEW y \in items,
               items' = (items \ {y}) \cup {Updated(y, x, x.quantity + t.quantity, t.price)}
        PROVE  IdsUnique'
    <3> DEFINE z == Updated(y, x, x.quantity + t.quantity, t.price)
    <3>1. y \in Rows
      OBVIOUS
    <3>2. z.id = y.id /\ z.product = y.product
      BY <3>1, UpdatedKeeps
    <3>3. \A a \in items' : a = z \/ (a \in items /\ a.id # y.id)
      BY <2>2
    <3>4. \A a, b \in items' : a.id = b.id => a = b
      BY <3>2, <3>3
    <3>5. \A a \in items' : \E b \in items : a.id = b.id /\ a.product = b.product
      BY <3>2, <3>3
    <3>6. \A v \in Worker : view'[v] \subseteq view[v]
      BY <2>1
    <3>7. QED
      BY <3>4, <3>5, <3>6
  <2>3. ASSUME NEW i \in Item, NewItem(i),
               items' = items \cup {[id |-> i, cart |-> mine[w], product |-> t.target,
                                     quantity |-> t.quantity, price |-> t.price]}
        PROVE  IdsUnique'
    BY <2>1, <2>3 DEF NewItem
  <2>4. QED
    BY <1>11, <2>2, <2>3 DEF CommitAdd
<1>12. ASSUME NEW w \in Worker, NEW t \in tokens, BeginUpdate(w, t) PROVE IdsUnique'
  BY <1>12 DEF BeginUpdate, Take
<1>13. ASSUME NEW w \in Worker, CommitUpdate(w) PROVE IdsUnique'
  <2> DEFINE t == asked[w]
  <2>1. view'[w] = {} /\ \A v \in Worker \ {w} : view'[v] = view[v]
    BY <1>13 DEF CommitUpdate, Finish
  <2>2. ASSUME NEW x \in view[w], NEW y \in items,
               items' = (items \ {y}) \cup {Updated(y, x, t.quantity, t.price)}
        PROVE  IdsUnique'
    <3> DEFINE z == Updated(y, x, t.quantity, t.price)
    <3>1. y \in Rows
      OBVIOUS
    <3>2. z.id = y.id /\ z.product = y.product
      BY <3>1, UpdatedKeeps
    <3>3. \A a \in items' : a = z \/ (a \in items /\ a.id # y.id)
      BY <2>2
    <3>4. \A a, b \in items' : a.id = b.id => a = b
      BY <3>2, <3>3
    <3>5. \A a \in items' : \E b \in items : a.id = b.id /\ a.product = b.product
      BY <3>2, <3>3
    <3>6. \A v \in Worker : view'[v] \subseteq view[v]
      BY <2>1
    <3>7. QED
      BY <3>4, <3>5, <3>6
  <2>3. QED
    BY <1>13, <2>2 DEF CommitUpdate
<1>14. ASSUME NEW w \in Worker, NEW t \in tokens, BeginRemove(w, t) PROVE IdsUnique'
  BY <1>14 DEF BeginRemove, Take
<1>15. ASSUME NEW w \in Worker, NEW t \in tokens, BeginClear(w, t) PROVE IdsUnique'
  <2>1. view'[w] \subseteq items /\ \A v \in Worker \ {w} : view'[v] = view[v]
    BY <1>15 DEF BeginClear, Take, ItemsOf
  <2>2. items' = items
    BY <1>15 DEF BeginClear, Take
  <2>3. QED
    BY <2>1, <2>2
<1>16. ASSUME NEW w \in Worker, CommitDelete(w) PROVE IdsUnique'
  BY <1>16 DEF CommitDelete, Finish
<1>17. ASSUME NEW w \in Worker, NEW c \in Cart, BeginOpen(w, c) PROVE IdsUnique'
  BY <1>17 DEF BeginOpen, GetOrCreate
<1>18. ASSUME NEW w \in Worker, CommitOpen(w) PROVE IdsUnique'
  BY <1>18 DEF CommitOpen, Published, Finish
<1>19. ASSUME NEW w \in Worker, NEW c \in Cart, NEW q \in Quote, BeginQuote(w, c, q)
      PROVE  IdsUnique'
  <2>1. view'[w] \subseteq items /\ \A v \in Worker \ {w} : view'[v] = view[v]
    BY <1>19 DEF BeginQuote, Take, ItemsOf
  <2>2. items' = items
    BY <1>19 DEF BeginQuote, Take
  <2>3. QED
    BY <2>1, <2>2
<1>20. ASSUME NEW w \in Worker, NEW c \in Cart, ValidateQuote(w, c) PROVE IdsUnique'
  BY <1>20 DEF ValidateQuote, Validate, GetOrCreate
<1>21. ASSUME NEW w \in Worker, CommitQuote(w) PROVE IdsUnique'
  BY <1>21 DEF CommitQuote, Published, Finish
<1>22. ASSUME NEW w \in Worker, NEW q \in Quote, BeginConfirm(w, q) PROVE IdsUnique'
  BY <1>22 DEF BeginConfirm
<1>23. ASSUME NEW w \in Worker, NEW c \in Cart, ConfirmCart(w, c) PROVE IdsUnique'
  <2>1. view'[w] \subseteq items /\ \A v \in Worker \ {w} : view'[v] = view[v]
    BY <1>23 DEF ConfirmCart, ItemsOf
  <2>2. items' = items
    BY <1>23 DEF ConfirmCart
  <2>3. QED
    BY <2>1, <2>2
<1>24. ASSUME NEW w \in Worker, NEW c \in Cart, ValidateConfirm(w, c) PROVE IdsUnique'
  BY <1>24 DEF ValidateConfirm, Validate, GetOrCreate
<1>25. ASSUME NEW w \in Worker, NEW o \in Order, CommitConfirm(w, o) PROVE IdsUnique'
  BY <1>25 DEF CommitConfirm, Published, Finish
<1>26. ASSUME NEW w \in Worker, Abort(w) PROVE IdsUnique'
  BY <1>26 DEF Abort, Finish
<1>27. CASE UNCHANGED vars
  BY <1>27 DEF vars
<1>28. QED
  BY <1>1, <1>2, <1>3, <1>4, <1>5, <1>6, <1>7, <1>8, <1>9, <1>10, <1>11, <1>12, <1>13,
     <1>14, <1>15, <1>16, <1>17, <1>18, <1>19, <1>20, <1>21, <1>22, <1>23, <1>24, <1>25,
     <1>26, <1>27 DEF Next, Environment, CartStep, CheckoutStep

\* Tokens, and the rows that requests have read, hold prices that were shown.
LEMMA TokensStep ==
  TypeOK /\ LocalsOK /\ IdsUnique /\ PricesWereShown /\ TokensShown /\ [Next]_vars
    => TokensShown'
<1> SUFFICES ASSUME TypeOK, LocalsOK, IdsUnique, PricesWereShown, TokensShown, [Next]_vars
             PROVE  TokensShown'
  OBVIOUS
<1> USE TokenKinds DEF TypeOK, LocalsOK, TokensShown, Honest, Adding, Updating, catalog,
      rows, wallet, locals
<1>1. ASSUME NEW p \in Product, NEW v \in Price, SetPrice(p, v) PROVE TokensShown'
  BY <1>1 DEF SetPrice
<1>2. ASSUME NEW p \in Product, NEW n \in 0 .. MaxStock, SetStock(p, n) PROVE TokensShown'
  BY <1>2 DEF SetStock
<1>3. ASSUME NEW p \in Product, NEW n \in Quantity, RequestAdd(p, n) PROVE TokensShown'
  BY <1>3 DEF RequestAdd, Issue
<1>4. ASSUME NEW x \in items, NEW n \in Quantity, RequestUpdate(x, n) PROVE TokensShown'
  <2> DEFINE t == [action |-> "update_item", target |-> x.id, quantity |-> n,
                   price |-> price[x.product]]
  <2>1. tokens' = tokens \cup {t} /\ shown' = shown \cup {<<x.product, price[x.product]>>}
    BY <1>4 DEF RequestUpdate, Issue
  <2>2. t \notin AddTokens /\ t.target = x.id /\ t.price = price[x.product]
    BY DEF AddTokens
  <2>3. \A y \in items : y.id = t.target => <<y.product, t.price>> \in shown'
    BY <2>1, <2>2 DEF IdsUnique
  <2>4. items' = items /\ asked' = asked /\ view' = view /\ pc' = pc
    BY <1>4 DEF RequestUpdate, Issue
  <2> HIDE DEF t
  <2>5. QED
    BY <2>1, <2>2, <2>3, <2>4
<1>5. ASSUME NEW x \in items, RequestRemove(x) PROVE TokensShown'
  BY <1>5 DEF RequestRemove, Issue
<1>6. ASSUME NEW c \in Cart, RequestClear(c) PROVE TokensShown'
  BY <1>6 DEF RequestClear, Issue
<1>7. ASSUME NEW t \in tokens, ExpireToken(t) PROVE TokensShown'
  BY <1>7 DEF ExpireToken
<1>8. ASSUME NEW q \in Quote, Lapse(q) PROVE TokensShown'
  BY <1>8 DEF Lapse
<1>9. ASSUME NEW w \in Worker, NEW t \in tokens, BeginAdd(w, t) PROVE TokensShown'
  BY <1>9 DEF BeginAdd
<1>10. ASSUME NEW w \in Worker, NEW c \in Cart, AddCart(w, c) PROVE TokensShown'
  <2>1. view'[w] \subseteq items /\ \A v \in Worker \ {w} : view'[v] = view[v]
    BY <1>10 DEF AddCart, Merged, ItemsOf
  <2>2. \A x \in items : <<x.product, x.price>> \in shown
    BY DEF PricesWereShown
  <2>3. \A v \in Worker : Adding(v)' \/ Updating(v)' =>
          asked'[v] = asked[v] /\ (Adding(v) \/ Updating(v))
    BY <1>10 DEF AddCart
  <2>4. items' = items /\ shown' = shown /\ tokens' = tokens
    BY <1>10 DEF AddCart
  <2>5. QED
    BY <2>1, <2>2, <2>3, <2>4
<1>11. ASSUME NEW w \in Worker, CommitAdd(w) PROVE TokensShown'
  <2> DEFINE t == asked[w]
  <2>1. view'[w] = {} /\ pc'[w] = "idle" /\ shown' = shown /\ tokens' = tokens
        /\ \A v \in Worker \ {w} : view'[v] = view[v] /\ pc'[v] = pc[v] /\ asked'[v] = asked[v]
    BY <1>11 DEF CommitAdd, Finish
  <2>2. ASSUME NEW x \in view[w], NEW y \in items,
               items' = (items \ {y}) \cup {Updated(y, x, x.quantity + t.quantity, t.price)}
        PROVE  TokensShown'
    <3> DEFINE z == Updated(y, x, x.quantity + t.quantity, t.price)
    <3>1. y \in Rows
      OBVIOUS
    <3>2. z.id = y.id /\ z.product = y.product
      BY <3>1, UpdatedKeeps
    <3>3. \A a \in items' : \E b \in items : a.id = b.id /\ a.product = b.product
      BY <2>2, <3>2
    <3>4. \A u : Honest(u) => Honest(u)'
      BY <2>1, <3>3
    <3>5. \A v \in Worker : Adding(v)' \/ Updating(v)' =>
            asked'[v] = asked[v] /\ (Adding(v) \/ Updating(v))
      BY <2>1
    <3>6. \A v \in Worker : view'[v] \subseteq view[v]
      BY <2>1
    <3>7. QED
      BY <2>1, <3>4, <3>5, <3>6
  <2>3. ASSUME NEW i \in Item, NewItem(i),
               items' = items \cup {[id |-> i, cart |-> mine[w], product |-> t.target,
                                     quantity |-> t.quantity, price |-> t.price]}
        PROVE  TokensShown'
    <3>1. \A u \in tokens : u.target # i
      BY <2>3 DEF NewItem
    <3>2. \A v \in Worker : Adding(v) \/ Updating(v) => asked[v] \in Tokens /\ asked[v].target # i
      BY <2>3 DEF NewItem, Tokens
    <3>3. \A a \in items' : a \in items \/ a.id = i
      BY <2>3
    <3>4. QED
      BY <2>1, <3>1, <3>2, <3>3
  <2>4. QED
    BY <1>11, <2>2, <2>3 DEF CommitAdd
<1>12. ASSUME NEW w \in Worker, NEW t \in tokens, BeginUpdate(w, t) PROVE TokensShown'
  <2>1. view'[w] \subseteq items /\ \A v \in Worker \ {w} : view'[v] = view[v]
    BY <1>12 DEF BeginUpdate, Take
  <2>2. \A x \in items : <<x.product, x.price>> \in shown
    BY DEF PricesWereShown
  <2>3. \A v \in Worker : Adding(v)' \/ Updating(v)' =>
          asked'[v] \in tokens \/ (asked'[v] = asked[v] /\ (Adding(v) \/ Updating(v)))
    BY <1>12 DEF BeginUpdate, Take
  <2>4. items' = items /\ shown' = shown /\ tokens' = tokens
    BY <1>12 DEF BeginUpdate, Take
  <2>5. QED
    BY <2>1, <2>2, <2>3, <2>4
<1>13. ASSUME NEW w \in Worker, CommitUpdate(w) PROVE TokensShown'
  <2> DEFINE t == asked[w]
  <2>1. view'[w] = {} /\ pc'[w] = "idle" /\ shown' = shown /\ tokens' = tokens
        /\ \A v \in Worker \ {w} : view'[v] = view[v] /\ pc'[v] = pc[v] /\ asked'[v] = asked[v]
    BY <1>13 DEF CommitUpdate, Finish
  <2>2. ASSUME NEW x \in view[w], NEW y \in items,
               items' = (items \ {y}) \cup {Updated(y, x, t.quantity, t.price)}
        PROVE  TokensShown'
    <3> DEFINE z == Updated(y, x, t.quantity, t.price)
    <3>1. y \in Rows
      OBVIOUS
    <3>2. z.id = y.id /\ z.product = y.product
      BY <3>1, UpdatedKeeps
    <3>3. \A a \in items' : \E b \in items : a.id = b.id /\ a.product = b.product
      BY <2>2, <3>2
    <3>4. \A u : Honest(u) => Honest(u)'
      BY <2>1, <3>3
    <3>5. \A v \in Worker : Adding(v)' \/ Updating(v)' =>
            asked'[v] = asked[v] /\ (Adding(v) \/ Updating(v))
      BY <2>1
    <3>6. \A v \in Worker : view'[v] \subseteq view[v]
      BY <2>1
    <3>7. QED
      BY <2>1, <3>4, <3>5, <3>6
  <2>3. QED
    BY <1>13, <2>2 DEF CommitUpdate
<1>14. ASSUME NEW w \in Worker, NEW t \in tokens, BeginRemove(w, t) PROVE TokensShown'
  <2>1. view'[w] \subseteq items /\ \A v \in Worker \ {w} : view'[v] = view[v]
    BY <1>14 DEF BeginRemove, Take
  <2>2. \A x \in items : <<x.product, x.price>> \in shown
    BY DEF PricesWereShown
  <2>3. \A v \in Worker : Adding(v)' \/ Updating(v)' =>
          asked'[v] = asked[v] /\ (Adding(v) \/ Updating(v))
    BY <1>14 DEF BeginRemove, Take
  <2>4. items' = items /\ shown' = shown /\ tokens' = tokens
    BY <1>14 DEF BeginRemove, Take
  <2>5. QED
    BY <2>1, <2>2, <2>3, <2>4
<1>15. ASSUME NEW w \in Worker, NEW t \in tokens, BeginClear(w, t) PROVE TokensShown'
  <2>1. view'[w] \subseteq items /\ \A v \in Worker \ {w} : view'[v] = view[v]
    BY <1>15 DEF BeginClear, Take, ItemsOf
  <2>2. \A x \in items : <<x.product, x.price>> \in shown
    BY DEF PricesWereShown
  <2>3. \A v \in Worker : Adding(v)' \/ Updating(v)' =>
          asked'[v] = asked[v] /\ (Adding(v) \/ Updating(v))
    BY <1>15 DEF BeginClear, Take
  <2>4. items' = items /\ shown' = shown /\ tokens' = tokens
    BY <1>15 DEF BeginClear, Take
  <2>5. QED
    BY <2>1, <2>2, <2>3, <2>4
<1>16. ASSUME NEW w \in Worker, CommitDelete(w) PROVE TokensShown'
  BY <1>16 DEF CommitDelete, Finish
<1>17. ASSUME NEW w \in Worker, NEW c \in Cart, BeginOpen(w, c) PROVE TokensShown'
  BY <1>17 DEF BeginOpen, GetOrCreate
<1>18. ASSUME NEW w \in Worker, CommitOpen(w) PROVE TokensShown'
  BY <1>18 DEF CommitOpen, Published, Finish
<1>19. ASSUME NEW w \in Worker, NEW c \in Cart, NEW q \in Quote, BeginQuote(w, c, q)
      PROVE  TokensShown'
  <2>1. view'[w] \subseteq items /\ \A v \in Worker \ {w} : view'[v] = view[v]
    BY <1>19 DEF BeginQuote, Take, ItemsOf
  <2>2. \A x \in items : <<x.product, x.price>> \in shown
    BY DEF PricesWereShown
  <2>3. \A v \in Worker : Adding(v)' \/ Updating(v)' =>
          asked'[v] = asked[v] /\ (Adding(v) \/ Updating(v))
    BY <1>19 DEF BeginQuote, Take
  <2>4. items' = items /\ shown' = shown /\ tokens' = tokens
    BY <1>19 DEF BeginQuote, Take
  <2>5. QED
    BY <2>1, <2>2, <2>3, <2>4
<1>20. ASSUME NEW w \in Worker, NEW c \in Cart, ValidateQuote(w, c) PROVE TokensShown'
  BY <1>20 DEF ValidateQuote, Validate, GetOrCreate
<1>21. ASSUME NEW w \in Worker, CommitQuote(w) PROVE TokensShown'
  BY <1>21 DEF CommitQuote, Published, Finish
<1>22. ASSUME NEW w \in Worker, NEW q \in Quote, BeginConfirm(w, q) PROVE TokensShown'
  BY <1>22 DEF BeginConfirm
<1>23. ASSUME NEW w \in Worker, NEW c \in Cart, ConfirmCart(w, c) PROVE TokensShown'
  <2>1. view'[w] \subseteq items /\ \A v \in Worker \ {w} : view'[v] = view[v]
    BY <1>23 DEF ConfirmCart, ItemsOf
  <2>2. \A x \in items : <<x.product, x.price>> \in shown
    BY DEF PricesWereShown
  <2>3. \A v \in Worker : Adding(v)' \/ Updating(v)' =>
          asked'[v] = asked[v] /\ (Adding(v) \/ Updating(v))
    BY <1>23 DEF ConfirmCart
  <2>4. items' = items /\ shown' = shown /\ tokens' = tokens
    BY <1>23 DEF ConfirmCart
  <2>5. QED
    BY <2>1, <2>2, <2>3, <2>4
<1>24. ASSUME NEW w \in Worker, NEW c \in Cart, ValidateConfirm(w, c) PROVE TokensShown'
  BY <1>24 DEF ValidateConfirm, Validate, GetOrCreate
<1>25. ASSUME NEW w \in Worker, NEW o \in Order, CommitConfirm(w, o) PROVE TokensShown'
  BY <1>25 DEF CommitConfirm, Published, Finish
<1>26. ASSUME NEW w \in Worker, Abort(w) PROVE TokensShown'
  BY <1>26 DEF Abort, Finish
<1>27. CASE UNCHANGED vars
  BY <1>27 DEF vars
<1>28. QED
  BY <1>1, <1>2, <1>3, <1>4, <1>5, <1>6, <1>7, <1>8, <1>9, <1>10, <1>11, <1>12, <1>13,
     <1>14, <1>15, <1>16, <1>17, <1>18, <1>19, <1>20, <1>21, <1>22, <1>23, <1>24, <1>25,
     <1>26, <1>27 DEF Next, Environment, CartStep, CheckoutStep

\* Who writes what is committed, and what a customer holds.
LEMMA Writers ==
  ASSUME [Next]_vars
  PROVE  /\ items' = items \/ \E w \in Worker : CommitAdd(w) \/ CommitUpdate(w) \/ CommitDelete(w)
         /\ \/ carts' = carts /\ quotes' = quotes /\ orders' = orders
            \/ \E w \in Worker : \/ CommitAdd(w) \/ CommitOpen(w) \/ CommitQuote(w)
                               \/ \E o \in Order : CommitConfirm(w, o)
         /\ shown \subseteq shown'
<1>1. CASE UNCHANGED vars
  BY <1>1 DEF vars, rows, wallet
<1>2. CASE Environment
  BY <1>2 DEF Environment, SetPrice, SetStock, RequestAdd, RequestUpdate, RequestRemove,
     RequestClear, ExpireToken, Lapse, Issue, rows, wallet
<1>3. ASSUME NEW w \in Worker, CartStep(w) \/ CheckoutStep(w) \/ Abort(w),
             ~ CommitAdd(w), ~ CommitUpdate(w), ~ CommitDelete(w), ~ CommitOpen(w), ~ CommitQuote(w),
             \A o \in Order : ~ CommitConfirm(w, o)
      PROVE  UNCHANGED <<rows, wallet>>
  BY <1>3 DEF CartStep, CheckoutStep, Abort, BeginAdd, BeginUpdate, BeginRemove, BeginClear,
     AddCart, BeginOpen, BeginQuote, BeginConfirm, ValidateQuote, ConfirmCart,
     ValidateConfirm, Validate, Take
<1>4. ASSUME NEW w \in Worker
      PROVE  /\ CommitAdd(w) => UNCHANGED <<quotes, orders, wallet>>
             /\ CommitUpdate(w) => UNCHANGED <<carts, quotes, orders, wallet>>
             /\ CommitDelete(w) => UNCHANGED <<carts, quotes, orders, wallet>>
             /\ CommitOpen(w) => UNCHANGED <<items, quotes, orders, wallet>>
             /\ CommitQuote(w) => UNCHANGED <<items, orders, wallet>>
             /\ \A o \in Order : CommitConfirm(w, o) => UNCHANGED <<items, wallet>>
  BY DEF CommitAdd, CommitUpdate, CommitDelete, CommitOpen, CommitQuote, CommitConfirm
<1>5. QED
  BY <1>1, <1>2, <1>3, <1>4 DEF Next, rows, wallet

\* What a commit does to the carts.
LEMMA PublishedCarts ==
  ASSUME CartsOwned, NEW w \in Worker
  PROVE  \A c \in Cart : Published(w)[c] = "CONVERTED" <=> carts[c] = "CONVERTED"
  BY DEF CartsOwned, Published

\* An order joins those that are placed.
LEMMA OnePlaced ==
  ASSUME TypeOK, LocalsOK, NEW w \in Worker, NEW o \in Order, CommitConfirm(w, o)
  PROVE  LET q == asked[w] IN
         /\ q \in Quote /\ mine[w] \in Cart
         /\ o \notin Placed /\ Placed' = Placed \cup {o}
         /\ \A p \in Placed : orders'[p] = orders[p]
         /\ orders'[o].quote = q /\ orders'[o].cart = mine[w]
         /\ orders'[o].subtotal = quotes[q].subtotal /\ orders'[o].lines = view[w]
         /\ \A c \in Cart : carts'[c] = IF c = mine[w] THEN "CONVERTED" ELSE Published(w)[c]
         /\ \A r \in Quote : r # q => quotes'[r] = quotes[r]
         /\ quotes'[q].status = "CONFIRMED"
         /\ quotes'[q].cart = quotes[q].cart /\ quotes'[q].subtotal = quotes[q].subtotal
<1> DEFINE q == asked[w]
           new == [quote |-> q, cart |-> mine[w], subtotal |-> quotes[q].subtotal,
                   lines |-> view[w]]
<1>1. q \in Quote /\ mine[w] \in Cart
  BY DEF LocalsOK, Confirming, Working, CommitConfirm
<1>2. new \in OrderRows
  BY <1>1 DEF TypeOK, OrderRows
<1>3. new # None
  BY <1>2, CheckoutAssumption
<1>4. orders[o] = None /\ orders' = [orders EXCEPT ![o] = new]
  BY DEF CommitConfirm
<1>5. o \notin Placed /\ Placed' = Placed \cup {o}
  BY <1>3, <1>4 DEF Placed, TypeOK
<1>6. /\ \A p \in Placed : orders'[p] = orders[p]
      /\ orders'[o] = new
  BY <1>4 DEF Placed, TypeOK
<1>7. \A c \in Cart : carts'[c] = IF c = mine[w] THEN "CONVERTED" ELSE Published(w)[c]
  BY <1>1 DEF CommitConfirm, Published
<1>8. /\ \A r \in Quote : r # q => quotes'[r] = quotes[r]
      /\ quotes'[q].status = "CONFIRMED"
      /\ quotes'[q].cart = quotes[q].cart /\ quotes'[q].subtotal = quotes[q].subtotal
  BY <1>1 DEF CommitConfirm, TypeOK
<1>9. QED
  BY <1>1, <1>5, <1>6, <1>7, <1>8

\* A placed order is a row, of a quote and a cart.
LEMMA PlacedRows ==
  ASSUME TypeOK
  PROVE  \A o \in Placed : orders[o].quote \in Quote /\ orders[o].cart \in Cart
                           /\ orders[o].lines \in SUBSET Rows
  BY DEF TypeOK, Placed, OrderRows

\* Only CommitConfirm converts a cart, confirms a quote or places an order.
LEMMA ConvertedStep ==
  TypeOK /\ LocalsOK /\ CartsOwned /\ QuotesOwned /\ ConvertedByOrder /\ [Next]_vars
    => ConvertedByOrder'
<1> SUFFICES ASSUME TypeOK, LocalsOK, CartsOwned, QuotesOwned, ConvertedByOrder, [Next]_vars
             PROVE  ConvertedByOrder'
  OBVIOUS
<1>1. CASE carts' = carts /\ quotes' = quotes /\ orders' = orders
  BY <1>1 DEF ConvertedByOrder, OrdersOf, Placed
<1>2. ASSUME NEW w \in Worker, CommitAdd(w) \/ CommitOpen(w) PROVE ConvertedByOrder'
  <2>1. carts' = Published(w) /\ quotes' = quotes /\ orders' = orders
    BY <1>2 DEF CommitAdd, CommitOpen
  <2>2. QED
    BY <2>1, PublishedCarts DEF ConvertedByOrder, OrdersOf, Placed
<1>3. ASSUME NEW w \in Worker, CommitQuote(w) PROVE ConvertedByOrder'
  <2>1. carts' = Published(w) /\ orders' = orders
    BY <1>3 DEF CommitQuote
  <2>2. asked[w] \in Quote /\ quotes[asked[w]].status = "NONE"
    BY <1>3 DEF CommitQuote, LocalsOK, QuotesOwned, Quoting, NoQuote
  <2>3. \A q \in Quote : quotes'[q].status = "CONFIRMED" <=> quotes[q].status = "CONFIRMED"
    BY <1>3, <2>2 DEF CommitQuote, TypeOK
  <2>4. QED
    BY <2>1, <2>3, PublishedCarts DEF ConvertedByOrder, OrdersOf, Placed
<1>4. ASSUME NEW w \in Worker, NEW o \in Order, CommitConfirm(w, o) PROVE ConvertedByOrder'
  <2>1. \A c \in Cart : carts'[c] = "CONVERTED" <=> c = mine[w] \/ carts[c] = "CONVERTED"
    BY <1>4, OnePlaced, PublishedCarts
  <2>2. \A c \in Cart : OrdersOf(c)' # {} <=> c = mine[w] \/ OrdersOf(c) # {}
    BY <1>4, OnePlaced DEF OrdersOf
  <2>3. \A q \in Quote : quotes'[q].status = "CONFIRMED"
                          <=> q = asked[w] \/ quotes[q].status = "CONFIRMED"
    BY <1>4, OnePlaced
  <2>4. \A q \in Quote : (\E p \in Placed' : orders'[p].quote = q)
                          <=> q = asked[w] \/ \E p \in Placed : orders[p].quote = q
    BY <1>4, OnePlaced
  <2>5. QED
    BY <2>1, <2>2, <2>3, <2>4 DEF ConvertedByOrder
<1>5. QED
  BY <1>1, <1>2, <1>3, <1>4, Writers

\* A quote that is ordered is never made again, and keeps its cart and its amount.
LEMMA OrderQuoteStep ==
  TypeOK /\ LocalsOK /\ QuotesOwned /\ ConvertedByOrder /\ OrderIsItsQuote /\ [Next]_vars
    => OrderIsItsQuote'
<1> SUFFICES ASSUME TypeOK, LocalsOK, QuotesOwned, ConvertedByOrder, OrderIsItsQuote, [Next]_vars
             PROVE  OrderIsItsQuote'
  OBVIOUS
<1>1. CASE quotes' = quotes /\ orders' = orders
  BY <1>1 DEF OrderIsItsQuote, Placed
<1>2. ASSUME NEW w \in Worker, CommitQuote(w) PROVE OrderIsItsQuote'
  <2>1. orders' = orders
    BY <1>2 DEF CommitQuote
  <2>2. asked[w] \in Quote /\ quotes[asked[w]].status = "NONE"
    BY <1>2 DEF CommitQuote, LocalsOK, QuotesOwned, Quoting, NoQuote
  <2>3. \A o \in Placed : orders[o].quote \in Quote /\ orders[o].quote # asked[w]
    BY <2>2, PlacedRows DEF ConvertedByOrder
  <2>4. \A q \in Quote : q # asked[w] => quotes'[q] = quotes[q]
    BY <1>2 DEF CommitQuote, TypeOK
  <2>5. QED
    BY <2>1, <2>3, <2>4 DEF OrderIsItsQuote, Placed
<1>3. ASSUME NEW w \in Worker, NEW o \in Order, CommitConfirm(w, o) PROVE OrderIsItsQuote'
  <2>1. \A q \in Quote : quotes'[q].cart = quotes[q].cart /\ quotes'[q].subtotal = quotes[q].subtotal
    BY <1>3, OnePlaced
  <2>2. mine[w] = quotes[asked[w]].cart
    BY <1>3 DEF CommitConfirm, QuotesOwned
  <2>3. \A p \in Placed : orders'[p].cart = quotes'[orders'[p].quote].cart
                        /\ orders'[p].subtotal = quotes'[orders'[p].quote].subtotal
    BY <1>3, <2>1, OnePlaced, PlacedRows DEF OrderIsItsQuote
  <2>4. orders'[o].cart = quotes'[orders'[o].quote].cart
        /\ orders'[o].subtotal = quotes'[orders'[o].quote].subtotal
    BY <1>3, <2>1, <2>2, OnePlaced
  <2>5. QED
    BY <1>3, <2>3, <2>4, OnePlaced DEF OrderIsItsQuote
<1>4. QED
  BY <1>1, <1>2, <1>3, Writers DEF CommitAdd, CommitOpen

\* A price comes into a cart from a token, and into an order from the cart.
LEMMA PricesStep ==
  TypeOK /\ LocalsOK /\ IdsUnique /\ TokensShown /\ PricesWereShown /\ [Next]_vars
    => PricesWereShown'
<1> SUFFICES ASSUME TypeOK, LocalsOK, IdsUnique, TokensShown, PricesWereShown, [Next]_vars
             PROVE  PricesWereShown'
  OBVIOUS
<1>1. shown \subseteq shown'
  BY Writers
<1>2. \A x \in items' : <<x.product, x.price>> \in shown'
  <2>1. CASE items' = items
    BY <1>1, <2>1 DEF PricesWereShown
  <2>2. ASSUME NEW w \in Worker, NEW x \in view[w], NEW y \in items, NEW n, y.id = x.id,
               <<y.product, asked[w].price>> \in shown,
               items' = (items \ {y}) \cup {Updated(y, x, n, asked[w].price)}
        PROVE  \A a \in items' : <<a.product, a.price>> \in shown'
    <3> DEFINE z == Updated(y, x, n, asked[w].price)
    <3>1. y \in Rows
      BY DEF TypeOK
    <3>2. z.product = y.product /\ z.price \in {y.price, asked[w].price}
      BY <3>1, UpdatedKeeps
    <3>3. <<z.product, z.price>> \in shown
      BY <2>2, <3>2 DEF PricesWereShown
    <3>4. \A a \in items' : a = z \/ a \in items
      BY <2>2
    <3>5. QED
      BY <1>1, <3>3, <3>4 DEF PricesWereShown
  <2>3. ASSUME NEW w \in Worker, CommitAdd(w)
        PROVE  \A a \in items' : <<a.product, a.price>> \in shown'
    <3> DEFINE t == asked[w]
    <3>1. pc[w] = "add_commit"
      BY <2>3 DEF CommitAdd
    <3>2. t \in AddTokens /\ <<t.target, t.price>> \in shown
      BY <3>1 DEF LocalsOK, TokensShown, Honest, Adding
    <3>3. ASSUME NEW x \in view[w], NEW y \in items, y.id = x.id
          PROVE  <<y.product, t.price>> \in shown
      BY <3>1, <3>2, <3>3 DEF LocalsOK, IdsUnique
    <3>4. ASSUME NEW i \in Item,
                 items' = items \cup {[id |-> i, cart |-> mine[w], product |-> t.target,
                                       quantity |-> t.quantity, price |-> t.price]}
          PROVE  \A a \in items' : <<a.product, a.price>> \in shown'
      <4>1. \A a \in items' : a \in items \/ (a.product = t.target /\ a.price = t.price)
        BY <3>4
      <4>2. QED
        BY <1>1, <3>2, <4>1 DEF PricesWereShown
    <3>5. QED
      BY <2>2, <2>3, <3>3, <3>4 DEF CommitAdd
  <2>4. ASSUME NEW w \in Worker, CommitUpdate(w)
        PROVE  \A a \in items' : <<a.product, a.price>> \in shown'
    <3>1. pc[w] = "update_commit"
      BY <2>4 DEF CommitUpdate
    <3>2. ASSUME NEW x \in view[w], NEW y \in items, y.id = x.id
          PROVE  <<y.product, asked[w].price>> \in shown
      BY <3>1, <3>2 DEF LocalsOK, TokensShown, Honest, Updating
    <3>3. QED
      BY <2>2, <2>4, <3>2 DEF CommitUpdate
  <2>5. ASSUME NEW w \in Worker, CommitDelete(w)
        PROVE  \A a \in items' : <<a.product, a.price>> \in shown'
    BY <1>1, <2>5 DEF CommitDelete, PricesWereShown
  <2>6. QED
    BY <2>1, <2>3, <2>4, <2>5, Writers
<1>3. \A o \in Placed' : \A x \in orders'[o].lines : <<x.product, x.price>> \in shown'
  <2>1. CASE orders' = orders
    BY <1>1, <2>1 DEF PricesWereShown, Placed
  <2>2. ASSUME NEW w \in Worker, NEW o \in Order, CommitConfirm(w, o)
        PROVE  \A p \in Placed' : \A x \in orders'[p].lines : <<x.product, x.price>> \in shown'
    <3>1. \A x \in view[w] : <<x.product, x.price>> \in shown
      BY DEF TokensShown
    <3>2. Placed' = Placed \cup {o} /\ orders'[o].lines = view[w]
          /\ \A p \in Placed : orders'[p] = orders[p]
      BY <2>2, OnePlaced
    <3>3. QED
      BY <1>1, <3>1, <3>2 DEF PricesWereShown
  <2>3. QED
    BY <2>1, <2>2, Writers DEF CommitAdd, CommitOpen, CommitQuote
<1>4. QED
  BY <1>2, <1>3 DEF PricesWereShown

\* The invariant holds of a customer who has not done anything yet.
LEMMA InvInit == Init => IInv
<1> SUFFICES ASSUME Init PROVE IInv
  OBVIOUS
<1>1. 0 \in Amounts
  BY DEF Amounts
<1>2. Placed = {}
  BY DEF Init, Placed
<1>3. TypeOK
  BY <1>1 DEF TypeOK, Init, CartStatus, QuoteStatus, PC, NoQuote
<1>4. LocalsOK /\ CartsOwned /\ QuotesOwned
  BY DEF LocalsOK, CartsOwned, QuotesOwned, Init, Adding, Updating, Quoting, Confirming, Working
<1>5. IdsUnique /\ TokensShown
  BY DEF IdsUnique, TokensShown, Init, Adding, Updating
<1>6. ConvertedByOrder
  BY <1>2 DEF ConvertedByOrder, OrdersOf, Init, NoQuote
<1>7. OrderIsItsQuote /\ PricesWereShown
  BY <1>2 DEF OrderIsItsQuote, PricesWereShown, Init
<1>8. QED
  BY <1>3, <1>4, <1>5, <1>6, <1>7 DEF IInv

\* The invariant holds in every reachable state.
THEOREM Inductive == Spec => []IInv
<1>1. IInv /\ [Next]_vars => IInv'
  BY TypeStep, LocalsStep, CartsStep, QuotesStep, IdsStep, TokensStep, ConvertedStep,
     OrderQuoteStep, PricesStep DEF IInv
<1>2. QED
  BY InvInit, <1>1, PTL DEF Spec

\* Every variable keeps its type: no quantity exceeds the bound on the stock, and
\* no request writes a row of a cart, a quote or an order without having it.
THEOREM TypeCorrect == Spec => []TypeOK
  BY Inductive, PTL DEF IInv

\* A cart is CONVERTED, and a quote CONFIRMED, exactly when an order was made of
\* it, whatever other requests commit while one is quoted or confirmed.
THEOREM ConvertedTogether == Spec => []ConvertedByOrder
  BY Inductive, PTL DEF IInv

\* An order is made of its quote's cart and at its quote's amount, for ever.
THEOREM OrdersMatchQuotes == Spec => []OrderIsItsQuote
  BY Inductive, PTL DEF IInv

\* No price that a confirmation has not shown gets into a cart or an order,
\* however requests and the merchant's changes of prices interleave.
THEOREM PricesShown == Spec => []PricesWereShown
  BY Inductive, PTL DEF IInv

-----------------------------------------------------------------------------
(* What rows are worth. *)

\* Finitely many rows, at least one, are worth something: no price is 0, and no
\* quantity.
LEMMA WorthPositive ==
  ASSUME NEW S \in SUBSET Rows, IsFiniteSet(S), S # {}
  PROVE  Worth(S) \in Nat /\ Worth(S) > 0
<1> DEFINE f == [x \in S |-> x.price * x.quantity]
           Sum(it) == it = [T \in SUBSET S |->
                              IF T = {} THEN 0
                              ELSE Chosen(T).price * Chosen(T).quantity + it[T \ {Chosen(T)}]]
           it == CHOOSE i : Sum(i)
<1>1. \A x \in S : x.price \in Nat /\ x.price > 0 /\ x.quantity \in Nat /\ x.quantity > 0
  <2>1. \A x \in S : x.price \in Price /\ x.quantity \in 1 .. MaxStock
    BY DEF Rows, Quantity
  <2>2. \A v \in Price : v \in Nat /\ v > 0
    BY CheckoutAssumption
  <2>3. \A n \in 1 .. MaxStock : n \in Nat /\ n > 0
    BY CheckoutAssumption
  <2>4. QED
    BY <2>1, <2>2, <2>3
<1>2. \A m, n \in Nat : m > 0 /\ n > 0 => m * n \in Nat /\ m * n > 0
  OBVIOUS
<1>3. Numbers(f, S) /\ \A x \in S : f[x] > 0
  BY <1>1, <1>2 DEF Numbers
<1>4. \A j : IsSum(f, S, j) <=> Sum(j)
  BY ChosenIn DEF IsSum
<1>5. Worth(S) = it[S]
  BY Zenon DEF Worth, MapThenSumSet, MapThenFoldSet, Chosen
<1>6. Sum(it)
  <2> HIDE DEF Sum, f
  <2>1. \E i : Sum(i)
    BY <1>4, SumExists
  <2>2. QED
    BY <2>1, Zenon
<1> HIDE DEF it, Sum
<1>7. Worth(S) = SumOver(f, S)
  BY <1>4, <1>5, <1>6, SumIs
<1>8. QED
  BY <1>3, <1>7, SumPositive, SumRemove

\* Only finitely many rows are ever written, and read.
LEMMA FiniteStep == FiniteRows /\ [Next]_vars => FiniteRows'
<1> SUFFICES ASSUME FiniteRows, [Next]_vars PROVE FiniteRows'
  OBVIOUS
<1>1. \A c : IsFiniteSet(ItemsOf(c))
  BY FS_Subset DEF FiniteRows, ItemsOf
<1>2. IsFiniteSet(items')
  <2>1. ASSUME NEW x, NEW y PROVE IsFiniteSet((items \ {y}) \cup {x}) /\ IsFiniteSet(items \cup {x})
    BY FS_AddElement, FS_RemoveElement DEF FiniteRows
  <2>2. ASSUME NEW w \in Worker, CommitAdd(w) \/ CommitUpdate(w) PROVE IsFiniteSet(items')
    BY <2>1, <2>2 DEF CommitAdd, CommitUpdate
  <2>3. ASSUME NEW w \in Worker, CommitDelete(w) PROVE IsFiniteSet(items')
    BY <2>3, FS_Subset DEF CommitDelete, FiniteRows
  <2>4. QED
    BY <2>2, <2>3, Writers DEF FiniteRows
<1>3. ASSUME NEW v \in Worker PROVE IsFiniteSet(view'[v])
  <2>1. ASSUME NEW w \in Worker, Finish(w) PROVE IsFiniteSet(view'[v])
    BY <2>1, FS_EmptySet DEF Finish, FiniteRows
  <2>2. ASSUME NEW w \in Worker, NEW t, NEW S, NEW next, Take(w, t, S, next), IsFiniteSet(S)
        PROVE  IsFiniteSet(view'[v])
    BY <2>2 DEF Take, FiniteRows
  <2>3. CASE view' = view
    BY <2>3 DEF FiniteRows
  <2>4. ASSUME NEW w \in Worker, NEW c \in Cart, AddCart(w, c) PROVE IsFiniteSet(view'[v])
    <3>1. PICK S : view' = [view EXCEPT ![w] = S] /\ (S = {} \/ \E x : S = {x})
      BY <2>4 DEF AddCart, Merged
    <3>2. IsFiniteSet(S)
      BY <3>1, FS_EmptySet, FS_Singleton
    <3>3. QED
      BY <3>1, <3>2 DEF FiniteRows
  <2>5. ASSUME NEW w \in Worker, NEW c \in Cart, ConfirmCart(w, c) PROVE IsFiniteSet(view'[v])
    BY <1>1, <2>5 DEF ConfirmCart, FiniteRows
  <2>6. ASSUME NEW w \in Worker, NEW t \in tokens,
               BeginUpdate(w, t) \/ BeginRemove(w, t) \/ BeginClear(w, t)
        PROVE  IsFiniteSet(view'[v])
    BY <1>1, <2>2, <2>6, FS_Singleton DEF BeginUpdate, BeginRemove, BeginClear
  <2>7. ASSUME NEW w \in Worker, NEW c \in Cart, NEW q \in Quote, BeginQuote(w, c, q)
        PROVE  IsFiniteSet(view'[v])
    BY <1>1, <2>2, <2>7 DEF BeginQuote
  <2>8. ASSUME NEW w \in Worker
        PROVE  /\ CommitAdd(w) \/ CommitUpdate(w) \/ CommitDelete(w) \/ CommitOpen(w) => Finish(w)
               /\ CommitQuote(w) \/ Abort(w) => Finish(w)
               /\ \A o \in Order : CommitConfirm(w, o) => Finish(w)
    BY DEF CommitAdd, CommitUpdate, CommitDelete, CommitOpen, CommitQuote, CommitConfirm, Abort
  <2>9. CASE Environment \/ UNCHANGED vars
    <3>1. view' = view
      BY <2>9 DEF Environment, SetPrice, SetStock, RequestAdd, RequestUpdate, RequestRemove,
         RequestClear, ExpireToken, Lapse, Issue, locals, vars
    <3>2. QED
      BY <2>3, <3>1
  <2>10. ASSUME NEW w \in Worker, CartStep(w) \/ CheckoutStep(w) \/ Abort(w)
         PROVE  IsFiniteSet(view'[v])
    <3>1. CASE Abort(w) \/ CommitAdd(w) \/ CommitUpdate(w) \/ CommitDelete(w) \/ CommitOpen(w)
               \/ CommitQuote(w) \/ \E o \in Order : CommitConfirm(w, o)
      BY <2>1, <2>8, <3>1
    <3>2. ASSUME NEW t \in tokens, BeginAdd(w, t) PROVE IsFiniteSet(view'[v])
      BY <2>3, <3>2 DEF BeginAdd
    <3>3. ASSUME NEW c \in Cart, BeginOpen(w, c) \/ ValidateQuote(w, c) \/ ValidateConfirm(w, c)
          PROVE  IsFiniteSet(view'[v])
      BY <2>3, <3>3 DEF BeginOpen, ValidateQuote, ValidateConfirm, Validate
    <3>4. ASSUME NEW q \in Quote, BeginConfirm(w, q) PROVE IsFiniteSet(view'[v])
      BY <2>3, <3>4 DEF BeginConfirm
    <3>5. QED
      BY <2>4, <2>5, <2>6, <2>7, <2>10, <3>1, <3>2, <3>3, <3>4 DEF CartStep, CheckoutStep
  <2>11. QED
    BY <2>9, <2>10 DEF Next
<1>4. QED
  BY <1>2, <1>3 DEF FiniteRows

\* A quote is made of a cart that is not empty, and its rows are not read again.
LEMMA SomeStep == TypeOK /\ SomeQuoted /\ [Next]_vars => SomeQuoted'
<1> SUFFICES ASSUME TypeOK, SomeQuoted, [Next]_vars PROVE SomeQuoted'
  OBVIOUS
<1> USE DEF TypeOK, SomeQuoted, Quoting
<1>1. ASSUME NEW w \in Worker,
             /\ pc'[w] \notin {"quote_validate", "quote_commit"}
             /\ \A v \in Worker : v # w => pc'[v] = pc[v] /\ view'[v] = view[v]
      PROVE  SomeQuoted'
  BY <1>1
<1>2. ASSUME NEW w \in Worker, Finish(w) PROVE SomeQuoted'
  BY <1>1, <1>2 DEF Finish
<1>3. ASSUME NEW w \in Worker,
             Abort(w) \/ CommitAdd(w) \/ CommitUpdate(w) \/ CommitDelete(w) \/ CommitOpen(w)
             \/ CommitQuote(w) \/ \E o \in Order : CommitConfirm(w, o)
      PROVE  Finish(w)
  BY <1>3 DEF CommitAdd, CommitUpdate, CommitDelete, CommitOpen, CommitQuote, CommitConfirm,
     Abort
<1>4. ASSUME NEW w \in Worker, NEW t \in tokens, BeginAdd(w, t) PROVE SomeQuoted'
  BY <1>1, <1>4 DEF BeginAdd
<1>5. ASSUME NEW w \in Worker, NEW t \in tokens,
             BeginUpdate(w, t) \/ BeginRemove(w, t) \/ BeginClear(w, t)
      PROVE  SomeQuoted'
  BY <1>1, <1>5 DEF BeginUpdate, BeginRemove, BeginClear, Take
<1>6. ASSUME NEW w \in Worker, NEW c \in Cart, AddCart(w, c) PROVE SomeQuoted'
  BY <1>1, <1>6 DEF AddCart, Merged
<1>7. ASSUME NEW w \in Worker, NEW c \in Cart, BeginOpen(w, c) PROVE SomeQuoted'
  BY <1>1, <1>7 DEF BeginOpen
<1>8. ASSUME NEW w \in Worker, NEW c \in Cart, NEW q \in Quote, BeginQuote(w, c, q)
      PROVE  SomeQuoted'
  BY <1>8 DEF BeginQuote, Take
<1>9. ASSUME NEW w \in Worker, NEW q \in Quote, BeginConfirm(w, q) PROVE SomeQuoted'
  BY <1>1, <1>9 DEF BeginConfirm
<1>10. ASSUME NEW w \in Worker, NEW c \in Cart, ValidateQuote(w, c) PROVE SomeQuoted'
  BY <1>10 DEF ValidateQuote, Validate
<1>11. ASSUME NEW w \in Worker, NEW c \in Cart, ConfirmCart(w, c) \/ ValidateConfirm(w, c)
       PROVE  SomeQuoted'
  BY <1>1, <1>11 DEF ConfirmCart, ValidateConfirm, Validate
<1>12. CASE Environment \/ UNCHANGED vars
  <2>1. pc' = pc /\ view' = view
    BY <1>12 DEF Environment, SetPrice, SetStock, RequestAdd, RequestUpdate, RequestRemove,
       RequestClear, ExpireToken, Lapse, Issue, locals, vars
  <2>2. QED
    BY <2>1
<1>13. QED
  BY <1>2, <1>3, <1>4, <1>5, <1>6, <1>7, <1>8, <1>9, <1>10, <1>11, <1>12
     DEF Next, CartStep, CheckoutStep

\* An amount is the worth of some rows, or that of a quote.
LEMMA NothingStep ==
  ASSUME TypeOK, LocalsOK, QuotesOwned, FiniteRows, SomeQuoted,
         NothingForNothing, [Next]_vars
  PROVE  NothingForNothing'
<1>1. ASSUME NEW w \in Worker, CommitQuote(w) PROVE NothingForNothing'
  <2>1. Worth(view[w]) > 0
    BY <1>1, WorthPositive DEF TypeOK, FiniteRows, SomeQuoted, Quoting, CommitQuote
  <2>2. /\ quotes'[asked[w]].subtotal = Worth(view[w])
        /\ \A q \in Quote : q # asked[w] => quotes'[q] = quotes[q]
        /\ orders' = orders
    BY <1>1 DEF CommitQuote, LocalsOK, Quoting, TypeOK
  <2>3. QED
    BY <2>1, <2>2 DEF NothingForNothing, Placed
<1>2. ASSUME NEW w \in Worker, NEW o \in Order, CommitConfirm(w, o) PROVE NothingForNothing'
  <2>1. quotes[asked[w]].status # "NONE" /\ asked[w] \in Quote
    BY <1>2 DEF CommitConfirm, LocalsOK, QuotesOwned, Confirming
  <2>2. quotes[asked[w]].subtotal > 0
    BY <2>1 DEF NothingForNothing
  <2>3. /\ \A q \in Quote : quotes'[q].status # "NONE" => quotes'[q].subtotal > 0
        /\ Placed' = Placed \cup {o} /\ \A p \in Placed : orders'[p] = orders[p]
        /\ orders'[o].subtotal = quotes[asked[w]].subtotal
    BY <1>2, <2>1, <2>2, OnePlaced DEF NothingForNothing
  <2>4. QED
    BY <2>2, <2>3 DEF NothingForNothing
<1>3. ASSUME UNCHANGED <<quotes, orders>> PROVE NothingForNothing'
  BY <1>3 DEF NothingForNothing, Placed
<1>4. ASSUME NEW w \in Worker, CommitAdd(w) \/ CommitOpen(w) PROVE UNCHANGED <<quotes, orders>>
  BY <1>4 DEF CommitAdd, CommitOpen
<1>5. QED
  BY <1>1, <1>2, <1>3, <1>4, Writers

LEMMA WorthInit == Init => WorthInv
<1> SUFFICES ASSUME Init PROVE WorthInv
  OBVIOUS
<1>1. FiniteRows /\ SomeQuoted
  BY FS_EmptySet DEF Init, FiniteRows, SomeQuoted, Quoting
<1>2. NothingForNothing
  BY DEF Init, NothingForNothing, NoQuote, Placed
<1>3. QED
  BY InvInit, <1>1, <1>2 DEF WorthInv

\* Nothing is quoted or ordered for nothing: the rows of a quote were read before
\* validate_cart may come to another, empty cart, and every row is worth something.
THEOREM NothingIsFree == Spec => []NothingForNothing
<1>1. WorthInv /\ IInv' /\ [Next]_vars => WorthInv'
  BY FiniteStep, SomeStep, NothingStep DEF WorthInv, IInv
<1>2. Spec => []WorthInv
  BY Inductive, WorthInit, <1>1, PTL DEF Spec
<1>3. QED
  BY <1>2, PTL DEF WorthInv
=============================================================================
