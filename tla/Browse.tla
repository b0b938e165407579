------------------------------- MODULE Browse -------------------------------
(***************************************************************************)
(* The catalog and the cart of the storefront apps/web2: the search of     *)
(* ProductsPage.tsx, the product of ProductDetailPage.tsx, the lines of    *)
(* CartPage.tsx.                                                           *)
(*                                                                         *)
(* A search is what is typed and the category picked.  Its answers arrive  *)
(* in any order and are kept by the query client (external) under the key  *)
(* they were asked for.  What changes the cart is answered with 402 unless *)
(* it carries a confirmation token, which these pages never send, so the   *)
(* cart changes only through another client of the customer.               *)
(***************************************************************************)
EXTENDS Integers, FiniteSets

CONSTANTS
    Texts,          \* what may be typed in the search field, besides nothing
    Categories,     \* what may be picked, besides "All"
    MaxQuantity,    \* bound: the quantities the shopper clicks up to
    MaxAnswers,     \* bound: the answers awaited and kept
    MaxEdits        \* bound: the calls that change the cart under way

ASSUME BrowseAssumption == MaxQuantity \in Nat

VARIABLES
    at,             \* the page shown: "list", "product" or "cart"
    search,         \* the search on the screen
    asked,          \* the keys whose answers are awaited, with the search each is for
    kept,           \* the answers the query client holds
    item,           \* the product page: quantity and variant
    line,           \* the quantity of a cart line as shown, 0 for no line
    edits           \* the calls that change the cart under way

browseVars == <<at, search, asked, kept, item, line, edits>>

Searches == [text : Texts \cup {""}, category : Categories \cup {"All"}]
NoSearch == [text |-> "", category |-> "All"]

FreshItem(id) == [of |-> id, quantity |-> 1, variant |-> 0]

BrowseInit ==
    /\ at = "list"
    /\ search = NoSearch
    /\ asked = {}
    /\ kept = {}
    /\ item = FreshItem(1)
    /\ line = 0
    /\ edits = {}

-----------------------------------------------------------------------------
(* The search. *)

\* Mutant: the category is left out of the key.
SearchKeyByText(s) == [text |-> s.text]

SearchKey(s) == [text |-> s.text, category |-> s.category]

TypeOrPick ==
    /\ at = "list"
    /\ search' \in Searches
    /\ UNCHANGED <<at, asked, kept, item, line, edits>>

\* The page asks for its search when it has no answer, and again whenever
\* the one it has is stale; a key already asked for is not asked twice.
Search ==
    /\ at = "list"
    /\ SearchKey(search) \notin {a.key : a \in asked}
    /\ Cardinality(asked) + Cardinality(kept) < MaxAnswers
    /\ asked' = asked \cup {[key |-> SearchKey(search), for |-> search]}
    /\ UNCHANGED <<at, search, kept, item, line, edits>>

Found(a) ==
    /\ asked' = asked \ {a}
    /\ kept' = {k \in kept : k.key # a.key} \cup {a}
    /\ UNCHANGED <<at, search, item, line, edits>>

\* Unused for five minutes an answer is dropped; a failed search leaves what
\* there was.
Forget ==
    /\ \/ \E k \in kept : kept' = kept \ {k} /\ UNCHANGED asked
       \/ \E a \in asked : asked' = asked \ {a} /\ UNCHANGED kept
    /\ UNCHANGED <<at, search, item, line, edits>>

Listed == {k.for : k \in {k \in kept : k.key = SearchKey(search)}}

-----------------------------------------------------------------------------
(* Calls that change the cart.  last: the one its page watches. *)

Edit(kind, quantity) == [kind |-> kind, quantity |-> quantity, last |-> TRUE]

\* The button shows the state of the last call of its page.
Watched(kinds) == {e \in edits : e.last /\ e.kind \in kinds}

Start(e, kinds) ==
    /\ Cardinality(edits) < MaxEdits
    /\ edits' = {IF f.kind \in kinds THEN [f EXCEPT !.last = FALSE] ELSE f : f \in edits} \cup {e}
    /\ UNCHANGED <<at, search, asked, kept, line>>

Declined(e) ==
    /\ edits' = edits \ {e}
    /\ UNCHANGED <<at, search, asked, kept, item, line>>

-----------------------------------------------------------------------------
(* The product page. *)

Products == {1, 2}

\* One product: its variants, the buttons about the quantity, and one to add it.
ProductShown == at = "product"

\* Another page, which opens afresh; or, along the history, another product
\* in the same page, which keeps its quantity and its variant.
Turn ==
    /\ \/ /\ at' \in {"list", "cart"}
          /\ item' = FreshItem(1)
       \/ /\ at # "product" /\ at' = "product"
          /\ \E id \in Products : item' = FreshItem(id)
       \/ /\ at = "product" /\ UNCHANGED at
          /\ item' = [item EXCEPT !.of = 3 - @]
    /\ search' = IF at' = at THEN search ELSE NoSearch
    /\ edits' = IF at' = at THEN edits ELSE {[e EXCEPT !.last = FALSE] : e \in edits}
    /\ UNCHANGED <<asked, kept, line>>

\* A variant is a number that names its product.
PickVariant ==
    /\ ProductShown
    /\ item' = [item EXCEPT !.variant = item.of]
    /\ UNCHANGED <<at, search, asked, kept, line, edits>>

Larger(a, b) == IF a < b THEN b ELSE a

\* Mutant: the quantity is not held at one.
FewerFreely ==
    /\ ProductShown
    /\ item' = [item EXCEPT !.quantity = @ - 1]
    /\ UNCHANGED <<at, search, asked, kept, line, edits>>

Fewer ==
    /\ ProductShown
    /\ item' = [item EXCEPT !.quantity = Larger(1, @ - 1)]
    /\ UNCHANGED <<at, search, asked, kept, line, edits>>

More ==
    /\ ProductShown
    /\ item.quantity < MaxQuantity
    /\ item' = [item EXCEPT !.quantity = @ + 1]
    /\ UNCHANGED <<at, search, asked, kept, line, edits>>

AddItem ==
    /\ ProductShown
    /\ Watched({"add"}) = {}
    /\ Start(Edit("add", item.quantity), {"add"})
    /\ UNCHANGED item

\* The card of a product in the list asks for one, as often as it is pressed.
AddCard ==
    /\ at = "list"
    /\ Start(Edit("card", 1), {"card"})
    /\ UNCHANGED item

-----------------------------------------------------------------------------
(* The cart page. *)

\* The cart query: what another client of the customer has made of the line
\* by then; a cart that is not found is an empty one.  Until it answers the
\* page shows the cart as it was last seen.
CartShown ==
    /\ at = "cart"
    /\ line' \in 0 .. MaxQuantity
    /\ UNCHANGED <<at, search, asked, kept, item, edits>>

\* A line with its buttons, or a cart that is said to be empty.
LineShown == at = "cart" /\ line > 0

CartKinds == {"put", "delete"}

\* Mutant: the line is updated, whatever the quantity.
UpdateAlways(q) == Edit("put", q)

\* updateMutation: a quantity of zero removes the line.
Update(q) == IF q = 0 THEN Edit("delete", 0) ELSE Edit("put", q)

\* The buttons count from the quantity shown, and wait for the last call.
Change(by) ==
    /\ LineShown
    /\ Watched(CartKinds) = {}
    /\ Start(Update(line + by), CartKinds)
    /\ UNCHANGED item

\* The bin does not wait.
RemoveLine ==
    /\ LineShown
    /\ Start(Update(0), CartKinds)
    /\ UNCHANGED item

-----------------------------------------------------------------------------
BrowseNext ==
    \/ TypeOrPick \/ Search \/ (\E a \in asked : Found(a)) \/ Forget
    \/ Turn \/ PickVariant \/ Fewer \/ More \/ AddItem \/ AddCard
    \/ CartShown \/ Change(1) \/ Change(-1) \/ RemoveLine
    \/ \E e \in edits : Declined(e)

-----------------------------------------------------------------------------
(* Properties. *)

BrowseTypeOK ==
    /\ at \in {"list", "product", "cart"}
    /\ search \in Searches
    /\ item \in [of : Products, quantity : Nat, variant : {0} \cup Products]
    /\ line \in 0 .. MaxQuantity

\* What is listed was asked for with the very search on the screen, however
\* fast it is changed and in whatever order the answers come.
ListMatchesSearch == Listed \subseteq {search}

\* No page asks for a quantity the backend has no room for: an item is added
\* and a line updated with one at least, and counting a line down to nothing
\* removes it (schemas/cart.py:17-22 take only more than zero).
LegalQuantities == \A e \in edits : e.kind # "delete" => e.quantity > 0
=============================================================================
