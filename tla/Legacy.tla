------------------------------- MODULE Legacy -------------------------------
(***************************************************************************)
(* The older storefront, apps/web: who is signed in (AuthContext.tsx), the *)
(* cart shared by all pages (CartContext.tsx), and the pages on top.       *)
(*                                                                         *)
(* A session is the number of an account; 0 is nobody.  Both providers     *)
(* outlive the pages, and their calls are not tied to the session they     *)
(* were made in: an answer is taken whoever is signed in when it comes.    *)
(* The token they carry is in localStorage, which other tabs share, and    *)
(* nothing tells this document that it has changed.                        *)
(*                                                                         *)
(* What is shown is the number of the account it is of: a cart, the rows   *)
(* of a list, a quote.  The backend is open: a call may succeed, for the   *)
(* account of its token, or fail.  (The one of this repository takes no    *)
(* form-encoded login, so against it this storefront never gets past the   *)
(* sign-in form.)                                                          *)
(***************************************************************************)
EXTENDS Naturals, Sequences, FiniteSets

CONSTANTS
    Accounts,       \* who may sign in: numbers from 1
    Merchants,      \* those among them with a merchant's role
    SiteLists,      \* which of the merchant's lists are visited
    MaxOpen,        \* bound: the calls under way (alike ones count as one),
    MaxDisturbed,   \* and those of a document that is disturbed (below)
    MaxTalk         \* bound: the messages of a conversation

ASSUME LegacyAssumption ==
    /\ Accounts \subseteq Nat \ {0} /\ Merchants \subseteq Accounts
    /\ SiteLists \subseteq {"orders", "products", "policies", "audit"}

VARIABLES
    local,          \* the token in localStorage
    site,           \* the two providers and the page shown
    talk,           \* the conversation of the home page
    till,           \* the checkout page
    open            \* the calls under way

legacyVars == <<local, site, talk, till, open>>

Anyone == {0} \cup Accounts
SitePages == {"home", "login", "register", "cart", "checkout", "order", "admin"}

\* A call carries the token of the moment it is sent.  as: the account its
\* handler was drawn for, or whose quote it is about.  own: its page is still
\* the one it was made by; the providers, who make the last two, never go.
CallWith(token, kind, as) == [kind |-> kind, token |-> token, as |-> as, own |-> TRUE]

Sent(kind, as) == CallWith(local, kind, as)

Left(calls) == {[c EXCEPT !.own = @ /\ c.kind \in {"cart", "edit"}] : c \in calls}

FreshTalk == [messages |-> <<"assistant">>, busy |-> FALSE]
FreshTill == [quote |-> 0, busy |-> FALSE]

\* A new document: nobody is signed in until the server has said who the
\* token stands for.  which: the merchant's list that is shown, if one is; list
\* and shape: whose rows have come, as an array, under "items" or neither.
\* popup: whose order the window of the payment provider is open for.
\* disturbed: a session began or ended with something of a session under way,
\* or over another one, or in another tab.
FreshSite(page) ==
    [page |-> page, user |-> 0, authBusy |-> TRUE, cart |-> 0, lines |-> FALSE,
     cartBusy |-> FALSE, formBusy |-> FALSE, which |-> "none", list |-> 0, shape |-> "neither",
     popup |-> 0, disturbed |-> FALSE]

\* loadUser, once per document.
Document(page) ==
    /\ site' = FreshSite(page)
    /\ talk' = FreshTalk
    /\ till' = FreshTill
    /\ open' = {CallWith(local', "me", 0)}

LegacyInit ==
    /\ local \in Anyone
    /\ site = FreshSite("home")
    /\ talk = FreshTalk
    /\ till = FreshTill
    /\ open = {Sent("me", 0)}

Reload ==
    /\ UNCHANGED local
    /\ \E p \in SitePages : Document(p)

Room == Cardinality(open) < IF site.disturbed THEN MaxDisturbed ELSE MaxOpen

-----------------------------------------------------------------------------
(* Pages. *)

\* The layout of the merchant's pages sends others home whenever it is drawn
\* and knows who they are.
MayStay(s) == s.page = "admin" /\ ~s.authBusy => s.user \in Merchants

\* Another page: what the one that is left had is gone, and its calls find
\* nobody to tell.
Arriving(s, page) ==
    [s EXCEPT !.page = page, !.formBusy = FALSE, !.which = "none", !.list = 0, !.shape = "neither"]

\* The checkout page asks for a quote when it appears, and whenever the cart
\* is set again, for a cart with something in it, unless it has one or waits
\* for one.
Quotes(s, t) == s.page = "checkout" /\ s.cart # 0 /\ s.lines /\ t.quote = 0 /\ ~t.busy

\* The page stays, or gives way to another, with what it then does by itself.
Stay(s, calls) ==
    /\ site' = s
    /\ till' = IF Quotes(s, till) THEN [till EXCEPT !.busy = TRUE] ELSE till
    /\ open' = IF Quotes(s, till) THEN calls \cup {Sent("quote", 0)} ELSE calls
    /\ UNCHANGED talk

GoTo(s, page, calls) ==
    LET to == IF MayStay(Arriving(s, page)) THEN page ELSE "home"
    IN  /\ site' = Arriving(s, to)
        /\ till' = [FreshTill EXCEPT !.busy = Quotes(site', FreshTill)]
        /\ open' = IF Quotes(site', FreshTill) THEN Left(calls) \cup {Sent("quote", 0)}
                   ELSE Left(calls)
        /\ talk' = FreshTalk

Become(s, calls) == IF MayStay(s) THEN Stay(s, calls) ELSE GoTo(s, "home", calls)

\* A link, or a step along the history.
Follow ==
    /\ \E p \in SitePages : GoTo(site, p, open) /\ (p # site.page \/ site.which # "none")
    /\ Room
    /\ UNCHANGED local

-----------------------------------------------------------------------------
(* AuthContext. *)

\* setUser, and the effect of CartContext that hangs on it: nobody has no
\* cart, anybody else's is asked for.
AsUser(s, u) ==
    CASE u # 0               -> [s EXCEPT !.user = u, !.cartBusy = TRUE]
      [] u = 0 /\ s.user = 0 -> s
      [] OTHER               -> [s EXCEPT !.user = 0, !.cart = 0, !.lines = FALSE]

CartCall(u) == IF u = 0 THEN {} ELSE {Sent("cart", u)}

\* loadUser, at the start of a document or at the end of a sign-in, which
\* takes the visitor home wherever he is by then, and whatever the answer.
UserLoaded(c) ==
    /\ c.kind = "me"
    /\ \E u \in {0, c.token} :
          LET s == [AsUser(site, u) EXCEPT !.authBusy = FALSE,
                                           !.formBusy = IF c.own THEN FALSE ELSE @]
              calls == (open \ {c}) \cup CartCall(u)
          IN  IF c.as = 0 \/ site.page = "home" THEN Become(s, calls) ELSE GoTo(s, "home", calls)
    /\ UNCHANGED local

\* What is under way for a session: calls, but those of the chat, which shows
\* nothing of an account, and the payment window.
UnderWayFor(calls) == \/ \E c \in calls : c.kind \notin {"chat", "signup"}
                      \/ site.popup # 0

\* The two forms: their button is disabled while a submission is under way.
LoginForm == site.page = "login" /\ ~site.formBusy
RegisterForm == site.page = "register" /\ ~site.formBusy

SignIn ==
    /\ LoginForm /\ Room
    /\ site' = [site EXCEPT !.formBusy = TRUE]
    /\ open' = open \cup {Sent("signin", 0)}
    /\ UNCHANGED <<local, talk, till>>

\* login: the token is stored, then the user loaded.
SignedInAs(c) ==
    /\ c.kind = "signin"
    /\ \E a \in Accounts :
          /\ local' = a
          /\ open' = (open \ {c}) \cup {[c EXCEPT !.kind = "me", !.token = a, !.as = a]}
    /\ site' = [site EXCEPT !.disturbed = @ \/ local # 0 \/ UnderWayFor(open \ {c})]
    /\ UNCHANGED <<talk, till>>

\* The sign-up form leads to the sign-in form when it succeeds.
SignUp ==
    /\ RegisterForm /\ Room
    /\ site' = [site EXCEPT !.formBusy = TRUE]
    /\ open' = open \cup {Sent("signup", 0)}
    /\ UNCHANGED <<local, talk, till>>

SignedUp(c) ==
    /\ c.kind = "signup"
    /\ GoTo(site, "login", open \ {c})
    /\ UNCHANGED local

\* Of a form: a sign-in or a sign-up that fails.
FormFailed(c) ==
    /\ c.kind \in {"signin", "signup"}
    /\ site' = IF c.own THEN [site EXCEPT !.formBusy = FALSE] ELSE site
    /\ open' = open \ {c}
    /\ UNCHANGED <<local, talk, till>>

\* The bar on top of every page but the forms: who is signed in, or the way to
\* the forms.
Bar == IF site.user = 0 THEN {"login", "register"}
       ELSE {"logout"} \cup (IF site.user \in Merchants THEN {"admin"} ELSE {})

\* Mutant: the cart is left to the next visitor.
LogoutKeepsCart ==
    /\ "logout" \in Bar /\ site.page \notin {"login", "register"}
    /\ local' = 0
    /\ Become([site EXCEPT !.user = 0, !.disturbed = @ \/ UnderWayFor(open)], open)

\* logout: the token and the user go, with the cart.
SignOut ==
    /\ local' = 0
    /\ Become([AsUser(site, 0) EXCEPT !.disturbed = @ \/ UnderWayFor(open)], open)

Logout ==
    /\ "logout" \in Bar /\ site.page \notin {"login", "register"}
    /\ SignOut

\* Another tab signs in or out: the token changes, and nobody here listens.
OtherTabSigns ==
    /\ \E a \in Anyone \ {local} : local' = a
    /\ site' = [site EXCEPT !.disturbed = TRUE]
    /\ UNCHANGED <<talk, till, open>>

-----------------------------------------------------------------------------
(* CartContext. *)

\* refreshCart: what comes is taken for the cart; a failure keeps the old one.
CartLoaded(c) ==
    /\ c.kind = "cart"
    /\ \/ /\ c.token # 0
          /\ \E lines \in BOOLEAN :
                Become([site EXCEPT !.cart = c.token, !.lines = lines, !.cartBusy = FALSE],
                       open \ {c})
       \/ /\ site' = [site EXCEPT !.cartBusy = FALSE]
          /\ open' = open \ {c}
          /\ UNCHANGED <<talk, till>>
    /\ UNCHANGED local

ChangeCart ==
    /\ Room
    /\ site' = [site EXCEPT !.cartBusy = TRUE]
    /\ open' = open \cup {Sent("edit", site.user)}
    /\ UNCHANGED <<local, talk, till>>

\* The home page is the chat.  Below each answer of the assistant are the
\* products it recommends, which the backend chooses, each with its button.
Home == site.page = "home"
Offered == {i \in 2 .. Len(talk.messages) : talk.messages[i] = "assistant"}

\* addItem, from a recommendation, which nothing disables.
AddRecommended == Home /\ Offered # {} /\ ChangeCart

\* The page of the cart: the loader, a cart with nothing in it, or its lines.
CartView ==
    CASE site.cartBusy /\ site.cart = 0 -> "loading"
      [] ~site.lines                    -> "empty"
      [] OTHER                          -> "lines"

\* updateItem, removeItem and clearCart, from the lines.
EditCart ==
    /\ site.page = "cart" /\ CartView = "lines" /\ ~site.cartBusy
    /\ ChangeCart

\* Refused or not, the cart is then refreshed as the handler's user would
\* do it; only a call that does not come back at all skips that.
CartEdited(c) ==
    /\ c.kind = "edit"
    /\ \/ /\ site' = IF c.as = 0
                     THEN [site EXCEPT !.cart = 0, !.lines = FALSE, !.cartBusy = FALSE]
                     ELSE [site EXCEPT !.cartBusy = TRUE]
          /\ open' = (open \ {c}) \cup CartCall(c.as)
       \/ /\ site' = [site EXCEPT !.cartBusy = FALSE]
          /\ open' = open \ {c}
    /\ UNCHANGED <<local, talk, till>>

-----------------------------------------------------------------------------
(* The chat. *)

SayToChat ==
    /\ Home /\ ~talk.busy /\ Room
    /\ Len(talk.messages) < MaxTalk
    /\ talk' = [messages |-> Append(talk.messages, "user"), busy |-> TRUE]
    /\ open' = open \cup {Sent("chat", 0)}
    /\ UNCHANGED <<local, site, till>>

\* Mutant: an answer is shown in whatever conversation is there.
ChatRepliedAnywhere(c) ==
    /\ c.kind = "chat"
    /\ open' = open \ {c}
    /\ talk' = [messages |-> Append(talk.messages, "assistant"), busy |-> FALSE]
    /\ UNCHANGED <<local, site, till>>

ChatReplied(c) ==
    /\ c.kind = "chat"
    /\ open' = open \ {c}
    /\ talk' \in IF ~c.own THEN {talk}
                 ELSE {[messages |-> Append(talk.messages, "assistant"), busy |-> FALSE],
                       [talk EXCEPT !.busy = FALSE]}
    /\ UNCHANGED <<local, site, till>>

-----------------------------------------------------------------------------
(* Checkout. *)

Tell(c, t) == till' = IF c.own THEN t ELSE till

QuoteMade(c) ==
    /\ c.kind = "quote"
    /\ open' = open \ {c}
    /\ \/ c.token # 0 /\ Tell(c, [till EXCEPT !.quote = c.token, !.busy = FALSE])
       \/ Tell(c, [till EXCEPT !.busy = FALSE])
    /\ UNCHANGED <<local, site, talk>>

\* The quote, once there is one and the cart is not being loaded, with the box
\* to tick and the button.
TillShown == site.page = "checkout" /\ ~site.cartBusy /\ till.quote # 0

ConfirmAndPay ==
    /\ TillShown /\ ~till.busy /\ Room
    /\ till' = [till EXCEPT !.busy = TRUE]
    /\ open' = open \cup {Sent("confirm", till.quote)}
    /\ UNCHANGED <<local, site, talk>>

\* The handler goes on to the payment, also when the page was left.  A quote
\* is confirmed for its account only, and so is an order paid.
OrderMade(c) ==
    /\ c.kind = "confirm"
    /\ \/ /\ c.token = c.as
          /\ open' = (open \ {c}) \cup {[c EXCEPT !.kind = "pay", !.token = local]}
          /\ UNCHANGED till
       \/ /\ open' = open \ {c}
          /\ Tell(c, [till EXCEPT !.busy = FALSE])
    /\ UNCHANGED <<local, site, talk>>

\* The window of the payment provider opens over whatever page is shown.
PaymentMade(c) ==
    /\ c.kind = "pay"
    /\ open' = open \ {c}
    /\ Tell(c, [till EXCEPT !.busy = FALSE])
    /\ site' \in {site} \cup (IF c.token = c.as THEN {[site EXCEPT !.popup = c.as]} ELSE {})
    /\ UNCHANGED <<local, talk>>

\* It leads to the page of the order when that was paid; else it is closed.
PopupDone ==
    /\ site.popup # 0
    /\ LET s == [site EXCEPT !.popup = 0] IN GoTo(s, "order", open) \/ Stay(s, open)
    /\ UNCHANGED local

-----------------------------------------------------------------------------
(* The merchant's lists. *)

\* The layout around them, with its links, once it knows who is signed in.
Menu == IF site.page = "admin" /\ ~site.authBusy THEN SiteLists ELSE {}

\* One of the lists is opened, from a list or not, and asks for its rows.
OpenList ==
    /\ Room
    /\ \E l \in Menu \ {site.which} : site' = [Arriving(site, "admin") EXCEPT !.which = l]
    /\ open' = Left(open) \cup {Sent("list", 0)}
    /\ UNCHANGED <<local, talk, till>>

ListLoaded(c) ==
    /\ c.kind = "list"
    /\ open' = open \ {c}
    /\ site' \in {site} \cup
          (IF c.own /\ c.token # 0
           THEN {[site EXCEPT !.list = c.token, !.shape = sh] : sh \in {"array", "items", "neither"}}
           ELSE {})
    /\ UNCHANGED <<local, talk, till>>

\* What each list makes of an answer: rows, or nothing where it cannot read it.
OrdersTable == IF site.shape \in {"array", "items"} THEN site.list ELSE 0
AuditTable == IF site.shape \in {"array", "items"} THEN site.list ELSE 0
ProductsTable == IF site.shape = "items" THEN site.list ELSE 0
PoliciesTable == IF site.shape = "items" THEN site.list ELSE 0

ListDrawn ==
    CASE site.which = "orders"   -> OrdersTable
      [] site.which = "audit"    -> AuditTable
      [] site.which = "products" -> ProductsTable
      [] site.which = "policies" -> PoliciesTable
      [] OTHER                   -> 0

-----------------------------------------------------------------------------
LegacyNext ==
    \/ Reload \/ Follow \/ OtherTabSigns \/ SignIn \/ SignUp \/ Logout \/ AddRecommended \/ EditCart
    \/ SayToChat \/ ConfirmAndPay \/ PopupDone \/ OpenList
    \/ \E c \in open :
          \/ UserLoaded(c) \/ SignedInAs(c) \/ SignedUp(c) \/ FormFailed(c)
          \/ CartLoaded(c) \/ CartEdited(c) \/ ChatReplied(c)
          \/ QuoteMade(c) \/ OrderMade(c) \/ PaymentMade(c) \/ ListLoaded(c)

-----------------------------------------------------------------------------
(* Properties. *)

LegacyTypeOK ==
    /\ local \in Anyone
    /\ site.page \in SitePages /\ site.user \in Anyone /\ site.cart \in Anyone
    /\ talk.messages \in Seq({"assistant", "user"})

\* Whoever is shown as signed in is who the browser acts for, and the cart, the
\* rows, the quote and the payment window are his, page after page and session
\* after session.  That holds until a session begins over another one or over
\* something that is under way for one (a late answer is taken for the new
\* session), or the token changes in another tab, of which nothing tells this
\* one (hazards): from then on nothing is promised before a reload.
ShownIsSignedIn ==
    \/ site.disturbed
    \/ /\ site.user \in {0, local}
       /\ {site.cart, ListDrawn, site.popup} \subseteq {0, site.user}
       /\ site.user # 0 => till.quote \in {0, site.user}

\* The assistant answers a prompt at most once and in its turn: while one is
\* awaited no other goes out, and the answers of a conversation that was left
\* do not turn up in the next.
TakesTurns ==
    \A i \in 2 .. Len(talk.messages) :
        talk.messages[i] = "assistant" => talk.messages[i - 1] = "user"
=============================================================================
