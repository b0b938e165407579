# RazorGrowth AI: specification of the commerce core and its storefronts

TLA+ models of the backend in `src/apps/api/app` and of the two storefronts in `src/apps/web2` and
`src/apps/web`, checked by TLC and, where marked, proved with TLAPS. The backend is a FastAPI
application on async SQLAlchemy and PostgreSQL (READ COMMITTED), with Razorpay as payment provider,
Redis for rate limits and an LLM behind a shopping agent. The storefronts are React: `web2` on
TanStack Router, Query and Start, the older `web` on Next.js. What the backend gets right or wrong
depends on how requests interleave between their database statements; what the storefronts get
right or wrong, on what the shopper does while calls are under way and in what order, if at all,
their answers come. No test of the repository exercises either.

## The system: components, state, interactions

| Component | State it keeps | Operations | Modelled in |
|---|---|---|---|
| Payments (`services/payment_service.py`, `api/routes/webhooks.py`) | `orders.status`, `payments`, `payment_attempts`, `webhook_events` | POST /payments, Razorpay webhook | `Payments` |
| Cart (`services/cart_service.py`) | `carts`, `cart_items`, stateless confirmation tokens | get or create, add, update, remove, clear, validate | `Checkout` |
| Checkout (`services/checkout_service.py`) | `checkout_quotes`, `checkout_confirmations`, `orders`, `order_items` | create and confirm a quote | `Checkout` |
| Shopping agent (`agents/`) | `ai_sessions`, `ai_messages`, tool calls, decisions | a turn: up to five rounds of model and tools, one commit | `AgentTurn`; cart tools in `Checkout` |
| Policy engine (`services/policy_engine.py`) | `policies` | create, update, evaluate | `PolicyEngine` |
| Inventory, catalog | `products`, `product_variants`, `inventory` | create, update, search | price and stock updates in `Checkout`, the upsert of a stock in `FindOrInsert` |
| Growth (`services/growth_service.py`) | experiments and participants | participate, track | participation in `FindOrInsert` |
| Rate limiter (`core/rate_limit.py`) | counters in Redis | check | `RateLimit` |
| Storefront `web2`, routes and session (`routes/`, `lib/auth-store.ts`, `lib/api-client.ts`, `components/auth/`) | the token and tenant, in memory and in localStorage; the query cache | navigate, sign in, call, end the session on 401 | `Navigation`, `Session` |
| Storefront `web2`, shopper (`components/catalog`, `cart`, `checkout`, `orders`, `agent`) | search, product and cart pages; the five steps of the checkout; a conversation | search, add, count up and down, quote, confirm, pay, prompt, confirm a card | `Browse`, `CheckoutPage`, `Assistant` |
| Storefront `web2`, merchant (`components/admin`) | dialogs, tables | make and revoke keys, make policies, list | `Merchant`, `MerchantTables` |
| Storefront `web2`, server (`server.ts`, `start.ts`, `lib/error-*.ts`) | the loaded entry, one slot for the last error | answer a visit, catch what fails | `Ssr` |
| Storefront `web` (`lib/contexts`, `app/`, `components/ai-chat.tsx`) | a token in localStorage, shared by all tabs; the user and the cart of two providers; a conversation | sign in and out, cart, checkout, chat, the merchant's lists | `Legacy` |
| Tenants, users, API keys (`api/dependencies.py`, `db/session.py`) | memberships, tenant of a session | authenticate, set tenant context | not modelled |
| Orders, audit, schemas, migrations, scripts, component libraries | | queries, appended records, presentation | not modelled |

How they interact. A request handler gets one session and one transaction (`get_db`), calls
services that share it, and commits once at its end; an exception rolls everything back. Requests
meet only in the database: there is no `FOR UPDATE`, no version column and no retry anywhere, so
between two statements of a request any other may commit. The cart feeds the checkout
(`get_or_create_cart`, `validate_cart`), the checkout creates orders in status CREATED, payments
take them to PENDING_PAYMENT, and the webhook to PAID or PAYMENT_FAILED. The agent's tools call the
cart service in the agent's own transaction. Razorpay calls the webhook, again and again until it
gets a 2xx. A storefront meets the backend only in its calls, each of which may be carried out with
its answer lost; its pages meet each other in the session, in the query client's cache and, in the
server, in the slot for the last error.

What is hard, and what makes each part correct:

* Payments: overlapping webhooks and payment calls, redelivery, crashes before the commit, a
  customer who lost an answer. An event counts once; a settled payment stays settled; order and
  payment agree; no acknowledged event is lost.
* Cart and checkout: two carts for one customer, two rows or a lost update for one product, two
  orders from one quote, a price or stock that changes between confirmation and commit, a cart that
  changes between quote and order, a cart converted under another request's feet.
* Agent: a turn must end, store its conversation once, and survive a failing tool.
* Policies: the decision must not depend on the order of the rows and must fail closed.
* Growth, inventory: check-then-insert without a constraint that would catch the second insert.
* Rate limiter: window boundaries and failures of Redis.
* Storefront session: a late 401 or a form that signs in after it was left changes the credentials under
  a document whose cache has no key for who asked.
* Storefront pages: a button pressed again, back or away while a call is under way, answers that are lost,
  late or out of order. An order is paid for once; what is shown belongs to what was asked; the only
  look at a secret is not cut short.
* Older storefront: the token changes under the providers, in this tab or in another, while what they show
  and what they have asked for belongs to the session before.
* Storefront server: errors that are swallowed, an import that failed, one slot for every request.

The list of hazards, each at its line and with the properties that cover it, is in `PROJECT.json`.

## Modules

| Module | Content |
|---|---|
| `OrderLifecycle` | Abstract: an order is placed, billed once, settled once; the payment agrees. |
| `Payments` | POST /payments, the webhook, Razorpay as environment; implements `OrderLifecycle` while requests do not overlap. |
| `PaymentsInv` | The inductive invariants `IInv` (any overlap) and `SerialInv` (none). |
| `PaymentsProofs`, `PaymentsSerialProofs` | Proofs over `Payments`. |
| `CartLifecycle` | Abstract: one open cart at a time, ordered once and as it stands, then never touched. |
| `Checkout` | One customer's cart, tokens, quotes and orders, and the merchant's changes of price and stock; implements `CartLifecycle` while requests do not overlap. |
| `CheckoutInv` | The inductive invariants of `Checkout`: `IInv` (any overlap) and `SerialInv` (none). |
| `CheckoutProofs`, `CheckoutSerialProofs` | Proofs over `Checkout`. |
| `Sums` | Lemmas about sums over finite sets, on which the amounts of `Checkout` and the counts of `RateLimit` rest. |
| `Navigation` | The routes of `web2`: nesting, guards, links (constant definitions). |
| `Session` | Who is signed in, in one document of `web2` moving along `Navigation`. |
| `CheckoutPage` | The checkout of `web2` and the order pages behind it, over a backend that serves one request at a time. |
| `Assistant` | The conversation with the agent and its confirmation cards. |
| `Browse` | Search, product page and cart page. |
| `Merchant`, `MerchantTables` | API keys and policies; the tables that only list. |
| `Ssr` | The server entry of `web2` and its error handling. |
| `Legacy` | The providers and pages of `web`. |
| `AgentTurn` | One turn of the agent in the backend. |
| `RateLimit` | The fixed-window limit of one address. |
| `FindOrInsert` | The stock of a product and the variant of a visitor: look for the row, insert it if there is none. |
| `PolicyEngine` | The policies of a tenant and their evaluation, against what it means to violate one. |
| `PagesInv`, `ServerInv` | The inductive invariants of these parts, with a specification of each part by itself: the pages of `web2`; its server, `web` and the backend. |
| `PagesProofs`, `ServerProofs` | Proofs over the parts. |
| `MCPayments`, `MCCheckout` | Instances for TLC: event sets, symmetry. |
| `MCStorefront` | The storefront modules and the four backend modules after them, one at a time. |
| `StorefrontProofs` | What is proved of the parts holds in `MCStorefront`. |

### How the state corresponds to the code

Both detailed modules split a request at its database statements. A worker is a request slot;
`pc[w]` says which statement comes next, and the other locals hold what the request has read. Only
the commit changes the tables; flushed rows matter where they block others (the unique index on
`webhook_events.event_id` and the row lock of an updated payment, `EventFree` and `PaymentFree`).
A refusal, an exception or a kill rolls back, and the worker is idle again.

`Payments`: `orders`, `payments` are the status columns; `stored` and `attempts` count rows of
`webhook_events` and `payment_attempts` per event; `orderOf` is what Razorpay knows (the order a
Razorpay order was made for), `told` the payments some client was given, `raised` and `acked` the
events Razorpay has raised and had acknowledged. POST /payments is `ReadOrder`, `CheckExisting`,
`CreateProviderOrder`, `CommitPayment` (or `AmountOverflow`: `payments.amount` is NUMERIC(10,4)
while order totals have no bound). The webhook is `IgnoreUnknown` or `Receive`, `CheckEvent`, then
`StoreOnly`, or `FlushPayment` and `CommitWebhook`, or `InsertConflict`. An UPDATE by SQLAlchemy
writes only changed columns, by primary key alone: `CommitWebhook` leaves the order alone when the
status it read was the new one already.

`Checkout`: `carts`, `items`, `quotes`, `orders` are the tables of one customer (customers share
only the catalog, and stock is never reserved), `tokens` the confirmation tokens he holds, `shown`
the prices they have shown him (a history variable), `lapsed` the quotes past `expires_at`. SQLAlchemy's
identity map is modelled: a query of the cart loads the rows, their products and their stock (one
step), and a later SELECT in the same request returns the objects already loaded. So
`validate_cart`, which selects price and stock again, compares what the first query of the cart
loaded (`known`), unless the cart it gets is another one. A product stands for a product or one of its
variants, stock 0 also for an inactive one; amounts are subtotals. The policy engine is left out
of the checkout: it has no rule for the two checkout actions, and a failure of its query aborts.

The storefront modules keep a page as a record of what its component holds (`wiz`, `aiPage`,
`keyPage`, `doc`, `site`), and its calls under way as a set. A call is sent, carried out or refused, and
answered, where the code or its failure handling tells these apart; what the backend did stays done
when the answer is lost. A page that is left loses its state, but not the callbacks of its calls: `own`
in `CheckoutPage` says whether a call is still the page's. The mutations of TanStack Query are
modelled by what a page sees of them: the state of the last one it started (`Watched` in `Browse`).
The query client keeps an answer under its key until nobody has used it for a while; it is external.

* `Session`: `storage` is localStorage, `doc` one document with its copy of the credentials (`auth`),
  its cache (`cached`: whose data is in it), requests and form. `Answer` is `fetchWithAuth` with its 401;
  `Leave` the page load that `window.location.href` starts. `web2` has no sign-out.
* `CheckoutPage`: `submit` and the three mutations; the callback of the payment reads the order's
  number as of the last drawing of the page (`knows`), so the way to the order may not open.
  `backend.created` are the orders a payment was *created* for. Nothing there is paid: no page of `web2` opens the
  window of Razorpay.
* What a page draws from such a record is an operator of its own where a property or a step depends on it: the
  links a page offers (`Bar`, `Menu`, `OrdersListed`), the rows of a list (`ListDrawn`, `KeyRows`, `PolicyRows`), what of a
  cart is shown (`CartView`).
* `Assistant`: `inCart` and `sessions` are the backend's; `overlapped` remembers that first prompts overlapped.
* `Ssr`: `slot` is `lastCapturedError` with its age, `logged` what `console.error` of `server.ts`
  was given for each visit, `crowded` that two visits were ever in the server at once, a page that is still
  streamed and may fail included. What is thrown and is no `Error` is not recorded (`error-capture.ts:58`): `bare`
  are the visits swallowed for such a thing.
* `Legacy`: `local` is the token in localStorage, which `apiClient.ts:13` reads for each request and which another
  tab may change at any moment (`OtherTabSigns`); nothing in `AuthContext.tsx` listens. What is shown (user, cart,
  rows of a list, quote, payment window) is the account it is of. `disturbed` remembers that a session began or
  ended with something of a session under way, or over another session, or in another tab; a reload clears it.
* `AgentTurn`: `written` are the rows of the open transaction, `stored` those committed. An error outside a
  savepoint spoils the transaction, so the next statement raises. The audit after the commit is never
  committed itself; when it fails the caller has an error for a turn that is stored.
* `AgentTurn`, `PolicyEngine`: what may raise does. The answer of the model may not parse
  (`orchestrator.py:241`), and a policy may compare what cannot be compared or fail to write its audit record (`MayRaise`); a
  query of the policies that fails is caught and denies (`policy_engine.py:58-61`).
* `RateLimit`: time is in ticks; `waiting` are requests that have read the clock and wait for Redis, for as long as
  it takes: `Redis.from_url` (`main.py:40`) sets no time limit. A counter expires two windows after its last
  request, so a request that comes more than a window late may find it gone and start it again; `late` remembers
  that one came when its counter may have expired.
* `FindOrInsert`: a caller is at its look-up (`Find`) or at its write; `overlapping` remembers the kinds of row
  two callers have worked on at once.
* `PolicyEngine`: `Judge` runs the loop of `evaluate` over the active rows in every order.

## Runs

All runs set `CHECK_DEADLOCK FALSE`: bounded environments (events, tokens, orders, rows) run out,
and then the system really stops. "Any overlap" means several workers, "serial" one.

| Run | Shows |
|---|---|
| `pay_concurrent` | Three overlapping requests, one order, up to three payments, four events: `TypeOK`, `EventOnce` (an event is stored and applied once), `SettledByEvent` and `OrderOutcomeEarned` (every outcome is backed by an applied event), `PaymentRowsMoveOrder` (payment row and order status move together), `AckedIsStored`. |
| `pay_serial` | One request at a time on three orders, one of them oversized, with foreign, anonymous, mismatched, authorized and repeated events and one crash: `OnePaymentPerOrder`, `OrderAgreesWithPayment`, `SettledIsFinal`, `ImplementsLifecycle`. |
| `pay_live` | Two requests, two crashes: `CapturedIsStored`, every captured event is stored in the end. |
| `pay_overwrite` | Violation of `SettledIsFinal`: two webhooks of one payment overlap; the second overwrites PAID. |
| `pay_double` | Violation of `OnePaymentPerOrder`: two POST /payments overlap; the order gets two payments. |
| `pay_retry` | Violation of `PaymentReachesCustomer`: who lost the answer of POST /payments never gets the payment again. |
| `checkout_serial` | One request at a time, the merchant in between its statements: `OneActiveCart`, `OneRowPerProduct`, `OneOrderPerQuote`, `PricesWereShown`, `ImplementsCartLifecycle`. |
| `checkout_concurrent` | Two overlapping requests, two carts, two quotes, two orders: `TypeOK`, `ConvertedByOrder` (order, quote and cart are committed together), `OrderIsItsQuote`, `NothingForNothing`. |
| `checkout_worth` | Violation of `OrderIsWorthItsLines`, without any overlap: quote, change the cart, confirm the old quote; the order has the old amount and the new lines. |
| `checkout_twice` | Violation of `OneOrderPerQuote`: two confirmations of one quote overlap and make an order each. |
| `storefront` | Twelve parts in turn, twenty properties; see below. |
| `storefront_done` | Violation of `DoneMeansAdded`: the agent's card says "Action completed" when it is pressed, the call gets 402, and nothing takes it back. |

The violations are findings, described in `PROJECT.json` with the lines they contradict.

### The run `storefront`

The parts share no variable and no action, so a behaviour of all of them is one of each, interleaved, and
an invariant of one part holds in the whole when it holds in that part alone. `MCStorefront` therefore
picks a part at the start (`part`) and follows it to the end; the other parts keep their initial values.
Their liveness properties hold of the parts not followed because nobody has asked them anything:
what they say is checked in the behaviours of their own part.

| Part | Property | Says |
|---|---|---|
| session | `OneSessionPerDocument` | A document never holds data of two sessions, unless a form that was left behind signs in. |
| | `GuardedPagesHaveSession` | A guarded page is shown without a session only on the way to the login page. |
| | `FormSettles` | The sign-in form never waits for ever. |
| flow | `PaidForOnce` | No order is asked to be paid twice, whatever is pressed, left or lost. |
| | `ReceivedMeansCreated` | "Payment received" is shown, and the page of an order opened, only for an order that exists and, at the last step, that a payment was created for. Not that anything was received: see below. |
| assistant | `OneConversation` | A conversation stays in one backend session, unless its first prompts overlapped. |
| | `AskedOnce` | A confirmed card is never offered again. |
| browse, tables | `AnswersMatchQuestions` | Lists and tables show the answer to the question on the screen. |
| browse | `LegalQuantities` | No page asks for a quantity of zero or less. |
| merchant | `KeyStaysOpen` | The dialog with a new secret changes only by being closed. |
| ssr | `EveryVisitAnswered` | Every visit ends in a page or the error page. |
| | `OwnErrorWhenAlone` | The error logged for a visit is its own, unless two visits were in the server at once or what was thrown is no `Error`. |
| legacy | `ShownIsSignedIn` | The user shown is the one the requests act for, and cart, list, quote and payment window are his, until the document is disturbed. |
| | `TakesTurns` | The assistant answers each prompt at most once, in its own conversation. |
| rate | `TwiceAtMost` | Any stretch of a window's length admits at most twice the limit on the count, unless Redis lost its counters or a request reached them after they may have expired. |
| turn | `TurnStoredWhole` | A turn is stored whole or not at all, and not before its commit. |
| | `TurnEnds` | A turn that begins ends. |
| first | `OneRowAlone` | One stock, one variant, the one always told, as long as no two requests overlap. |
| policy | `DeniedIffViolated` | A verdict is a denial if and only if the policies could not be read or some active one is violated; a discount that is not passed violates none. |
| all | `StorefrontTypeOK` | Types, among them the bound of a line's quantity. |

The exceptions ("unless", "until") are the hazards of the same parts: there the code does lose the property, and
the invariant says that in no other way is it lost. They are not promises that the code keeps; `PROJECT.json`
names them with each hazard.

What the models show beside these:
the checkout page says "Payment received" (`CheckoutPage.tsx:180`) when a payment was created, which is all that
POST /payments does: it is in status CREATED, nothing in `web2` lets the shopper pay it, and line 164 of the same page says that the
backend will verify first. `ReceivedMeansCreated` therefore does not say what the page says;
the page of an order says "Order placed successfully", that its "Payment status is confirmed by the backend payment
provider" and that the backend confirmed the payment (`OrderDetailPage.tsx:36`, `45-47`, `72`), whatever the status of the order; the key page reads `secret`
where the backend answers `secret_key` (`schemas/api_key.py:27`), so the dialog stays empty; the policies
the merchant page makes are of a type (`CHECKOUT_VALIDATION`, `PoliciesPage.tsx:24`) that
`evaluate` never looks at, and no caller but the internal route asks it about PAYMENT or DISCOUNT; the
changes of the cart the storefronts ask for carry no confirmation token and are answered 402; the form for a
new product hangs under a route without an outlet and never appears; the older storefront signs in
with a form-encoded body that the backend refuses, its list of policies reads `.items` of an answer that is an array
(`api/routes/policies.py:20`) and so stays empty, and its audit page asks for `/audit/logs`, which does not exist.

### Bounds

`pay_concurrent` needs three workers because two creations and one webhook interact (a late creation
resets an order that was paid), and two payments for the events plus a third that is only created.
`pay_serial` needs a second order to confuse with the first and a third that overflows. `MaxCopies`
bounds the rows an event without an id may leave, `MaxCrashes` the crashes. `checkout_concurrent`
has two of each row because every hazard there is a second row of some kind, and one product at one
price and stock 1 because its properties do not compare prices; `checkout_serial` has two prices and
stock 2, so that tokens grow stale and quantities add up, and one worker, which never needs more than one
quote at a time; `MaxTokens` = 1 does not keep two requests from using one token, as a token stays valid
while it is used. Rows and workers are interchangeable in `Checkout`, workers and the two payments with
events in `pay_concurrent`: symmetry is used only there, and not under liveness.

`storefront`: two workspaces and two tokens make two sessions to confuse, with two requests of the first
still under way in the second; two carts, quotes and calls are what a second attempt at an order needs; three
prompts let two overlap and a third follow; two answers, edits, keys and calls of each kind are the least that can
be out of order; three visits are two at once and one after; a limit of 1 in windows of two ticks over four ticks has
two whole windows and every stretch across them, with requests as late as all of it; two policies let one allow what the other denies; two
rows of a kind are one too many. The loop of the agent has its real bound of five.
In `Legacy` two calls under way, of two accounts and one of them a merchant's, are the least that can meet; once a document is
disturbed its calls are bounded by one (`MaxDisturbed`), as only `TakesTurns` is still claimed of it; `SiteLists` are all four lists.

### Fairness

`FairSpec` of `Payments`: a started request that is not killed goes on (weak fairness of each
worker's steps: each is a coroutine awaiting the database or Razorpay), and Razorpay delivers an
unacknowledged event again and again (strong fairness, as workers are free again and again but
not for ever). This is the only progress the code counts on: it has no background jobs.
`RetrySpec` adds the customer who retries, as the storefront offers
(`CheckoutPage.tsx`). The crash bound makes failures finite.

`SessionFairness`: a call of the form ends, with an answer or an error (`fetch` settles), and the browser
loads the page it was sent to. `SsrFairness`: a request in the server goes on (weak fairness of all its
steps together, as one event loop runs them). `TurnFairness`: the server goes on with a turn it has
begun; every call of the model and of the database returns or raises. Nothing the shopper,
the merchant or the prompts do is fair. The other modules claim no liveness.

## Proofs

`PaymentsProofs` proves for any sets of orders, payments, events and workers: `TypeCorrect`,
`EventsOnce`, `PaymentsSettledByEvents`, `OrderOutcomesEarned`, `RowsMoveOrders`,
`NoAckedEventLost`. They are not inductive by themselves. `IInv` adds what requests in progress
know: `Intents` (no two requests are about to create the same payment, whose row and Razorpay order
do not exist before their steps), `Committed` (a payment told to anyone is committed, so is that of a
webhook in progress) and `Locks` (a request that has flushed holds its payment alone, and its
event is not stored). One lemma per part shows that every action keeps it.

`PaymentsSerialProofs` assumes `OneAtATime` (no two workers) and proves `SerialOnePayment`,
`SerialAgreement`, `SerialSettledIsFinal` and `SerialRefinement`: `Payments` implements
`OrderLifecycle`. The strengthening is `Fresh`: what a request has read is still so when it writes,
which is exactly what overlap destroys in `pay_overwrite` and `pay_double`.

`CheckoutProofs` proves for any sets of products, prices, rows, tokens and workers: `TypeCorrect`,
`ConvertedTogether`, `OrdersMatchQuotes` and `PricesShown`, the last beyond what TLC enumerates, as
the concurrent instance has a single price. `IInv` of `CheckoutInv` adds what requests in progress
know: `LocalsOK` (a request has the token, quote and cart its next statement needs, and quantities
that fit the stock it read), `CartsOwned` (a cart not yet committed belongs to one request, so no
commit can reopen a converted one), `QuotesOwned` (a quote is made by one request and keeps the cart
its confirmation compared), `IdsUnique` (an identifier stands for one row and one product, though
rows are replaced under a request's feet) and `TokensShown` (prices in tokens and in rows that
requests hold were shown). TLC checked `IInv` on both instances of `MCCheckout` before it was proved.

`NothingIsFree` proves `NothingForNothing` under any overlap: the amount of a quote is a sum over the
rows its cart had, which are some (an empty cart is refused) with positive prices and quantities.
`Sums` shows what that takes: the recursive function that the community modules sum with exists on every
finite set (by induction over sets of numbers, not over an operator), any element may be taken first,
and a sum of positive numbers is positive.

`CheckoutSerialProofs` assumes `OneAtATime` and proves `SerialOneActiveCart`, `SerialOneRowPerProduct`,
`SerialOneOrderPerQuote` and `SerialRefinement`: `Checkout` implements `CartLifecycle`. The strengthening,
`SerialInv`, says that one cart at most is active or about to be (`OneCartInSight`), what a quote is of
(`QuotedCarts`), and that what the one request has read of its cart, rows and quote is still what the
tables hold (`Fresh`); `checkout_twice` is what overlap makes of it. The steps of the merchant come between any two statements there too.

The parts of `MCStorefront` each have an inductive invariant, in `PagesInv` and `ServerInv`, which TLC checked
on the run's instance first, and a theorem over the part's own specification:

| Theorem | Proves | What the invariant adds |
|---|---|---|
| `FlowSafe` | `PaidForOnce`, `ReceivedMeansCreated` | an order is of a cart that is used up, and asked to be paid for only when it exists; the answer to a confirmation is an order nobody has asked to be paid for; the page awaits one call at most, a payment only for its own order |
| `SessionSafe` | `OneSessionPerDocument`, `GuardedPagesHaveSession` | what each request under way was stamped with, and that the document of a form has asked for nothing in the name of the session it begins |
| `AssistantSafe` | `OneConversation`, `AskedOnce` | one prompt at most is awaited until the page has a session; a prompt is answered once and a card comes with an answer |
| `BrowseSafe` | `ListMatchesSearch`, `LegalQuantities` | what is asked and kept is under the key of its own search; pages count from one |
| `KeyIsShown` | `KeyStaysOpen` (of every step) | one new key is awaited at most, and none while one is shown |
| `TablesSafe` | `OwnRows` | that answers are filed under the table that was asked |
| `SsrSafe` | `OwnErrorWhenAlone` | whose error is in the slot when one visit is in the server, until its stream has ended |
| `LegacySafe` | `ShownIsSignedIn`, `TakesTurns` | the token of every call under way and the account it is for, while nothing has disturbed the document; that lists and quotes go with their page; one answer awaited, to the last message |
| `RateSafe` | `TwiceAtMost` | until a request comes late, that a counter outlives its window by one and is not less than the requests it let in |
| `TurnSafe` | `TurnStoredWhole` | that results match calls in the open transaction, and when its rows are stored |
| `FirstSafe` | `OneRowAlone` | what the only caller of a kind has read is what the table has |
| `PolicySafe` | `DeniedIffViolated` | types; the loop is shown to deny if and only if one of the rows does, whatever their order |

`StorefrontProofs` puts them together: `MCStorefront` is built so that a behaviour of it is one of each part (a lemma,
`PartsApart`, which says nothing of the code), hence
`StorefrontTypes`, `AnswersMatch` and `StorefrontSafe`, every safety property of the run for every value
of its constants. The constants lose their bounds: any number of pages' carts, quotes, calls, prompts, keys,
accounts, visits, ticks, policies and rows. Where a property says "unless" (`disturbed`, `crowded`, `bare`, `late`,
`overlapped`, `overlapping`, `forgotten`, `leaving`, `overtaken`), so does the theorem.

The assumptions are those on the constants, named in the module that declares them (`ConstantsAssumption` of
`Payments`, `CheckoutAssumption`, `FlowAssumption`, `RateAssumption` and so on), which TLC evaluates in every run.
They say only what the constants are: bounds are numbers, prices positive, a window not empty, identifiers
not zero, those of policies finite in number, merchants accounts and lists those there are (`LegacyAssumption`), events
about payments of this or of another API. None restricts what the environment may do.

Only model-checked, as liveness is beyond the prover: `CapturedIsStored`, `FormSettles`,
`EveryVisitAnswered` and `TurnEnds`. The expected violations are TLC's by nature. Every other property
of a passing run is a theorem; those of a serial run under `OneAtATime`, as they fail without it.

Two things the proofs changed in the models. The proof of `TwiceAtMost` does not go through for requests of any
delay, and should not: `late` is where it stops. `PolicyEngine` and `Checkout` state their loops and orders with
operators the prover can expand; what they mean is the same.

## Not modelled, and why

* Audit records: appended in the caller's transaction and never read.
* Signature checks of webhooks and JWTs: pure functions; a request that fails them changes nothing.
* Tax and discounts: a fixed share and zero. Currency: always INR.
* `checkout_confirmations`: written with the order and never read. `orders.payment_status`: set to
  UNPAID at `checkout_service.py:152` and never updated.
* Connection pools, time-outs of the client: a request may end at any step (`Abort`, `Crash`).
* Migrations, scripts, schemas: one-off code, validation whose bounds are assumptions of the modules
  (prices and quantities are positive).
* Component libraries, layout, static and dashboard pages: presentation without state of the program.
  `ProductForm` and the root error component on the server cannot be reached.
* Authentication, memberships, permissions: look-ups that change nothing. The tenant of a session and
  row-level security: what is at stake is decided by the policies and roles in the database.
* Recommendations, analytics, creation of products and categories: single inserts and queries;
  unique constraints decide what overlaps.
* What the model of the agent answers, and the conversation it is shown in the next turn.
* A commit whose outcome is unknown to the server (the connection dies during it).

## Plan

Every safety property of the passing runs is proved. What is left, by importance:

1. **Across components**: an order that `Checkout` places is the one `Payments` takes on (`PlaceOrder` of the one is
   `CommitConfirm` of the other); property: what a customer pays for is what his quote held.
2. **Sharper theorems under overlap**: how far `OnePaymentPerOrder` and `OneOrderPerQuote` survive it
   (no more rows than overlapping requests).
3. **Abstract specifications of the pages**: `CheckoutPage` against `OrderLifecycle` as the shopper sees it.
