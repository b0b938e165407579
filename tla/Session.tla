------------------------------- MODULE Session -------------------------------
(***************************************************************************)
(* Who is signed in, in the storefront apps/web2: the store of lib/auth-   *)
(* store.ts, kept once per document in memory and once per browser in      *)
(* localStorage; the client of lib/api-client.ts, which stamps a request   *)
(* with the session of the moment it is sent and ends the session of the   *)
(* moment a 401 comes back; the sign-in form; and the guards of the        *)
(* routes.  One tab is followed; the others reach it through the storage.  *)
(*                                                                         *)
(* A session is a token and the tenant chosen with it.  The backend is     *)
(* external: it mints tokens, lets them expire, and answers a request with *)
(* data of the session the request was sent with, with 401, or not at all. *)
(***************************************************************************)
EXTENDS Navigation, Naturals

CONSTANTS
    Pages,          \* the routes the tab moves between
    Tenants,        \* the workspaces an account may belong to
    MaxTokens,      \* bound: the sign-ins the backend accepts
    MaxRequests     \* bound: the requests of a document under way at once

ASSUME SessionAssumption ==
    Pages \subseteq Routes /\ MaxTokens \in Nat /\ MaxRequests \in Nat

VARIABLES
    storage,        \* rg_token and rg_tenant_id in localStorage
    minted,         \* the tokens the backend has issued: 1 .. minted
    expired,        \* those it accepts no more
    doc             \* the document the tab shows

sessionVars == <<storage, minted, expired, doc>>

Nobody == [token |-> 0, tenant |-> "none"]
Someone == [token : 1 .. MaxTokens, tenant : Tenants]
Credentials == Someone \cup {Nobody}

SignedIn(c) == c.token # 0
Valid(token) == token # 0 /\ token \notin expired

(***************************************************************************)
(* The state of the form.  A component that was unmounted while its        *)
(* handler awaits an answer leaves the handler running: its request stays, *)
(* with mine = FALSE, and what it would show is lost.                      *)
(***************************************************************************)
FreshForm(page) ==
    [mode |-> IF page = "/register" THEN "register" ELSE "login",
     loading |-> FALSE, token |-> 0, offered |-> {}]

Modes == {"login", "register", "tenant-select"}
Forms == [mode : Modes, loading : BOOLEAN, token : 0 .. MaxTokens, offered : SUBSET Tenants]

\* A request under way.  cred is what the client stamped on it; accepted is
\* whether the backend took the token when the request was sent.
Requests == [kind : {"login", "register", "tenants", "query", "catalog", "act"},
             cred : [token : 0 .. MaxTokens, tenant : Tenants \cup {"none"}],
             accepted : BOOLEAN, mine : BOOLEAN]

Request(kind, c, mine) ==
    [kind |-> kind, cred |-> c, accepted |-> Valid(c.token), mine |-> mine]

Documents ==
    [page : Routes, auth : Credentials, form : Forms, reqs : SUBSET Requests,
     cached : SUBSET Credentials,   \* whose answers the query cache holds
     homing : BOOLEAN,              \* signed in, on the way to the home page
     leaving : BOOLEAN,             \* location.href is set: about to be replaced
     overtaken : BOOLEAN]           \* a form no longer shown has signed in

\* A new document: module state is evaluated anew, with what storage holds.
FreshDocument(page) ==
    [page |-> page, auth |-> storage, form |-> FreshForm(page), reqs |-> {},
     cached |-> {}, homing |-> FALSE, leaving |-> FALSE, overtaken |-> FALSE]

SessionInit ==
    /\ storage = Nobody
    /\ minted = 0
    /\ expired = {}
    /\ doc = FreshDocument("/")

-----------------------------------------------------------------------------
(* Moving between pages. *)

\* The document d shows page; a form that is left forgets its requests.
Goto(d, page) ==
    IF page = d.page THEN d
    ELSE [d EXCEPT !.page = page,
                   !.form = FreshForm(page),
                   !.reqs = {[r EXCEPT !.mine = FALSE] : r \in d.reqs}]

\* A link of the page: the guard reads the store of the document.
Navigate ==
    \E r \in Links(doc.page) \cap Pages :
        /\ ~doc.leaving
        /\ doc' = Goto(doc, Landing(r, SignedIn(doc.auth)))
        /\ UNCHANGED <<storage, minted, expired>>

\* An address typed in, or a reload.  The server's store holds nobody, so its
\* guards send the visitor of a guarded page to /login whoever is signed in;
\* the document that arrives reads the storage.
Load ==
    \E r \in Pages :
        /\ ~doc.leaving
        /\ doc' = FreshDocument(Landing(r, FALSE))
        /\ UNCHANGED <<storage, minted, expired>>

\* The page the client asked for with location.href arrives.
Leave ==
    /\ doc.leaving
    /\ doc' = FreshDocument("/login")
    /\ UNCHANGED <<storage, minted, expired>>

-----------------------------------------------------------------------------
(* The store. *)

\* setAuth; at both its calls the handler then awaits the router, and goes
\* home in a later step.
SetAuth(d, c, mine) ==
    [d EXCEPT !.auth = c, !.homing = TRUE, !.overtaken = @ \/ ~mine]

\* Home is open to anyone: the handler gets there even if the session has
\* ended meanwhile.
GoHome ==
    /\ doc.homing
    /\ ~doc.leaving
    /\ doc' = [Goto(doc, "/") EXCEPT !.homing = FALSE]
    /\ UNCHANGED <<storage, minted, expired>>

\* Mutants: the login page is reached within the document, or not at all.
UnauthorizedInPlace(d) == Goto([d EXCEPT !.auth = Nobody], "/login")
UnauthorizedQuietly(d) == [d EXCEPT !.auth = Nobody]

\* A 401 on anything but the login: the store and the storage are emptied,
\* and unless the tab is at /login already it is sent there.
Unauthorized(d) ==
    [d EXCEPT !.auth = Nobody, !.leaving = @ \/ d.page # "/login"]

-----------------------------------------------------------------------------
(* The form. *)

FormShown == doc.page \in AsksForNone /\ ~doc.leaving

\* The button is disabled while loading; the fields are required, so what
\* is submitted is complete.
Submit ==
    /\ FormShown
    /\ doc.form.mode \in {"login", "register"}
    /\ ~doc.form.loading
    /\ Cardinality(doc.reqs) < MaxRequests
    /\ doc' = [doc EXCEPT !.form.loading = TRUE,
                          !.reqs = @ \cup {Request(doc.form.mode, doc.auth, TRUE)}]
    /\ UNCHANGED <<storage, minted, expired>>

\* The switch between signing in and signing up is never disabled.
ToggleMode ==
    /\ FormShown
    /\ doc.form.mode # "tenant-select"
    /\ doc' = [doc EXCEPT !.form.mode = IF @ = "login" THEN "register" ELSE "login"]
    /\ UNCHANGED <<storage, minted, expired>>

\* Mutant: without the finally, only what the handler sets.
SettleSilently(d, r, form) ==
    [d EXCEPT !.reqs = @ \ {r}, !.form = IF r.mine THEN form ELSE @]

\* finally { setLoading(false) }, with what the handler set before it.
Settle(d, r, form) ==
    [d EXCEPT !.reqs = @ \ {r},
              !.form = IF r.mine THEN [form EXCEPT !.loading = FALSE] ELSE @]

RegisterAnswer(r) ==
    /\ r.kind = "register"
    /\ \/ doc' = Settle(doc, r, [doc.form EXCEPT !.mode = "login"])
       \/ doc' = Settle(doc, r, doc.form)
    /\ UNCHANGED <<storage, minted, expired>>

\* A token, which the next request of the handler carries in the place of
\* the store's; or an error, which even as a 401 ends no session.
LoginAnswer(r) ==
    /\ r.kind = "login"
    /\ \/ /\ minted < MaxTokens
          /\ minted' = minted + 1
          /\ LET c == [token |-> minted', tenant |-> r.cred.tenant] IN
             doc' = [doc EXCEPT !.reqs = (@ \ {r}) \cup {Request("tenants", c, r.mine)}]
       \/ /\ doc' = Settle(doc, r, doc.form)
          /\ UNCHANGED minted
    /\ UNCHANGED <<storage, expired>>

\* The workspaces of the account: none is an error, one is taken at once,
\* several are offered.
TenantsAnswer(r) ==
    /\ r.kind = "tenants"
    /\ \/ /\ r.accepted
          /\ \E ts \in SUBSET Tenants :
                \/ /\ ts = {}
                   /\ UNCHANGED storage
                   /\ doc' = Settle(doc, r, doc.form)
                \/ \E x \in Tenants :
                      /\ ts = {x}
                      /\ storage' = [token |-> r.cred.token, tenant |-> x]
                      /\ doc' = SetAuth(Settle(doc, r, doc.form), storage', r.mine)
                \/ /\ Cardinality(ts) > 1
                   /\ UNCHANGED storage
                   /\ doc' = Settle(doc, r, [doc.form EXCEPT !.mode = "tenant-select",
                                                             !.token = r.cred.token,
                                                             !.offered = ts])
       \/ /\ ~Valid(r.cred.token)
          /\ storage' = Nobody
          /\ doc' = Unauthorized(Settle(doc, r, doc.form))
       \/ /\ UNCHANGED storage
          /\ doc' = Settle(doc, r, doc.form)
    /\ UNCHANGED <<minted, expired>>

SelectTenant ==
    /\ FormShown
    /\ doc.form.mode = "tenant-select"
    /\ \E x \in doc.form.offered :
          /\ storage' = [token |-> doc.form.token, tenant |-> x]
          /\ doc' = SetAuth(doc, storage', TRUE)
    /\ UNCHANGED <<minted, expired>>

-----------------------------------------------------------------------------
(* The data of the pages. *)

\* What a page asks for: data of the session's own, kept by the query client
\* and asked for again whenever it is stale; the catalog, which is open to
\* whoever names a tenant; and what its buttons call for, whose answers are
\* not kept.  The other pages ask for nothing.
CatalogPages == {"/products", "/products/$id"}
OwnDataPages == {"/cart", "/checkout", "/orders", "/orders/$id", "/admin/categories",
                 "/admin/growth", "/admin/orders", "/admin/policies", "/admin/api-keys"}
ActPages     == CatalogPages \cup {"/cart", "/checkout", "/ai", "/admin/policies",
                                   "/admin/api-keys"}

Asks(page) ==
    {kind \in {"catalog", "query", "act"} :
        \/ kind = "catalog" /\ page \in CatalogPages \cup {"/admin/products"}
        \/ kind = "query" /\ page \in OwnDataPages
        \/ kind = "act" /\ page \in ActPages}

AskData ==
    \E kind \in Asks(Shown(doc.page)) :
        /\ ~doc.leaving
        /\ Cardinality(doc.reqs) < MaxRequests
        /\ doc' = [doc EXCEPT !.reqs = @ \cup {Request(kind, doc.auth, FALSE)}]
        /\ UNCHANGED <<storage, minted, expired>>

\* Data, a 401, or an error that ends no session (403, 500, no connection).
Answer(r) ==
    LET d == [doc EXCEPT !.reqs = @ \ {r}] IN
    /\ r.kind \in {"query", "catalog", "act"}
    /\ \/ /\ IF r.kind = "catalog" THEN r.cred.tenant # "none" ELSE r.accepted
          /\ UNCHANGED storage
          /\ doc' = [d EXCEPT !.cached = IF r.kind = "act" THEN @ ELSE @ \cup {r.cred}]
       \/ /\ r.kind # "catalog"
          /\ ~Valid(r.cred.token)
          /\ storage' = Nobody
          /\ doc' = Unauthorized(d)
       \/ /\ UNCHANGED storage
          /\ doc' = d
    /\ UNCHANGED <<minted, expired>>

Expire ==
    \E k \in 1 .. minted \ expired :
        /\ expired' = expired \cup {k}
        /\ UNCHANGED <<storage, minted, doc>>

\* Another tab signs in; or one of its requests, with a token the backend no
\* longer takes or with none at all, comes back 401.
OtherTab ==
    /\ \/ /\ minted < MaxTokens
          /\ minted' = minted + 1
          /\ \E x \in Tenants : storage' = [token |-> minted', tenant |-> x]
       \/ /\ storage' = Nobody
          /\ UNCHANGED minted
    /\ UNCHANGED <<expired, doc>>

-----------------------------------------------------------------------------
FormAnswer ==
    \E r \in doc.reqs : RegisterAnswer(r) \/ LoginAnswer(r) \/ TenantsAnswer(r)

SessionNext ==
    \/ Navigate \/ Load \/ Leave \/ GoHome
    \/ Submit \/ ToggleMode \/ SelectTenant \/ FormAnswer
    \/ AskData \/ (\E r \in doc.reqs : Answer(r))
    \/ Expire \/ OtherTab

\* Every call to the backend ends, with an answer or an error, and the
\* browser loads the page it was sent to.  Nobody has to click anything.
SessionFairness == WF_sessionVars(FormAnswer) /\ WF_sessionVars(Leave)

-----------------------------------------------------------------------------
(* Properties. *)

SessionTypeOK ==
    /\ storage \in Credentials
    /\ minted \in 0 .. MaxTokens
    /\ expired \subseteq 1 .. minted
    /\ doc \in Documents

\* The query cache has no entry for who asked, so what keeps the data of one
\* session from being shown in the next is that a session ends with a new
\* document.  It does, as long as no form that was left behind signs in.
OneSessionPerDocument ==
    doc.leaving \/ doc.overtaken \/ doc.cached \subseteq {doc.auth}

\* A page behind a guard is shown without a session only while the browser
\* is on its way to the login page (the guards of the routes are checked on
\* entry; the session may end at any answer after).
GuardedPagesHaveSession ==
    Guarded(doc.page) => SignedIn(doc.auth) \/ doc.leaving

\* The form is never left waiting: whatever is answered, and whatever fails,
\* it can be submitted again or is gone (the finally of handleLoginSubmit).
FormSettles == doc.form.loading ~> ~doc.form.loading
=============================================================================
