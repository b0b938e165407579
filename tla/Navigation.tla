----------------------------- MODULE Navigation -----------------------------
(***************************************************************************)
(* The routes of the storefront apps/web2: how they nest, which of them    *)
(* ask for a session before they load, which component a route shows, and  *)
(* where the links of a page lead.  Constant definitions only; the module  *)
(* Session moves a tab along them.                                         *)
(***************************************************************************)
EXTENDS FiniteSets

Root == "root"

Routes ==
    {"/", "/ai", "/cart", "/checkout", "/login", "/register", "/orders", "/orders/$id",
     "/products", "/products/$id", "/admin", "/admin/", "/admin/analytics", "/admin/audit",
     "/admin/categories", "/admin/customers", "/admin/growth", "/admin/orders",
     "/admin/policies", "/admin/products", "/admin/products/new", "/admin/api-keys"}

\* The route under which the generated tree hangs a route.
Parent ==
    [r \in Routes |->
        CASE r = "/admin/products/new" -> "/admin/products"
          [] r \in {"/admin/", "/admin/analytics", "/admin/audit", "/admin/categories",
                    "/admin/customers", "/admin/growth", "/admin/orders", "/admin/policies",
                    "/admin/products", "/admin/api-keys"} -> "/admin"
          [] OTHER -> Root]

\* A route with the routes above it, all of which load (and guard) with it.
Chain(r) ==
    LET up(s) == IF s \in Routes THEN {s, Parent[s]} ELSE {s}
    IN  (UNION {up(s) : s \in UNION {up(s) : s \in up(r)}}) \ {Root}

\* What is reached through a route, itself included.
Below(r) == {s \in Routes : r \in Chain(s)}

\* The layout of the merchant center is the one routed component, besides the
\* root, that leaves room for its children.
HasOutlet == {"/admin"}

(***************************************************************************)
(* The route whose component is the innermost one on the screen: a child   *)
(* is rendered only through the outlet of its parent, so the form for a    *)
(* new product, which hangs under the product list, never appears.         *)
(***************************************************************************)
Shown(r) ==
    IF Parent[r] = Root \/ Parent[r] \in HasOutlet THEN r ELSE Parent[r]

(***************************************************************************)
(* Guards (beforeLoad).  Five routes turn a visitor without a token away   *)
(* to /login, the last of them with everything below it; /login and        *)
(* /register turn a visitor with a token away to /.                        *)
(***************************************************************************)
AsksForToken == {"/cart", "/checkout", "/ai", "/admin"}
AsksForNone  == {"/login", "/register"}

Guarded(r) == Chain(r) \cap AsksForToken # {}

\* Where a navigation to r ends for a visitor with or without a token.
Landing(r, token) ==
    CASE Guarded(r) /\ ~token        -> "/login"
      [] r \in AsksForNone /\ token  -> "/"
      [] OTHER                       -> r

(***************************************************************************)
(* Links.  The header of the customer pages has no entry for the session:  *)
(* it offers to sign in whether or not somebody is, and nothing signs out. *)
(***************************************************************************)
CustomerLinks == {"/", "/products", "/ai", "/orders", "/cart", "/login"}

\* The merchant center shows two navigations at once, the layout's and the
\* one of the page's own shell.
AdminLayoutLinks == {"/", "/admin", "/admin/products", "/admin/api-keys"}
AdminShellLinks  == {"/", "/admin", "/admin/products", "/admin/categories", "/admin/orders",
                     "/admin/customers", "/admin/analytics", "/admin/growth",
                     "/admin/policies", "/admin/audit"}

HomeLinks == {"/ai", "/products"}
AuthLinks == {"/"}

PageLinks(r) ==
    CASE r = "/"                                -> HomeLinks
      [] r \in {"/products", "/ai"}             -> {"/products/$id"}
      [] r = "/products/$id"                    -> {"/products"}
      [] r = "/cart"                            -> {"/products", "/checkout"}
      [] r \in {"/orders", "/checkout"}         -> {"/orders/$id"}
      [] r = "/orders/$id"                      -> {"/orders", "/products"}
      [] OTHER                                  -> {}

Links(r) ==
    CASE r \in AsksForNone        -> AuthLinks
      [] r \in Below("/admin")    -> AdminLayoutLinks \cup AdminShellLinks
      [] OTHER                    -> CustomerLinks \cup PageLinks(r)
=============================================================================
